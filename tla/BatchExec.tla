------------------------------- MODULE BatchExec -------------------------------
(***************************************************************************)
(* The execution of one stage over its items (ecl-pipeline/src/batch.rs).  *)
(*                                                                         *)
(* execute_stage_items spawns one tokio task per item, each holding a      *)
(* permit of a semaphore, and collects their results when all are spawned. *)
(* A task retries the stage's handler with backoff.  The task that runs    *)
(* execute_stage_items may be aborted at any await, when the runner drops  *)
(* its JoinSet; dropping a JoinSet aborts its tasks at their next await.   *)
(* A stage that requires the whole batch goes through execute_stage_batch, *)
(* one call of the handler without retry.                                  *)
(***************************************************************************)
EXTENDS Naturals, FiniteSets

CONSTANTS
    N,              \* number of items given to the stage
    Concurrencies,  \* possible values of defaults.concurrency
    MaxAttempts     \* possible values of retry.max_attempts

Items == 1..N

ASSUME BatchAssumption ==
    N \in Nat /\ Concurrencies \subseteq Nat /\ MaxAttempts \subseteq Nat

VARIABLES
    stage,      \* the stage's settings; never changes
    caller,     \* where execute_stage_items / execute_stage_batch is
    next,       \* the next item to spawn
    permits,    \* permits left in the semaphore
    task,       \* the task of each item
    attempts,   \* its attempt counter
    result,     \* StageResult
    effects     \* history: items on which the handler has succeeded

vars == <<stage, caller, next, permits, task, attempts, result, effects>>

StageSettings ==
    [batch: BOOLEAN, skip: BOOLEAN, concurrency: Concurrencies,
     max_attempts: MaxAttempts]

CallerState == {"spawning", "joining", "batch", "returned", "error", "aborted"}
TaskState == {"none", "ready", "running", "backoff", "ok", "err", "panicked",
              "joined", "dead"}
InFlight == {i \in Items : task[i] \in {"ready", "running", "backoff"}}

(* StageResult, items by index.                                            *)
StageResult == [successes: SUBSET Items, skipped: SUBSET Items,
                failures: SUBSET Items]
NewResult == [successes |-> {}, skipped |-> {}, failures |-> {}]

(* record_success; record_skipped or record_failure.                       *)
MutForgetsSkipped(S) ==
    IF stage.skip THEN result ELSE [result EXCEPT !.failures = @ \cup S]
RecordSuccess(S) == [result EXCEPT !.successes = @ \cup S]
RecordError(S) ==
    IF stage.skip THEN [result EXCEPT !.skipped = @ \cup S]
                  ELSE [result EXCEPT !.failures = @ \cup S]

(* max_times is max_attempts.saturating_sub(1): there is always one        *)
(* attempt.                                                                *)
Retries == IF stage.max_attempts = 0 THEN 0 ELSE stage.max_attempts - 1

Init ==
    /\ stage \in StageSettings
    /\ caller = IF stage.batch THEN "batch" ELSE "spawning"
    /\ next = 1
    /\ permits = stage.concurrency
    /\ task = [i \in Items |-> "none"]
    /\ attempts = [i \in Items |-> 0]
    /\ result = NewResult
    /\ effects = {}

-----------------------------------------------------------------------------
(* The caller: spawn all, then join all.                                   *)

Spawn ==
    /\ caller = "spawning" /\ next \in Items
    /\ permits > 0
    /\ permits' = permits - 1
    /\ task' = [task EXCEPT ![next] = "ready"]
    /\ next' = next + 1
    /\ UNCHANGED <<stage, caller, attempts, result, effects>>

AllSpawned ==
    /\ caller = "spawning" /\ next = N + 1
    /\ caller' = "joining"
    /\ UNCHANGED <<stage, next, permits, task, attempts, result, effects>>

Join(i) ==
    /\ caller = "joining"
    /\ task[i] \in {"ok", "err"}
    /\ result' = IF task[i] = "ok" THEN RecordSuccess({i}) ELSE RecordError({i})
    /\ task' = [task EXCEPT ![i] = "joined"]
    /\ UNCHANGED <<stage, caller, next, permits, attempts, effects>>

(* The `?` on a JoinError: the JoinSet is dropped.                         *)
JoinPanicked(i) ==
    /\ caller = "joining"
    /\ task[i] = "panicked"
    /\ task' = [task EXCEPT ![i] = "joined"]
    /\ caller' = "error"
    /\ UNCHANGED <<stage, next, permits, attempts, result, effects>>

(* join_next returns None.                                                 *)
MutReturnEarly ==
    /\ caller = "joining" /\ InFlight = {}
    /\ caller' = "returned"
    /\ UNCHANGED <<stage, next, permits, task, attempts, result, effects>>
Return ==
    /\ caller = "joining"
    /\ \A i \in Items : task[i] = "joined"
    /\ caller' = "returned"
    /\ UNCHANGED <<stage, next, permits, task, attempts, result, effects>>

(* The runner drops the stage's task: another stage failed, or the run is  *)
(* over.                                                                   *)
Abort ==
    /\ caller \in {"spawning", "joining", "batch"}
    /\ caller' = "aborted"
    /\ UNCHANGED <<stage, next, permits, task, attempts, result, effects>>

-----------------------------------------------------------------------------
(* The task of an item: execute_with_retry.                                *)

Dropped == caller \in {"error", "aborted"}

(* The handler is called, for the first time or after a backoff.           *)
Attempt(i) ==
    /\ ~Dropped
    /\ task[i] \in {"ready", "backoff"}
    /\ attempts' = [attempts EXCEPT ![i] = @ + 1]
    /\ task' = [task EXCEPT ![i] = "running"]
    /\ UNCHANGED <<stage, caller, next, permits, result, effects>>

(* It returns Ok.  A handler between two awaits gets that far even when    *)
(* its task is aborted meanwhile.                                          *)
HandlerOk(i) ==
    /\ task[i] = "running"
    /\ task' = [task EXCEPT ![i] = "ok"]
    /\ effects' = effects \cup {i}
    /\ permits' = permits + 1
    /\ UNCHANGED <<stage, caller, next, attempts, result>>

(* It returns an error: any error is retried while attempts are left.      *)
HandlerErr(i) ==
    /\ task[i] = "running"
    /\ IF attempts[i] > Retries
       THEN task' = [task EXCEPT ![i] = "err"] /\ permits' = permits + 1
       ELSE task' = [task EXCEPT ![i] = "backoff"] /\ UNCHANGED permits
    /\ UNCHANGED <<stage, caller, next, attempts, result, effects>>

(* It panics: unwinding drops the permit.                                  *)
HandlerPanic(i) ==
    /\ task[i] = "running"
    /\ task' = [task EXCEPT ![i] = "panicked"]
    /\ permits' = permits + 1
    /\ UNCHANGED <<stage, caller, next, attempts, result, effects>>

(* An aborted task is dropped at an await, and its permit with it.         *)
Cancelled(i) ==
    /\ Dropped
    /\ i \in InFlight
    /\ task' = [task EXCEPT ![i] = "dead"]
    /\ permits' = permits + 1
    /\ UNCHANGED <<stage, caller, next, attempts, result, effects>>

-----------------------------------------------------------------------------
(* execute_stage_batch: one outcome for all.                               *)

BatchOk ==
    /\ caller = "batch"
    /\ result' = RecordSuccess(Items)
    /\ effects' = Items
    /\ caller' = "returned"
    /\ UNCHANGED <<stage, next, permits, task, attempts>>

BatchErr ==
    /\ caller = "batch"
    /\ result' = RecordError(Items)
    /\ caller' = "returned"
    /\ UNCHANGED <<stage, next, permits, task, attempts, effects>>

-----------------------------------------------------------------------------
ItemStep(i) ==
    \/ Attempt(i) \/ HandlerOk(i) \/ HandlerErr(i) \/ HandlerPanic(i)
    \/ Cancelled(i)

CallerStep ==
    \/ Spawn \/ AllSpawned
    \/ \E i \in Items : Join(i) \/ JoinPanicked(i)
    \/ Return
    \/ BatchOk \/ BatchErr

Next ==
    \/ CallerStep
    \/ \E i \in Items : ItemStep(i)
    \/ Abort

(* The runtime polls every task that is ready, and handlers return.        *)
Fairness == WF_vars(CallerStep) /\ \A i \in Items : WF_vars(ItemStep(i))

Spec == Init /\ [][Next]_vars /\ Fairness

-----------------------------------------------------------------------------
(* Properties.                                                             *)

(* Every variable holds a value of its type.                               *)
TypeOK ==
    /\ stage \in StageSettings
    /\ caller \in CallerState
    /\ next \in 1..N + 1
    /\ permits \in Nat
    /\ task \in [Items -> TaskState]
    /\ attempts \in [Items -> Nat]
    /\ result \in StageResult
    /\ effects \subseteq Items

(* At most `concurrency` items are being processed, and no outcome of a    *)
(* task, a panic or an abort included, leaks a permit or returns it twice  *)
(* (batch.rs:118-137).                                                     *)
PermitsBalance == permits + Cardinality(InFlight) = stage.concurrency

(* What a stage returns accounts for every item once, a success is one the *)
(* handler reported, nothing the handler achieved is missing, and no task  *)
(* is left running (batch.rs:153-180).                                     *)
ReturnIsComplete ==
    caller = "returned" =>
       /\ InFlight = {}
       /\ result.successes = effects
       /\ result.successes \cup result.skipped \cup result.failures = Items
       /\ result.successes \cap (result.skipped \cup result.failures) = {}
       /\ result.skipped = {} \/ result.failures = {}

(* An item is given up only after max_attempts attempts, and never tried   *)
(* once more: 0 counts as 1 (batch.rs:276).                                *)
GivenUpAfterAllAttempts ==
    \A i \in Items :
       /\ attempts[i] <= 1 \/ attempts[i] <= stage.max_attempts
       /\ task[i] = "err" => attempts[i] >= stage.max_attempts

(* However the items end, the permits, the attempts and the result are     *)
(* those of their outcomes.                                                *)
BatchIsExact == PermitsBalance /\ ReturnIsComplete /\ GivenUpAfterAllAttempts

(* The stage's task is the one the runner relies on.                       *)
OutcomeState == CASE caller = "returned" -> "returned"
                  [] Dropped -> "lost"
                  [] OTHER -> "running"
Outcomes == INSTANCE StageOutcomes WITH
    state <- OutcomeState,
    ok <- result.successes,
    bad <- result.skipped \cup result.failures

(* Every step of the execution is a step of StageOutcomes: outcomes are    *)
(* final, and a result is returned only when it is whole.                  *)
ImplementsStageOutcomes == Outcomes!Spec

(* Whatever the handlers return, and wherever they panic, the call ends,   *)
(* and then no task is left behind.  Needs a permit: with concurrency 0    *)
(* the first item is never spawned.                                        *)
StageEnds ==
    stage.concurrency > 0 =>
       <>[](caller \in {"returned", "error", "aborted"} /\ InFlight = {})

=============================================================================
