---------------------------- MODULE BatchExecProofs ----------------------------
(***************************************************************************)
(* Theorems about BatchExec, for any number of items, any concurrency and  *)
(* any retry limit.                                                        *)
(***************************************************************************)
EXTENDS BatchExec, FiniteSetTheorems, TLAPS

(* Items are spawned in order; what is joined is spawned; the batch call   *)
(* spawns nothing.                                                         *)
SpawnInv ==
    /\ \A i \in Items : i >= next <=> task[i] = "none"
    /\ caller = "spawning" => \A i \in Items : task[i] # "joined"
    /\ caller = "joining" => next = N + 1
    /\ caller = "batch" => stage.batch
    /\ stage.batch => caller \in {"batch", "returned", "aborted"} /\ next = 1
    /\ caller = "returned" /\ ~stage.batch => \A i \in Items : task[i] = "joined"

(* How many attempts a task in each state has made.                        *)
AttemptInv ==
    \A i \in Items :
       /\ attempts[i] <= Retries + 1
       /\ task[i] \in {"none", "ready"} => attempts[i] = 0
       /\ task[i] = "backoff" => attempts[i] <= Retries
       /\ task[i] = "err" => attempts[i] = Retries + 1

(* What is in the result was joined, and says what the handler said.       *)
ResultInv ==
    /\ IF stage.skip THEN result.failures = {} ELSE result.skipped = {}
    /\ result.successes \cap (result.skipped \cup result.failures) = {}
    /\ ~stage.batch => \A i \in Items :
          /\ i \in result.successes => task[i] = "joined" /\ i \in effects
          /\ i \in result.skipped \cup result.failures =>
                task[i] = "joined" /\ i \notin effects
          /\ task[i] = "joined" /\ caller \in {"joining", "returned"} =>
                i \in result.successes \cup result.skipped \cup result.failures
          /\ i \in effects => task[i] = "ok" \/ i \in result.successes
                              \/ caller \in {"error", "aborted"}
          /\ task[i] = "ok" => i \in effects
          /\ task[i] # "ok" /\ task[i] # "joined" => i \notin effects
    /\ caller = "batch" => result = NewResult /\ effects = {}
    /\ stage.batch /\ caller = "returned" =>
          /\ result.successes = effects
          /\ result.successes \cup result.skipped \cup result.failures = Items

IInv == TypeOK /\ PermitsBalance /\ SpawnInv /\ AttemptInv /\ ResultInv

-----------------------------------------------------------------------------
LEMMA RetriesType == stage \in StageSettings => Retries \in Nat
<1> SUFFICES ASSUME stage \in StageSettings PROVE Retries \in Nat
  OBVIOUS
<1>1. stage.max_attempts \in Nat
  BY BatchAssumption DEF StageSettings
<1> QED
  BY <1>1 DEF Retries

LEMMA ItemsFinite == IsFiniteSet(Items)
BY BatchAssumption, FS_Interval DEF Items

LEMMA InFlightFinite == IsFiniteSet(InFlight) /\ Cardinality(InFlight) \in Nat
<1>1. InFlight \in SUBSET Items
  BY DEF InFlight
<1> QED
  BY <1>1, ItemsFinite, FS_Subset, FS_CardinalityType

LEMMA InitInv == Init => IInv
<1> SUFFICES ASSUME Init PROVE IInv
  OBVIOUS
<1>1. TypeOK
  BY BatchAssumption, RetriesType
     DEF Init, TypeOK, StageSettings, CallerState, TaskState, StageResult, NewResult
<1>2. InFlight = {}
  BY DEF Init, InFlight
<1>3. PermitsBalance
  BY <1>2, FS_EmptySet, BatchAssumption DEF Init, PermitsBalance, StageSettings
<1>4. SpawnInv
  BY BatchAssumption DEF Init, SpawnInv, Items, StageSettings
<1>5. AttemptInv
  BY RetriesType DEF Init, AttemptInv
<1>6. ResultInv
  BY DEF Init, ResultInv, NewResult
<1> QED
  BY <1>1, <1>3, <1>4, <1>5, <1>6 DEF IInv

-----------------------------------------------------------------------------
(* Types.                                                                  *)

LEMMA RecordType ==
    ASSUME result \in StageResult, NEW S \in SUBSET Items
    PROVE  RecordSuccess(S) \in StageResult /\ RecordError(S) \in StageResult
BY DEF StageResult, RecordSuccess, RecordError

LEMMA TypeStep == TypeOK /\ SpawnInv /\ PermitsBalance /\ [Next]_vars => TypeOK'
<1> SUFFICES ASSUME TypeOK, SpawnInv, PermitsBalance, [Next]_vars PROVE TypeOK'
  OBVIOUS
<1> USE DEF TypeOK, CallerState, TaskState
<1>1. CASE Spawn
  BY <1>1, BatchAssumption DEF Spawn, Items
<1>2. CASE AllSpawned
  BY <1>2 DEF AllSpawned
<1>3. ASSUME NEW i \in Items, Join(i) PROVE TypeOK'
  BY <1>3, RecordType DEF Join
<1>4. ASSUME NEW i \in Items, JoinPanicked(i) PROVE TypeOK'
  BY <1>4 DEF JoinPanicked
<1>5. CASE Return \/ Abort
  BY <1>5 DEF Return, Abort
<1>6. CASE BatchOk \/ BatchErr
  BY <1>6, RecordType DEF BatchOk, BatchErr
<1>7. ASSUME NEW i \in Items, Attempt(i) PROVE TypeOK'
  BY <1>7 DEF Attempt
<1>8. ASSUME NEW i \in Items, HandlerOk(i) \/ HandlerPanic(i) \/ Cancelled(i)
      PROVE  TypeOK'
  BY <1>8 DEF HandlerOk, HandlerPanic, Cancelled
<1>9. ASSUME NEW i \in Items, HandlerErr(i) PROVE TypeOK'
  BY <1>9 DEF HandlerErr
<1>10. CASE UNCHANGED vars
  BY <1>10 DEF vars
<1> QED
  BY <1>1, <1>2, <1>3, <1>4, <1>5, <1>6, <1>7, <1>8, <1>9, <1>10
     DEF Next, CallerStep, ItemStep

-----------------------------------------------------------------------------
(* Permits.                                                                *)

(* A step that takes a permit puts one task in flight.                     *)
LEMMA TakePermit ==
    ASSUME TypeOK, PermitsBalance, NEW i \in Items,
           task[i] = "none", task' = [task EXCEPT ![i] = "ready"],
           permits > 0, permits' = permits - 1, stage' = stage
    PROVE  PermitsBalance'
<1>1. InFlight' = InFlight \cup {i} /\ i \notin InFlight
  BY DEF TypeOK, InFlight
<1>2. Cardinality(InFlight') = Cardinality(InFlight) + 1
  BY <1>1, InFlightFinite, FS_AddElement
<1> QED
  BY <1>2, InFlightFinite DEF TypeOK, PermitsBalance

(* A step that returns one takes a task out of flight.                     *)
LEMMA GivePermit ==
    ASSUME TypeOK, PermitsBalance, NEW i \in InFlight,
           NEW s \in {"ok", "err", "panicked", "dead"},
           task' = [task EXCEPT ![i] = s],
           permits' = permits + 1, stage' = stage
    PROVE  PermitsBalance'
<1>1. InFlight' = InFlight \ {i}
  BY DEF TypeOK, InFlight
<1>2. Cardinality(InFlight') = Cardinality(InFlight) - 1
  BY <1>1, InFlightFinite, FS_RemoveElement
<1> QED
  BY <1>2, InFlightFinite DEF TypeOK, PermitsBalance

LEMMA PermitsStep == TypeOK /\ SpawnInv /\ PermitsBalance /\ [Next]_vars => PermitsBalance'
<1> SUFFICES ASSUME TypeOK, SpawnInv, PermitsBalance, [Next]_vars PROVE PermitsBalance'
  OBVIOUS
<1>1. CASE Spawn
  <2>1. task[next] = "none"
    BY <1>1 DEF Spawn, SpawnInv, TypeOK
  <2> QED
    BY <1>1, <2>1, TakePermit DEF Spawn
<1>2. ASSUME NEW i \in Items,
             HandlerOk(i) \/ HandlerPanic(i) \/ Cancelled(i)
             \/ (HandlerErr(i) /\ attempts[i] > Retries)
      PROVE  PermitsBalance'
  <2>1. i \in InFlight
    BY <1>2 DEF HandlerOk, HandlerPanic, Cancelled, HandlerErr, InFlight
  <2> QED
    BY <1>2, <2>1, GivePermit DEF HandlerOk, HandlerPanic, Cancelled, HandlerErr
<1>3. ASSUME NEW i \in Items,
             Attempt(i) \/ Join(i) \/ JoinPanicked(i)
             \/ (HandlerErr(i) /\ ~(attempts[i] > Retries))
      PROVE  PermitsBalance'
  <2>1. InFlight' = InFlight
    BY <1>3 DEF Attempt, Join, JoinPanicked, HandlerErr, InFlight, TypeOK
  <2>2. permits' = permits /\ stage' = stage
    BY <1>3 DEF Attempt, Join, JoinPanicked, HandlerErr
  <2> QED
    BY <2>1, <2>2 DEF PermitsBalance
<1>4. CASE AllSpawned \/ Return \/ Abort \/ BatchOk \/ BatchErr \/ UNCHANGED vars
  <2>1. task' = task /\ permits' = permits /\ stage' = stage
    BY <1>4 DEF AllSpawned, Return, Abort, BatchOk, BatchErr, vars
  <2> QED
    BY <2>1 DEF PermitsBalance, InFlight
<1> QED
  BY <1>1, <1>2, <1>3, <1>4 DEF Next, CallerStep, ItemStep

-----------------------------------------------------------------------------
(* The rest of the invariant.                                              *)

LEMMA SpawnStep == TypeOK /\ SpawnInv /\ [Next]_vars => SpawnInv'
<1> SUFFICES ASSUME TypeOK, SpawnInv, [Next]_vars PROVE SpawnInv'
  OBVIOUS
<1> USE DEF SpawnInv, TypeOK
<1>1. CASE Spawn
  <2>1. ~stage.batch
    BY <1>1 DEF Spawn
  <2> QED
    BY <1>1, <2>1, BatchAssumption DEF Spawn, Items
<1>2. CASE AllSpawned
  BY <1>2 DEF AllSpawned
<1>3. ASSUME NEW i \in Items, Join(i) \/ JoinPanicked(i) PROVE SpawnInv'
  BY <1>3 DEF Join, JoinPanicked
<1>4. CASE Return \/ Abort
  BY <1>4 DEF Return, Abort
<1>5. CASE BatchOk \/ BatchErr
  BY <1>5 DEF BatchOk, BatchErr
<1>6. ASSUME NEW i \in Items, ItemStep(i) PROVE SpawnInv'
  <2>1. task[i] \notin {"none", "joined"} /\ task'[i] # "none"
    BY <1>6 DEF ItemStep, Attempt, HandlerOk, HandlerErr, HandlerPanic, Cancelled,
                InFlight
  <2>2. /\ \A j \in Items \ {i} : task'[j] = task[j]
        /\ next' = next /\ caller' = caller /\ stage' = stage
    BY <1>6 DEF ItemStep, Attempt, HandlerOk, HandlerErr, HandlerPanic, Cancelled
  <2>3. \A j \in Items : (task'[j] = "none") <=> (task[j] = "none")
    BY <2>1, <2>2
  <2>4. \A j \in Items : (task'[j] = "joined") <=> (task[j] = "joined")
    BY <2>1, <2>2, <1>6 DEF ItemStep, Attempt, HandlerOk, HandlerErr, HandlerPanic,
                            Cancelled
  <2> QED
    BY <2>2, <2>3, <2>4
<1>7. CASE UNCHANGED vars
  BY <1>7 DEF vars
<1> QED
  BY <1>1, <1>2, <1>3, <1>4, <1>5, <1>6, <1>7 DEF Next, CallerStep

LEMMA AttemptStep == TypeOK /\ SpawnInv /\ AttemptInv /\ [Next]_vars => AttemptInv'
<1> SUFFICES ASSUME TypeOK, SpawnInv, AttemptInv, [Next]_vars PROVE AttemptInv'
  OBVIOUS
<1>1. stage' = stage /\ Retries' = Retries /\ Retries \in Nat
  <2>1. stage' = stage
    BY DEF Next, CallerStep, ItemStep, Spawn, AllSpawned, Join, JoinPanicked, Return,
           Abort, BatchOk, BatchErr, Attempt, HandlerOk, HandlerErr, HandlerPanic,
           Cancelled, vars
  <2>2. Retries' = Retries
    BY <2>1 DEF Retries
  <2> QED
    BY <2>1, <2>2, RetriesType DEF TypeOK
<1>2. CASE Spawn
  <2>1. task[next] = "none"
    BY <1>2 DEF Spawn, SpawnInv, TypeOK
  <2> QED
    BY <1>1, <1>2, <2>1 DEF Spawn, AttemptInv, TypeOK
<1>3. ASSUME NEW i \in Items, Join(i) \/ JoinPanicked(i) PROVE AttemptInv'
  BY <1>1, <1>3 DEF Join, JoinPanicked, AttemptInv, TypeOK
<1>4. ASSUME NEW i \in Items, Attempt(i) PROVE AttemptInv'
  BY <1>1, <1>4 DEF Attempt, AttemptInv, TypeOK
<1>5. ASSUME NEW i \in Items, HandlerOk(i) \/ HandlerPanic(i) \/ Cancelled(i)
      PROVE  AttemptInv'
  BY <1>1, <1>5 DEF HandlerOk, HandlerPanic, Cancelled, AttemptInv, TypeOK
<1>6. ASSUME NEW i \in Items, HandlerErr(i) PROVE AttemptInv'
  BY <1>1, <1>6 DEF HandlerErr, AttemptInv, TypeOK
<1>7. CASE AllSpawned \/ Return \/ Abort \/ BatchOk \/ BatchErr \/ UNCHANGED vars
  <2>1. task' = task /\ attempts' = attempts
    BY <1>7 DEF AllSpawned, Return, Abort, BatchOk, BatchErr, vars
  <2> QED
    BY <1>1, <2>1 DEF AttemptInv
<1> QED
  BY <1>2, <1>3, <1>4, <1>5, <1>6, <1>7 DEF Next, CallerStep, ItemStep

LEMMA ResultStep == IInv /\ [Next]_vars => ResultInv'
<1> SUFFICES ASSUME IInv, [Next]_vars PROVE ResultInv'
  OBVIOUS
<1> USE DEF IInv
<1>1. CASE Spawn
  <2>1. task[next] = "none" /\ ~stage.batch
    BY <1>1 DEF Spawn, SpawnInv, TypeOK
  <2> QED
    BY <1>1, <2>1 DEF Spawn, ResultInv, TypeOK
<1>2. CASE AllSpawned
  <2>1. \A i \in Items : task[i] # "joined"
    BY <1>2 DEF AllSpawned, SpawnInv
  <2> QED
    BY <1>2, <2>1 DEF AllSpawned, ResultInv, TypeOK
<1>3. ASSUME NEW i \in Items, Join(i) PROVE ResultInv'
  <2>1. ~stage.batch
    BY <1>3 DEF Join, SpawnInv
  <2>4. /\ task'[i] = "joined" /\ \A j \in Items \ {i} : task'[j] = task[j]
        /\ caller' = caller /\ caller = "joining"
        /\ stage' = stage /\ effects' = effects
    BY <1>3 DEF Join, TypeOK
  <2>2. CASE task[i] = "ok"
    <3>1. result' = [result EXCEPT !.successes = @ \cup {i}]
      BY <1>3, <2>2 DEF Join, RecordSuccess
    <3>2. /\ result'.successes = result.successes \cup {i}
          /\ result'.skipped = result.skipped /\ result'.failures = result.failures
      BY <3>1 DEF TypeOK, StageResult
    <3>3. i \in effects /\ i \notin result.skipped \cup result.failures
      BY <2>1, <2>2 DEF ResultInv
    <3> QED
      BY <2>1, <2>2, <2>4, <3>2, <3>3 DEF ResultInv
  <2>3. CASE task[i] = "err"
    <3>1. IF stage.skip
          THEN result' = [result EXCEPT !.skipped = @ \cup {i}]
          ELSE result' = [result EXCEPT !.failures = @ \cup {i}]
      BY <1>3, <2>3 DEF Join, RecordError
    <3>2. /\ result'.successes = result.successes
          /\ result'.skipped \cup result'.failures
                = result.skipped \cup result.failures \cup {i}
          /\ IF stage.skip THEN result'.failures = result.failures
                           ELSE result'.skipped = result.skipped
      BY <3>1 DEF TypeOK, StageResult
    <3>3. i \notin effects /\ i \notin result.successes
      BY <2>1, <2>3 DEF ResultInv
    <3> QED
      BY <2>1, <2>3, <2>4, <3>2, <3>3 DEF ResultInv
  <2> QED
    BY <1>3, <2>2, <2>3 DEF Join
<1>4. ASSUME NEW i \in Items, JoinPanicked(i) PROVE ResultInv'
  <2>1. ~stage.batch
    BY <1>4 DEF JoinPanicked, SpawnInv
  <2> QED
    BY <1>4, <2>1 DEF JoinPanicked, ResultInv, TypeOK
<1>5. CASE Return
  <2>1. ~stage.batch
    BY <1>5 DEF Return, SpawnInv
  <2> QED
    BY <1>5, <2>1 DEF Return, ResultInv, TypeOK
<1>6. CASE Abort
  BY <1>6 DEF Abort, ResultInv, TypeOK
<1>7. CASE BatchOk \/ BatchErr
  <2>1. stage.batch /\ caller' = "returned" /\ stage' = stage
    BY <1>7 DEF BatchOk, BatchErr, SpawnInv
  <2>2. result = NewResult /\ effects = {}
    BY <1>7 DEF BatchOk, BatchErr, ResultInv
  <2> QED
    BY <1>7, <2>1, <2>2
       DEF BatchOk, BatchErr, ResultInv, RecordSuccess, RecordError, NewResult
<1>8. ASSUME NEW i \in Items, ItemStep(i) PROVE ResultInv'
  <2>1. task[i] \in {"ready", "running", "backoff"}
    BY <1>8 DEF ItemStep, Attempt, HandlerOk, HandlerErr, HandlerPanic, Cancelled,
                InFlight
  <2>2. ~stage.batch
    BY <2>1 DEF SpawnInv, Items, TypeOK
  <2>3. /\ \A j \in Items \ {i} : task'[j] = task[j]
        /\ result' = result /\ caller' = caller /\ stage' = stage
        /\ task'[i] \notin {"none", "joined"}
        /\ IF task'[i] = "ok" THEN effects' = effects \cup {i} ELSE effects' = effects
    BY <1>8 DEF ItemStep, Attempt, HandlerOk, HandlerErr, HandlerPanic, Cancelled, TypeOK
  <2>4. i \notin effects /\ i \notin result.successes
        /\ i \notin result.skipped \cup result.failures
    BY <2>1, <2>2 DEF ResultInv
  <2>5. caller # "batch"
    BY <2>1, <2>2 DEF SpawnInv
  <2> QED
    BY <2>1, <2>2, <2>3, <2>4, <2>5 DEF ResultInv
<1>9. CASE UNCHANGED vars
  BY <1>9 DEF vars, ResultInv
<1> QED
  BY <1>1, <1>2, <1>3, <1>4, <1>5, <1>6, <1>7, <1>8, <1>9 DEF Next, CallerStep

LEMMA StepInv == IInv /\ [Next]_vars => IInv'
BY TypeStep, PermitsStep, SpawnStep, AttemptStep, ResultStep DEF IInv

LEMMA Invariance == Spec => []IInv
BY InitInv, StepInv, PTL DEF Spec

-----------------------------------------------------------------------------
(* Every variable keeps its type.                                          *)
THEOREM TypeCorrect == Spec => []TypeOK
<1>1. IInv => TypeOK
  BY DEF IInv
<1> QED
  BY <1>1, Invariance, PTL

(* Every permit is either free or held by exactly one task in flight, so   *)
(* no more than `concurrency` items are ever processed at once.            *)
THEOREM PermitsAreBalanced == Spec => []PermitsBalance
<1>1. IInv => PermitsBalance
  BY DEF IInv
<1> QED
  BY <1>1, Invariance, PTL

LEMMA ReturnComplete == IInv => ReturnIsComplete
<1>1. ASSUME IInv, caller = "returned" PROVE InFlight = {}
  <2>1. CASE stage.batch
    BY <1>1, <2>1 DEF IInv, SpawnInv, InFlight, Items, TypeOK
  <2>2. CASE ~stage.batch
    BY <1>1, <2>2 DEF IInv, SpawnInv, InFlight
  <2> QED
    BY <2>1, <2>2
<1>2. ASSUME IInv, caller = "returned"
      PROVE  /\ result.successes = effects
             /\ result.successes \cup result.skipped \cup result.failures = Items
  <2>1. CASE stage.batch
    BY <1>2, <2>1 DEF IInv, ResultInv
  <2>2. CASE ~stage.batch
    <3>1. \A i \in Items : task[i] = "joined"
      BY <1>2, <2>2 DEF IInv, SpawnInv
    <3>2. \A i \in Items : (i \in result.successes) <=> (i \in effects)
      BY <1>2, <2>2, <3>1 DEF IInv, ResultInv
    <3>3. \A i \in Items :
             i \in result.successes \cup result.skipped \cup result.failures
      BY <1>2, <2>2, <3>1 DEF IInv, ResultInv
    <3> QED
      BY <1>2, <3>2, <3>3 DEF IInv, TypeOK, StageResult
  <2> QED
    BY <2>1, <2>2
<1>3. IInv => ReturnIsComplete
  BY <1>1, <1>2 DEF IInv, ResultInv, ReturnIsComplete
<1> QED
  BY <1>3

(* A stage that returns has one true outcome for every item and has left   *)
(* no task behind.                                                         *)
THEOREM ReturnsAreComplete == Spec => []ReturnIsComplete
BY ReturnComplete, Invariance, PTL

LEMMA AttemptsExact == IInv => GivenUpAfterAllAttempts
<1> SUFFICES ASSUME IInv, NEW i \in Items
             PROVE  /\ attempts[i] <= 1 \/ attempts[i] <= stage.max_attempts
                    /\ task[i] = "err" => attempts[i] >= stage.max_attempts
  BY DEF GivenUpAfterAllAttempts
<1>1. stage.max_attempts \in Nat /\ attempts[i] \in Nat
  BY BatchAssumption DEF IInv, TypeOK, StageSettings
<1> QED
  BY <1>1 DEF IInv, AttemptInv, Retries

(* The retry loop makes max_attempts attempts, at least one, and gives up  *)
(* only then.                                                              *)
THEOREM AttemptsAreExact == Spec => []GivenUpAfterAllAttempts
BY AttemptsExact, Invariance, PTL

(* However its items end - success, error after retries, skip, panic, or   *)
(* abort by a sibling - execute_with_concurrency releases the permits,     *)
(* returns what the items came to and gives up none of them too early.     *)
THEOREM BatchExact == Spec => []BatchIsExact
BY PermitsAreBalanced, ReturnsAreComplete, AttemptsAreExact, PTL DEF BatchIsExact

(* The refinement mapping: where a stage starts, and what a step of it is. *)
LEMMA InitMaps == Init => Outcomes!Init
BY DEF Init, Outcomes!Init, OutcomeState, NewResult, Dropped

LEMMA StepMaps ==
    ASSUME IInv, [Next]_vars PROVE [Outcomes!Next]_Outcomes!vars
<1> USE DEF OutcomeState, Dropped
<1>1. ASSUME UNCHANGED <<caller, result>>
      PROVE  UNCHANGED Outcomes!vars
  BY <1>1 DEF Outcomes!vars
<1>2. ASSUME NEW i \in Items, Join(i)
      PROVE  Outcomes!Next
  <2>1. ~stage.batch
    BY <1>2 DEF Join, IInv, SpawnInv
  <2>2. i \in Outcomes!Undecided
    BY <1>2, <2>1 DEF Join, IInv, ResultInv, Outcomes!Undecided
  <2>3. caller = "joining" /\ caller' = caller
    BY <1>2 DEF Join
  <2>4. CASE task[i] = "ok"
    <3>1. Outcomes!Decide({i}, {})
      BY <1>2, <2>2, <2>3, <2>4
         DEF Join, RecordSuccess, IInv, TypeOK, StageResult,
             Outcomes!Decide, Outcomes!SetOutcomes
    <3> QED
      BY <3>1 DEF Outcomes!Next
  <2>5. CASE task[i] = "err"
    <3>1. Outcomes!Decide({}, {i})
      BY <1>2, <2>2, <2>3, <2>5
         DEF Join, RecordError, IInv, TypeOK, StageResult,
             Outcomes!Decide, Outcomes!SetOutcomes
    <3> QED
      BY <3>1 DEF Outcomes!Next
  <2> QED
    BY <1>2, <2>4, <2>5 DEF Join
<1>3. ASSUME Abort \/ \E i \in Items : JoinPanicked(i)
      PROVE  Outcomes!Next
  BY <1>3 DEF Abort, JoinPanicked, Outcomes!Next, Outcomes!Lose
<1>4. CASE Return
  <2>1. ~stage.batch /\ \A i \in Items : task[i] = "joined"
    BY <1>4 DEF Return, IInv, SpawnInv
  <2>2. Outcomes!Undecided = {}
    BY <1>4, <2>1 DEF Return, IInv, ResultInv, Outcomes!Undecided
  <2>3. Outcomes!Return({}, {})
    BY <1>4, <2>2 DEF Return, Outcomes!Return, Outcomes!SetOutcomes
  <2> QED
    BY <2>3 DEF Outcomes!Next
<1>5. CASE BatchOk \/ BatchErr
  <2>1. result = NewResult
    BY <1>5 DEF BatchOk, BatchErr, IInv, ResultInv
  <2>2. Outcomes!Return(Items, {}) \/ Outcomes!Return({}, Items)
    BY <1>5, <2>1 DEF BatchOk, BatchErr, RecordSuccess, RecordError, NewResult,
                      Outcomes!Return, Outcomes!SetOutcomes, Outcomes!Undecided
  <2> QED
    BY <2>2 DEF Outcomes!Next
<1>6. CASE Spawn \/ (\E i \in Items : ItemStep(i)) \/ UNCHANGED vars
  BY <1>1, <1>6 DEF Spawn, ItemStep, Attempt, HandlerOk, HandlerErr, HandlerPanic,
                    Cancelled, vars
<1>7. CASE AllSpawned
  BY <1>7 DEF AllSpawned, Outcomes!vars
<1> QED
  BY <1>2, <1>3, <1>4, <1>5, <1>6, <1>7 DEF Next, CallerStep

(* The execution of a stage is an implementation of StageOutcomes.         *)
THEOREM Refinement == Spec => ImplementsStageOutcomes
BY InitMaps, StepMaps, Invariance, PTL DEF Spec, ImplementsStageOutcomes, Outcomes!Spec
=============================================================================
