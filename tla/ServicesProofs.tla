---------------------------- MODULE ServicesProofs ----------------------------
(***************************************************************************)
(* What the services promise of their backends, and the audit trail of the *)
(* state, for any services, waiters, gate, attempts and bounds; and whom   *)
(* the notifier keeps, for any clients and senders.                        *)
(***************************************************************************)
EXTENDS MCServices, Iteration, FiniteSetTheorems, TLAPS

USE DEF ServiceState, Setters, None

LEMMA InitTypeOK == Init => TypeOK
BY ServicesAssumption DEF Init, TypeOK

(* Recording a state keeps the types of what it touches.                   *)
LEMMA RecordType ==
    ASSUME TypeOK, NEW s \in Service, NEW a \in Setters,
           NEW st \in ServiceState, Record(s, a, st)
    PROVE  /\ state' \in [Service -> ServiceState]
           /\ trail' \in [Service -> Seq(ServiceState)]
           /\ setting' \in [Service -> [Setters -> ServiceState \cup {None}]]
           /\ raced' \in SUBSET Service
<1>1. trail[s] \in Seq(ServiceState) /\ setting[s] \in [Setters -> ServiceState \cup {None}]
  BY DEF TypeOK
<1>2. Append(trail[s], st) \in Seq(ServiceState)
  BY <1>1
<1>3. [setting[s] EXCEPT ![a] = st] \in [Setters -> ServiceState \cup {None}]
  BY <1>1
<1> QED BY <1>1, <1>2, <1>3 DEF Record, TypeOK

(* A task that changes its place keeps its type.                           *)
LEMMA TaskMoves ==
    ASSUME NEW P, NEW t \in [Service -> [pc : P, attempt : Nat]],
           NEW s \in Service, NEW p \in P
    PROVE  [t EXCEPT ![s].pc = p] \in [Service -> [pc : P, attempt : Nat]]
<1> DEFINE R == [pc : P, attempt : Nat]
<1>1. [t[s] EXCEPT !.pc = p] \in R
  OBVIOUS
<1>2. [t EXCEPT ![s].pc = p] = [t EXCEPT ![s] = [t[s] EXCEPT !.pc = p]]
  OBVIOUS
<1>3. ASSUME NEW r \in R PROVE [t EXCEPT ![s] = r] \in [Service -> R]
  <2>1. t \in [Service -> R]
    OBVIOUS
  <2> HIDE DEF R
  <2> QED BY <2>1
<1> QED BY <1>1, <1>2, <1>3

LEMMA VerdictType ==
    ASSUME NEW st
    PROVE  Verdict(st) \in {"ready", "failed", "waiting"}
BY DEF Verdict

LEMMA TypeStep == TypeOK /\ [Next]_vars => TypeOK'
<1> SUFFICES ASSUME TypeOK, [Next]_vars PROVE TypeOK'
  OBVIOUS
<1> USE ServicesAssumption
<1>1. CASE UNCHANGED vars
  BY <1>1 DEF vars, handles, waiting, gate, TypeOK
<1>2. ASSUME NEW s \in Service, Attempt(s) PROVE TypeOK'
  <2>1. task' \in [Service -> [pc : {"next", "init", "filled", "sleeping", "done"}, attempt : Nat]]
    BY <1>2 DEF Attempt, TypeOK
  <2> QED BY <1>2, <2>1, RecordType DEF Attempt, TypeOK, waiting, gate
<1>t. task \in [Service -> [pc : {"next", "init", "filled", "sleeping", "done"}, attempt : Nat]]
  BY DEF TypeOK
<1>p. ASSUME NEW s \in Service, NEW p \in {"next", "init", "filled", "sleeping", "done"}
      PROVE  [task EXCEPT ![s].pc = p] \in [Service -> [pc : {"next", "init", "filled", "sleeping", "done"}, attempt : Nat]]
  BY <1>t, TaskMoves
<1>3. ASSUME NEW s \in Service, Fill(s) PROVE TypeOK'
  <2>1. task' \in [Service -> [pc : {"next", "init", "filled", "sleeping", "done"}, attempt : Nat]]
    BY <1>3, <1>p DEF Fill
  <2>2. slot' \in [Service -> BOOLEAN]
    BY <1>3 DEF Fill, TypeOK
  <2> QED BY <1>3, <2>1, <2>2 DEF Fill, TypeOK, handles, waiting, gate
<1>4. ASSUME NEW s \in Service, InitOk(s) PROVE TypeOK'
  <2>1. task' \in [Service -> [pc : {"next", "init", "filled", "sleeping", "done"}, attempt : Nat]]
    BY <1>4, <1>p DEF InitOk
  <2> QED BY <1>4, <2>1, RecordType DEF InitOk, TypeOK, waiting, gate
<1>5. ASSUME NEW s \in Service, InitFails(s) PROVE TypeOK'
  <2>1. task' \in [Service -> [pc : {"next", "init", "filled", "sleeping", "done"}, attempt : Nat]]
    <3>1. task' = [task EXCEPT ![s].pc = "done"] \/ task' = [task EXCEPT ![s].pc = "sleeping"]
      BY <1>5 DEF InitFails
    <3>2. CASE task' = [task EXCEPT ![s].pc = "done"]
      BY <3>2, <1>p
    <3>3. CASE task' = [task EXCEPT ![s].pc = "sleeping"]
      BY <3>3, <1>p
    <3> QED BY <3>1, <3>2, <3>3
  <2>2. CASE LastAttempt(s)
    BY <1>5, <2>1, <2>2, RecordType DEF InitFails, TypeOK, waiting, gate
  <2>3. CASE ~LastAttempt(s)
    BY <1>5, <2>1, <2>3 DEF InitFails, TypeOK, handles, waiting, gate
  <2> QED BY <2>2, <2>3
<1>6. ASSUME NEW s \in Service, WakeTask(s) PROVE TypeOK'
  <2>1. task' \in [Service -> [pc : {"next", "init", "filled", "sleeping", "done"}, attempt : Nat]]
    BY <1>6, <1>p DEF WakeTask
  <2> QED BY <1>6, <2>1 DEF WakeTask, TypeOK, handles, waiting, gate
<1>7. ASSUME NEW s \in Service, NEW a \in Setters, Publish(s, a) PROVE TypeOK'
  <2>1. setting[s] \in [Setters -> ServiceState \cup {None}]
    BY DEF TypeOK
  <2>2. setting[s][a] \in ServiceState
    BY <1>7, <2>1 DEF Publish
  <2>3. state' \in [Service -> ServiceState]
    BY <1>7, <2>2 DEF Publish, TypeOK
  <2>4. [setting[s] EXCEPT ![a] = None] \in [Setters -> ServiceState \cup {None}]
    BY <2>1
  <2>5. setting' \in [Service -> [Setters -> ServiceState \cup {None}]]
    BY <1>7, <2>4 DEF Publish, TypeOK
  <2>6. unseen' \in [Waiters -> SUBSET Service]
    BY <1>7 DEF Publish, TypeOK
  <2> QED BY <1>7, <2>3, <2>5, <2>6 DEF Publish, TypeOK, gate
<1>8. ASSUME NEW s \in Service, NEW st \in OwnerStates, OwnerSets(s, st) PROVE TypeOK'
  <2>1. st \in ServiceState /\ "owner" \in Setters
    BY ServicesAssumption DEF ServiceState, Setters
  <2>2. sets' \in 0..MaxSets
    BY <1>8 DEF OwnerSets, TypeOK
  <2> QED BY <1>8, <2>1, <2>2, RecordType DEF OwnerSets, TypeOK, waiting, gate
<1>9. ASSUME NEW w \in Waiters, StartWait(w) PROVE TypeOK'
  BY <1>9 DEF StartWait, TypeOK, handles, gate
<1>10. ASSUME NEW w \in Waiters, NEW s \in Service,
              Poll(w, s) \/ Deadline(w, s)
       PROVE TypeOK'
  <2> DEFINE A == {"idle", "fresh", "waiting", "woken", "ready", "failed", "timeout"}
  <2>1. answer[w] \in [Service -> A] /\ unseen[w] \in SUBSET Service
    BY DEF TypeOK
  <2>2. \A x \in A : [answer EXCEPT ![w][s] = x] \in [Waiters -> [Service -> A]]
    BY <2>1 DEF TypeOK
  <2>3. answer' \in [Waiters -> [Service -> A]]
    <3>1. Verdict(state[s]) \in A
      BY VerdictType
    <3>2. PICK x \in A : answer' = [answer EXCEPT ![w][s] = x]
      BY <1>10, <3>1 DEF Poll, FirstLook, Changed, Look, Deadline
    <3> QED BY <2>2, <3>2
  <2>4. unseen' \in [Waiters -> SUBSET Service]
    BY <1>10, <2>1 DEF Poll, FirstLook, Changed, Look, Deadline, TypeOK
  <2> QED BY <1>10, <2>3, <2>4
        DEF Poll, FirstLook, Changed, Look, Deadline, TypeOK, handles, gate
<1>11. ASSUME NEW s \in Service, RequireReady(s) PROVE TypeOK'
  BY <1>11 DEF RequireReady, TypeOK, handles, waiting, gate
<1>12. CASE RequireLock
  BY <1>12 DEF RequireLock, TypeOK, handles, waiting, gate
<1>13. CASE StartCall
  BY <1>13 DEF StartCall, TypeOK, handles, waiting
<1>14. CASE CheckService
  <2>1. call' \in [pc : {"idle", "checking", "delegated", "unavailable"}, checked : 0..Len(Gate)]
    <3>1. call.checked + 1 \in 0..Len(Gate)
      <4>1. call.checked \in 0..Len(Gate) /\ Len(Gate) \in Nat
        BY DEF TypeOK
      <4>2. call.checked < Len(Gate)
        BY <1>14 DEF CheckService
      <4> QED BY <4>1, <4>2
    <3>2. call' = [call EXCEPT !.checked = @ + 1] \/ call' = [call EXCEPT !.pc = "unavailable"]
      BY <1>14 DEF CheckService
    <3> QED BY <3>1, <3>2 DEF TypeOK
  <2> QED BY <1>14, <2>1 DEF CheckService, TypeOK, handles, waiting
<1>15. CASE Delegate
  BY <1>15 DEF Delegate, TypeOK, handles, waiting
<1> QED
  BY <1>1, <1>2, <1>3, <1>4, <1>5, <1>6, <1>7, <1>8, <1>9, <1>10, <1>11,
     <1>12, <1>13, <1>14, <1>15
  DEF Next, ServiceStep, WaitStep, RequireStep, CallStep, TaskStep, OwnerStep

(* Every state the services' actors reach has the declared types.          *)
THEOREM ServicesTypeCorrect == Spec => []TypeOK
BY InitTypeOK, TypeStep, PTL DEF Spec

-----------------------------------------------------------------------------
(* Backends.  A slot is never emptied, so it is enough that a state is     *)
(* announced as available, or about to be, only when the slot is filled,   *)
(* and that every conclusion drawn from it was drawn from such a state.    *)
BackendInv ==
    /\ TypeOK
    /\ \A s \in Service : IsAvailable(state[s]) => slot[s]
    /\ \A s \in Service : \A a \in Setters : IsAvailable(setting[s][a]) => slot[s]
    /\ \A s \in Service : task[s].pc = "filled" => slot[s]
    /\ \A w \in Waiters : \A s \in Service : answer[w][s] = "ready" => slot[s]
    /\ reader # None => slot[reader]
    /\ \A i \in 1..call.checked : slot[Gate[i]]
    /\ call.pc = "delegated" => call.checked = Len(Gate)

LEMMA BackendInit == Init => BackendInv
BY InitTypeOK, ServicesAssumption DEF Init, BackendInv, IsAvailable

(* A recorded state that may be announced leaves the invariant's parts on  *)
(* the handles true.                                                       *)
LEMMA RecordBackend ==
    ASSUME BackendInv, NEW s \in Service, NEW a \in Setters, NEW st \in ServiceState,
           Record(s, a, st), IsAvailable(st) => slot[s], slot' = slot
    PROVE  /\ \A t \in Service : IsAvailable(state'[t]) => slot'[t]
           /\ \A t \in Service : \A b \in Setters : IsAvailable(setting'[t][b]) => slot'[t]
<1>1. setting \in [Service -> [Setters -> ServiceState \cup {None}]]
  BY DEF BackendInv, TypeOK
<1>2. \A t \in Service : \A b \in Setters :
        setting'[t][b] = IF t = s /\ b = a THEN st ELSE setting[t][b]
  BY <1>1 DEF Record
<1>3. state' = state
  BY DEF Record
<1> QED BY <1>2, <1>3 DEF BackendInv

LEMMA BackendStep == BackendInv /\ [Next]_vars => BackendInv'
<1> SUFFICES ASSUME BackendInv, [Next]_vars PROVE BackendInv'
  OBVIOUS
<1>0. TypeOK /\ TypeOK'
  BY TypeStep DEF BackendInv
<1>1. CASE UNCHANGED vars
  BY <1>0, <1>1 DEF vars, handles, waiting, gate, BackendInv
<1>2. ASSUME NEW s \in Service, Attempt(s) PROVE BackendInv'
  <2>1. Record(s, "task", "Starting") /\ slot' = slot /\ ~IsAvailable("Starting")
    BY <1>2 DEF Attempt, IsAvailable
  <2>2. \A t \in Service : task'[t].pc = "filled" => slot'[t]
    BY <1>0, <1>2 DEF Attempt, BackendInv, TypeOK
  <2>3. UNCHANGED <<answer, reader, call>>
    BY <1>2 DEF Attempt, waiting, gate
  <2> QED BY <1>0, <2>1, <2>2, <2>3, RecordBackend DEF BackendInv
<1>3. ASSUME NEW s \in Service, Fill(s) PROVE BackendInv'
  <2>1. \A t \in Service : slot[t] => slot'[t]
    BY <1>0, <1>3 DEF Fill, TypeOK
  <2>2. \A t \in Service : task'[t].pc = "filled" => slot'[t]
    BY <1>0, <1>3 DEF Fill, BackendInv, TypeOK
  <2>3. UNCHANGED <<state, setting, answer, reader, call>>
    BY <1>3 DEF Fill, waiting, gate, handles
  <2>4. \A i \in 1..call.checked : Gate[i] \in Service
    BY <1>0, ServicesAssumption DEF TypeOK
  <2>5. reader # None => reader \in Service
    BY <1>0 DEF TypeOK
  <2> QED BY <1>0, <2>1, <2>2, <2>3, <2>4, <2>5 DEF BackendInv
<1>4. ASSUME NEW s \in Service, InitOk(s) PROVE BackendInv'
  <2>1. Record(s, "task", "Ready") /\ slot' = slot /\ slot[s]
    BY <1>4 DEF InitOk, BackendInv
  <2>2. \A t \in Service : task'[t].pc = "filled" => slot'[t]
    BY <1>0, <1>4 DEF InitOk, BackendInv, TypeOK
  <2>3. UNCHANGED <<answer, reader, call>>
    BY <1>4 DEF InitOk, waiting, gate
  <2> QED BY <1>0, <2>1, <2>2, <2>3, RecordBackend DEF BackendInv
<1>5. ASSUME NEW s \in Service, InitFails(s) PROVE BackendInv'
  <2>1. /\ slot' = slot
        /\ UNCHANGED <<answer, reader, call>>
        /\ Record(s, "task", "Failed") \/ UNCHANGED <<state, setting>>
        /\ ~IsAvailable("Failed")
    BY <1>5 DEF InitFails, waiting, gate, handles, IsAvailable
  <2>2. task' = [task EXCEPT ![s].pc = "done"] \/ task' = [task EXCEPT ![s].pc = "sleeping"]
    BY <1>5 DEF InitFails
  <2>3. \A t \in Service : task'[t].pc = "filled" => slot'[t]
    <3>1. CASE task' = [task EXCEPT ![s].pc = "done"]
      BY <1>0, <2>1, <3>1 DEF BackendInv, TypeOK
    <3>2. CASE task' = [task EXCEPT ![s].pc = "sleeping"]
      BY <1>0, <2>1, <3>2 DEF BackendInv, TypeOK
    <3> QED BY <2>2, <3>1, <3>2
  <2>4. CASE Record(s, "task", "Failed")
    BY <1>0, <2>1, <2>3, <2>4, RecordBackend DEF BackendInv
  <2>5. CASE UNCHANGED <<state, setting>>
    BY <1>0, <2>1, <2>3, <2>5 DEF BackendInv
  <2> QED BY <2>1, <2>4, <2>5
<1>6. ASSUME NEW s \in Service, WakeTask(s) PROVE BackendInv'
  <2>1. \A t \in Service : task'[t].pc = "filled" => slot'[t]
    BY <1>0, <1>6 DEF WakeTask, BackendInv, TypeOK
  <2>2. UNCHANGED <<state, setting, slot, answer, reader, call>>
    BY <1>6 DEF WakeTask, handles, waiting, gate
  <2> QED BY <1>0, <2>1, <2>2 DEF BackendInv
<1>7. ASSUME NEW s \in Service, NEW a \in Setters, Publish(s, a) PROVE BackendInv'
  <2>1. UNCHANGED <<task, slot, answer, reader, call>>
    BY <1>7 DEF Publish, gate
  <2>2. \A t \in Service : state'[t] = IF t = s THEN setting[s][a] ELSE state[t]
    BY <1>0, <1>7 DEF Publish, TypeOK
  <2>3. \A t \in Service : \A b \in Setters :
          setting'[t][b] = IF t = s /\ b = a THEN None ELSE setting[t][b]
    BY <1>0, <1>7 DEF Publish, TypeOK
  <2>4. ~IsAvailable(None)
    BY DEF IsAvailable
  <2> QED BY <1>0, <2>1, <2>2, <2>3, <2>4 DEF BackendInv
<1>8. ASSUME NEW s \in Service, NEW st \in OwnerStates, OwnerSets(s, st) PROVE BackendInv'
  <2>1. st \in ServiceState /\ "owner" \in Setters
    BY ServicesAssumption DEF ServiceState, Setters
  <2>2. /\ Record(s, "owner", st) /\ slot' = slot /\ (IsAvailable(st) => slot[s])
        /\ UNCHANGED <<task, answer, reader, call>>
    BY <1>8 DEF OwnerSets, waiting, gate
  <2> QED BY <1>0, <2>1, <2>2, RecordBackend DEF BackendInv
<1>9. ASSUME NEW w \in Waiters, StartWait(w) PROVE BackendInv'
  <2>1. \A v \in Waiters : \A s \in Service :
          answer'[v][s] = IF v = w THEN "fresh" ELSE answer[v][s]
    BY <1>0, <1>9 DEF StartWait, TypeOK
  <2>2. UNCHANGED <<state, setting, task, slot, reader, call>>
    BY <1>9 DEF StartWait, handles, gate
  <2> QED BY <1>0, <2>1, <2>2 DEF BackendInv
<1>10. ASSUME NEW w \in Waiters, NEW s \in Service,
              Poll(w, s) \/ Deadline(w, s)
       PROVE BackendInv'
  <2>1. UNCHANGED <<state, setting, task, slot, reader, call>>
    BY <1>10 DEF Poll, FirstLook, Changed, Look, Deadline, handles, gate
  <2>2. PICK x : answer' = [answer EXCEPT ![w][s] = x] /\ (x = "ready" => slot[s])
    <3>1. Verdict(state[s]) = "ready" => slot[s]
      BY DEF Verdict, IsReady, IsAvailable, BackendInv
    <3>2. CASE FirstLook(w, s) \/ Look(w, s)
      BY <3>1, <3>2 DEF FirstLook, Look
    <3>3. CASE Changed(w, s)
      <4>1. answer' = [answer EXCEPT ![w][s] = "woken"]
        BY <3>3 DEF Changed
      <4>2. "woken" = "ready" => slot[s]
        OBVIOUS
      <4> QED BY <4>1, <4>2, Zenon
    <3>4. CASE Deadline(w, s)
      <4>1. answer' = [answer EXCEPT ![w][s] = "timeout"]
        BY <3>4 DEF Deadline
      <4>2. "timeout" = "ready" => slot[s]
        OBVIOUS
      <4> QED BY <4>1, <4>2, Zenon
    <3> QED BY <1>10, <3>2, <3>3, <3>4 DEF Poll
  <2>3. \A v \in Waiters : \A u \in Service :
          answer'[v][u] = IF v = w /\ u = s THEN x ELSE answer[v][u]
    BY <1>0, <2>2 DEF TypeOK
  <2> QED BY <1>0, <2>1, <2>2, <2>3 DEF BackendInv
<1>11. ASSUME NEW s \in Service, RequireReady(s) PROVE BackendInv'
  BY <1>0, <1>11 DEF RequireReady, BackendInv, IsReady, IsAvailable, handles, waiting, gate
<1>12. CASE RequireLock
  BY <1>0, <1>12 DEF RequireLock, BackendInv, handles, waiting, gate
<1>13. CASE StartCall
  <2>1. call'.checked = 0 /\ call'.pc = "checking"
    BY <1>13 DEF StartCall
  <2>2. UNCHANGED <<state, setting, task, slot, answer, reader>>
    BY <1>13 DEF StartCall, handles, waiting
  <2> QED BY <1>0, <2>1, <2>2 DEF BackendInv
<1>14. CASE CheckService
  <2>1. UNCHANGED <<state, setting, task, slot, answer, reader>>
    BY <1>14 DEF CheckService, handles, waiting
  <2>2. call.pc = "checking" /\ call.checked \in Nat /\ call.checked + 1 \in 1..Len(Gate)
    <3>1. call.checked \in 0..Len(Gate) /\ Len(Gate) \in Nat
      BY <1>0, ServicesAssumption DEF TypeOK
    <3>2. call.pc = "checking" /\ call.checked < Len(Gate)
      BY <1>14 DEF CheckService
    <3> QED BY <3>1, <3>2
  <2>3. Gate[call.checked + 1] \in Service
    BY <2>2, ServicesAssumption
  <2>4. CASE IsAvailable(state[Gate[call.checked + 1]])
    <3>1. call' = [call EXCEPT !.checked = @ + 1]
      BY <1>14, <2>4 DEF CheckService
    <3>2. call'.pc = "checking" /\ call'.checked = call.checked + 1
      BY <1>0, <2>2, <3>1 DEF TypeOK
    <3>3. slot[Gate[call.checked + 1]]
      BY <2>3, <2>4 DEF BackendInv
    <3>4. \A i \in 1..(call.checked + 1) : i \in 1..call.checked \/ i = call.checked + 1
      BY <2>2
    <3>5. \A i \in 1..call'.checked : slot'[Gate[i]]
      BY <2>1, <3>2, <3>3, <3>4 DEF BackendInv
    <3> QED BY <1>0, <2>1, <3>2, <3>5 DEF BackendInv
  <2>5. CASE ~IsAvailable(state[Gate[call.checked + 1]])
    <3>1. call' = [call EXCEPT !.pc = "unavailable"]
      BY <1>14, <2>5 DEF CheckService
    <3>2. call'.pc = "unavailable" /\ call'.checked = call.checked
      BY <1>0, <3>1 DEF TypeOK
    <3> QED BY <1>0, <2>1, <3>2 DEF BackendInv
  <2> QED BY <2>4, <2>5
<1>15. CASE Delegate
  <2>1. UNCHANGED <<state, setting, task, slot, answer, reader>>
    BY <1>15 DEF Delegate, handles, waiting
  <2>2. call'.checked = call.checked /\ call.checked = Len(Gate)
    BY <1>0, <1>15 DEF Delegate, TypeOK
  <2> QED BY <1>0, <2>1, <2>2 DEF BackendInv
<1> QED
  BY <1>1, <1>2, <1>3, <1>4, <1>5, <1>6, <1>7, <1>8, <1>9, <1>10, <1>11,
     <1>12, <1>13, <1>14, <1>15
  DEF Next, ServiceStep, WaitStep, RequireStep, CallStep, TaskStep, OwnerStep

LEMMA BackendAlways == Spec => []BackendInv
BY BackendInit, BackendStep, PTL DEF Spec

(* When wait_all_ready returns Ok, all backends are in their slots.        *)
THEOREM WaitedForAll == Spec => []WaitedForBackends
<1>1. BackendInv => WaitedForBackends
  BY DEF BackendInv, WaitedForBackends
<1> QED BY <1>1, BackendAlways, PTL

(* The tools a ServiceAwareRegistry lets through find their backends.      *)
THEOREM ToolsServed == Spec => []ToolsFindBackends
<1>1. BackendInv => ToolsFindBackends
  BY DEF BackendInv, ToolsFindBackends
<1> QED BY <1>1, BackendAlways, PTL

(* The guard require() returns is on a filled slot.                        *)
THEOREM RequireServed == Spec => []RequireSeesBackend
<1>1. BackendInv => RequireSeesBackend
  BY DEF BackendInv, RequireSeesBackend
<1> QED BY <1>1, BackendAlways, PTL

(* A caller, a tool call and a reader of the slot that are told a service  *)
(* can be used find its backend (service.rs, slot.rs, service_registry.rs).*)
THEOREM BackendsAreFound == Spec => []BackendsAreThere
BY WaitedForAll, ToolsServed, RequireServed, PTL DEF BackendsAreThere

-----------------------------------------------------------------------------
(* The trail.  While one set_state is between its two steps, the trail     *)
(* ends with the state it is about to publish; with none under way it ends *)
(* with the published one.  A second set_state meeting it ends the claim.  *)
Last(s) == trail[s][Len(trail[s])]
TrailInv ==
    \A s \in Service : s \notin raced =>
        /\ Pending(s) = {} => Last(s) = state[s]
        /\ \A a \in Pending(s) : Pending(s) = {a} /\ Last(s) = setting[s][a]

LEMMA RecordTrail ==
    ASSUME TypeOK, TrailInv, NEW s \in Service, NEW a \in Setters,
           NEW st \in ServiceState, Record(s, a, st)
    PROVE  TrailInv'
<1> SUFFICES ASSUME NEW t \in Service, t \notin raced'
             PROVE  /\ Pending(t)' = {} => Last(t)' = state'[t]
                    /\ \A b \in Pending(t)' : Pending(t)' = {b} /\ Last(t)' = setting'[t][b]
  BY DEF TrailInv
<1>1. t \notin raced
  BY DEF Record
<1>2. \A b \in Setters : setting'[t][b] = IF t = s /\ b = a THEN st ELSE setting[t][b]
  BY DEF Record, TypeOK
<1>3. CASE t # s
  <2>1. trail'[t] = trail[t] /\ state'[t] = state[t]
    BY <1>3 DEF Record, TypeOK
  <2>2. Pending(t)' = Pending(t)
    BY <1>2, <1>3 DEF Pending
  <2> QED BY <1>1, <1>2, <1>3, <2>1, <2>2 DEF TrailInv, Last, Pending
<1>4. CASE t = s
  <2>1. Pending(s) = {}
    BY <1>4 DEF Record
  <2>2. Pending(s)' = {a}
    BY <1>2, <1>4, <2>1 DEF Pending
  <2>3. trail[s] \in Seq(ServiceState) /\ trail'[s] = Append(trail[s], st)
    BY DEF Record, TypeOK
  <2>4. trail'[s][Len(trail'[s])] = st
    BY <2>3
  <2> QED BY <1>2, <1>4, <2>2, <2>4 DEF Last
<1> QED BY <1>3, <1>4

LEMMA PublishTrail ==
    ASSUME TypeOK, TrailInv, NEW s \in Service, NEW a \in Setters, Publish(s, a)
    PROVE  TrailInv'
<1> SUFFICES ASSUME NEW t \in Service, t \notin raced'
             PROVE  /\ Pending(t)' = {} => Last(t)' = state'[t]
                    /\ \A b \in Pending(t)' : Pending(t)' = {b} /\ Last(t)' = setting'[t][b]
  BY DEF TrailInv
<1>1. t \notin raced /\ trail' = trail
  BY DEF Publish
<1>2. \A b \in Setters : setting'[t][b] = IF t = s /\ b = a THEN None ELSE setting[t][b]
  BY DEF Publish, TypeOK
<1>3. state'[t] = IF t = s THEN setting[s][a] ELSE state[t]
  BY DEF Publish, TypeOK
<1>4. CASE t # s
  <2>1. Pending(t)' = Pending(t)
    BY <1>2, <1>4 DEF Pending
  <2> QED BY <1>1, <1>2, <1>3, <1>4, <2>1 DEF TrailInv, Last, Pending
<1>5. CASE t = s
  <2>1. a \in Pending(s)
    BY DEF Publish, Pending
  <2>2. Pending(s) = {a} /\ Last(s) = setting[s][a]
    BY <1>1, <1>5, <2>1 DEF TrailInv
  <2>3. Pending(s)' = {}
    BY <1>2, <1>5, <2>2 DEF Pending
  <2> QED BY <1>1, <1>3, <1>5, <2>2, <2>3 DEF Last
<1> QED BY <1>4, <1>5

LEMMA TrailStep == TypeOK /\ TrailInv /\ [Next]_vars => TrailInv'
<1> SUFFICES ASSUME TypeOK, TrailInv, [Next]_vars PROVE TrailInv'
  OBVIOUS
<1>0. ASSUME UNCHANGED <<handles, raced>> PROVE TrailInv'
  BY <1>0 DEF handles, TrailInv, Last, Pending
<1>1. CASE UNCHANGED vars
  BY <1>0, <1>1 DEF vars
<1>2. ASSUME NEW s \in Service, TaskStep(s) PROVE TrailInv'
  <2>1. CASE Attempt(s)
    BY <2>1, RecordTrail DEF Attempt
  <2>2. CASE Fill(s) \/ WakeTask(s)
    BY <1>0, <2>2 DEF Fill, WakeTask
  <2>3. CASE InitOk(s)
    BY <2>3, RecordTrail DEF InitOk
  <2>4. CASE InitFails(s)
    <3>1. Record(s, "task", "Failed") \/ UNCHANGED <<handles, raced>>
      BY <2>4 DEF InitFails
    <3> QED BY <1>0, <3>1, RecordTrail
  <2>5. CASE Publish(s, "task")
    BY <2>5, PublishTrail
  <2> QED BY <1>2, <2>1, <2>2, <2>3, <2>4, <2>5 DEF TaskStep
<1>3. ASSUME NEW s \in Service, OwnerStep(s) PROVE TrailInv'
  <2>1. ASSUME NEW st \in OwnerStates, OwnerSets(s, st) PROVE TrailInv'
    <3>1. st \in ServiceState /\ "owner" \in Setters
      BY ServicesAssumption DEF ServiceState, Setters
    <3>2. Record(s, "owner", st)
      BY <2>1 DEF OwnerSets
    <3> QED BY <3>1, <3>2, RecordTrail
  <2>2. CASE Publish(s, "owner")
    BY <2>2, PublishTrail
  <2> QED BY <1>3, <2>1, <2>2 DEF OwnerStep
<1>4. CASE WaitStep \/ RequireStep \/ CallStep
  <2>1. UNCHANGED <<handles, raced>>
    BY <1>4 DEF WaitStep, RequireStep, CallStep, StartWait, Poll, FirstLook, Changed,
                Look, Deadline, RequireReady, RequireLock, StartCall, CheckService, Delegate
  <2> QED BY <1>0, <2>1
<1> QED BY <1>1, <1>2, <1>3, <1>4 DEF Next, ServiceStep

LEMMA TrailStarts == (Init => TrailInv) /\ (TrailInv => TrailTellsState)
<1>1. Init => TrailInv
  BY DEF Init, TrailInv, Last, Pending
<1>2. TrailInv => TrailTellsState
  BY DEF TrailInv, TrailTellsState, Last
<1> QED BY <1>1, <1>2

(* The audit trail ends with the service's state, unless two set_state met.*)
THEOREM TrailTells == Spec => []TrailTellsState
BY TrailStarts, TrailStep, InitTypeOK, TypeStep, PTL DEF Spec

-----------------------------------------------------------------------------
(* The attempts.  The trail holds a "Starting" for each of them, and only  *)
(* the task that has made the last one says that the service failed.       *)

LEMMA CountAppend ==
    ASSUME NEW V, NEW seq \in Seq(V), NEW st \in V, NEW x
    PROVE  /\ Count(seq, x) \in Nat
           /\ Count(Append(seq, st), x) = IF st = x THEN Count(seq, x) + 1 ELSE Count(seq, x)
<1> DEFINE At(t) == {i \in 1..Len(t) : t[i] = x}
           next == Append(seq, st)
<1>1. Len(seq) \in Nat /\ Len(seq) + 1 \notin At(seq)
  OBVIOUS
<1>2. IsFiniteSet(At(seq)) /\ Cardinality(At(seq)) \in Nat
  <2>1. IsFiniteSet(1..Len(seq))
    BY <1>1, FS_Interval
  <2>2. At(seq) \in SUBSET (1..Len(seq))
    OBVIOUS
  <2> HIDE DEF At
  <2>3. IsFiniteSet(At(seq))
    BY <2>1, <2>2, FS_Subset
  <2> QED BY <2>3, FS_CardinalityType
<1>3. At(next) = IF st = x THEN At(seq) \cup {Len(seq) + 1} ELSE At(seq)
  <2>1. /\ Len(next) = Len(seq) + 1 /\ next[Len(seq) + 1] = st
        /\ \A i \in 1..Len(seq) : next[i] = seq[i]
    OBVIOUS
  <2> HIDE DEF next
  <2>2. \A i \in 1..Len(next) : i \in 1..Len(seq) \/ i = Len(seq) + 1
    BY <1>1, <2>1
  <2>3. ASSUME NEW i PROVE i \in At(next) <=> i \in At(seq) \/ (st = x /\ i = Len(seq) + 1)
    BY <1>1, <2>1, <2>2
  <2> HIDE DEF At
  <2> QED BY <2>3
<1> HIDE DEF At
<1>4. st = x => Cardinality(At(next)) = Cardinality(At(seq)) + 1
  BY <1>1, <1>2, <1>3, FS_AddElement
<1>5. st # x => Cardinality(At(next)) = Cardinality(At(seq))
  BY <1>3
<1> QED BY <1>2, <1>4, <1>5 DEF Count, At

GivenUp(s) == task[s].pc = "done" /\ task[s].attempt = MaxAttempts[s]
AttemptsOf(s) ==
    /\ Count(trail[s], "Starting") = task[s].attempt
    /\ state[s] = "Failed" => GivenUp(s)
    /\ setting[s]["task"] = "Failed" => GivenUp(s)
    /\ setting[s]["owner"] # "Failed"
AttemptsInv == TypeOK /\ \A s \in Service : AttemptsOf(s)

(* Services that a step leaves alone.                                      *)
LEMMA AttemptsFrame ==
    ASSUME AttemptsInv, TypeOK', NEW s \in Service, AttemptsOf(s)',
           \A r \in Service \ {s} : /\ trail'[r] = trail[r] /\ task'[r] = task[r]
                                    /\ state'[r] = state[r] /\ setting'[r] = setting[r]
    PROVE  AttemptsInv'
<1>1. ASSUME NEW r \in Service, r # s PROVE AttemptsOf(r)'
  BY <1>1 DEF AttemptsInv, AttemptsOf, GivenUp
<1> QED BY <1>1 DEF AttemptsInv

LEMMA RecordedAttempts ==
    ASSUME AttemptsInv, NEW s \in Service, NEW a \in Setters, NEW st \in ServiceState,
           Record(s, a, st)
    PROVE  /\ Count(trail'[s], "Starting") =
                 IF st = "Starting" THEN task[s].attempt + 1 ELSE task[s].attempt
           /\ state' = state
           /\ setting'[s][a] = st /\ \A b \in Setters \ {a} : setting'[s][b] = setting[s][b]
           /\ \A r \in Service \ {s} : trail'[r] = trail[r] /\ setting'[r] = setting[r]
<1>1. /\ trail \in [Service -> Seq(ServiceState)] /\ trail[s] \in Seq(ServiceState)
      /\ setting \in [Service -> [Setters -> ServiceState \cup {None}]]
      /\ Count(trail[s], "Starting") = task[s].attempt
  BY DEF AttemptsInv, AttemptsOf, TypeOK
<1>2. trail'[s] = Append(trail[s], st)
  BY <1>1 DEF Record
<1>3. Count(trail'[s], "Starting") =
         IF st = "Starting" THEN Count(trail[s], "Starting") + 1 ELSE Count(trail[s], "Starting")
  <2> HIDE DEF ServiceState
  <2> QED BY <1>1, <1>2, CountAppend
<1>4. /\ setting'[s][a] = st /\ \A b \in Setters \ {a} : setting'[s][b] = setting[s][b]
      /\ \A r \in Service \ {s} : trail'[r] = trail[r] /\ setting'[r] = setting[r]
  BY <1>1 DEF Record
<1> QED BY <1>1, <1>3, <1>4 DEF Record

LEMMA TaskAttempts ==
    ASSUME AttemptsInv, TypeOK', NEW s \in Service, TaskStep(s) \/ OwnerStep(s)
    PROVE  AttemptsInv'
<1>0. /\ AttemptsOf(s) /\ TypeOK
      /\ task \in [Service ->
           [pc : {"next", "init", "filled", "sleeping", "done"}, attempt : Nat]]
      /\ task[s].attempt \in Nat /\ MaxAttempts[s] \in Nat
  BY ServicesAssumption DEF AttemptsInv, TypeOK
<1>1. CASE Attempt(s)
  <2>1. /\ Record(s, "task", "Starting") /\ task[s].pc = "next"
        /\ task' = [task EXCEPT ![s] = [pc |-> "init", attempt |-> task[s].attempt + 1]]
    BY <1>1 DEF Attempt
  <2>2. /\ task'[s] = [pc |-> "init", attempt |-> task[s].attempt + 1]
        /\ \A r \in Service \ {s} : task'[r] = task[r]
    BY <1>0, <2>1
  <2>3. AttemptsOf(s)'
    BY <1>0, <2>1, <2>2, RecordedAttempts DEF AttemptsOf, GivenUp
  <2> QED BY <2>1, <2>2, <2>3, RecordedAttempts, AttemptsFrame
<1>2. CASE Fill(s) \/ WakeTask(s)
  <2>1. UNCHANGED handles /\ task[s].pc # "done" /\ task'[s].attempt = task[s].attempt
        /\ \A r \in Service \ {s} : task'[r] = task[r]
    BY <1>0, <1>2 DEF Fill, WakeTask
  <2>2. AttemptsOf(s)'
    BY <1>0, <2>1 DEF AttemptsOf, GivenUp, handles
  <2> QED BY <2>1, <2>2, AttemptsFrame DEF handles
<1>3. CASE InitOk(s)
  <2>1. /\ Record(s, "task", "Ready") /\ task[s].pc = "filled"
        /\ task'[s].attempt = task[s].attempt
        /\ \A r \in Service \ {s} : task'[r] = task[r]
    BY <1>0, <1>3 DEF InitOk
  <2>2. AttemptsOf(s)'
    BY <1>0, <2>1, RecordedAttempts DEF AttemptsOf, GivenUp
  <2> QED BY <2>1, <2>2, RecordedAttempts, AttemptsFrame
<1>4. CASE InitFails(s)
  <2>1. CASE LastAttempt(s)
    <3>1. /\ Record(s, "task", "Failed") /\ task'[s].pc = "done"
          /\ task'[s].attempt = task[s].attempt /\ task[s].attempt = MaxAttempts[s]
          /\ \A r \in Service \ {s} : task'[r] = task[r]
      BY <1>0, <1>4, <2>1 DEF InitFails, LastAttempt
    <3>2. AttemptsOf(s)'
      BY <1>0, <3>1, RecordedAttempts DEF AttemptsOf, GivenUp
    <3> QED BY <3>1, <3>2, RecordedAttempts, AttemptsFrame
  <2>2. CASE ~LastAttempt(s)
    <3>1. UNCHANGED handles /\ task[s].pc # "done" /\ task'[s].attempt = task[s].attempt
          /\ \A r \in Service \ {s} : task'[r] = task[r]
      BY <1>0, <1>4, <2>2 DEF InitFails
    <3>2. AttemptsOf(s)'
      BY <1>0, <3>1 DEF AttemptsOf, GivenUp, handles
    <3> QED BY <3>1, <3>2, AttemptsFrame DEF handles
  <2> QED BY <2>1, <2>2
<1>5. ASSUME NEW a \in Setters, Publish(s, a) PROVE AttemptsInv'
  <2>1. /\ state \in [Service -> ServiceState]
        /\ setting \in [Service -> [Setters -> ServiceState \cup {None}]]
        /\ trail' = trail /\ task' = task
        /\ state' = [state EXCEPT ![s] = setting[s][a]]
        /\ setting' = [setting EXCEPT ![s][a] = None]
    BY <1>5 DEF Publish, AttemptsInv, TypeOK
  <2>2. /\ state'[s] = setting[s][a]
        /\ setting'[s][a] = None /\ \A b \in Setters \ {a} : setting'[s][b] = setting[s][b]
        /\ \A r \in Service \ {s} : state'[r] = state[r] /\ setting'[r] = setting[r]
    BY <2>1
  <2>3. AttemptsOf(s)'
    BY <1>0, <2>1, <2>2 DEF AttemptsOf, GivenUp
  <2> QED BY <2>1, <2>2, <2>3, AttemptsFrame
<1>6. ASSUME NEW st \in OwnerStates, OwnerSets(s, st) PROVE AttemptsInv'
  <2>1. /\ st \in {"Ready", "Degraded", "Stopping", "Stopped"}
        /\ Record(s, "owner", st) /\ task' = task
    BY <1>6, ServicesAssumption DEF OwnerSets
  <2>2. AttemptsOf(s)'
    BY <1>0, <2>1, RecordedAttempts DEF AttemptsOf, GivenUp
  <2> QED BY <2>1, <2>2, RecordedAttempts, AttemptsFrame
<1> QED
  BY <1>1, <1>2, <1>3, <1>4, <1>5, <1>6 DEF TaskStep, OwnerStep

LEMMA AttemptsStep == AttemptsInv /\ [Next]_vars => AttemptsInv'
<1> SUFFICES ASSUME AttemptsInv, [Next]_vars PROVE AttemptsInv'
  OBVIOUS
<1>0. TypeOK'
  BY TypeStep DEF AttemptsInv
<1>1. CASE ServiceStep
  BY <1>0, <1>1, TaskAttempts DEF ServiceStep
<1>2. CASE WaitStep \/ RequireStep \/ CallStep \/ UNCHANGED vars
  <2>1. UNCHANGED handles /\ task' = task
    BY <1>2 DEF WaitStep, RequireStep, CallStep, StartWait, Poll, FirstLook, Changed,
                Look, Deadline, RequireReady, RequireLock, StartCall, CheckService,
                Delegate, vars
  <2> QED BY <1>0, <2>1 DEF AttemptsInv, AttemptsOf, GivenUp, handles
<1> QED BY <1>1, <1>2 DEF Next

LEMMA AttemptsStart == (Init => AttemptsInv) /\ (AttemptsInv => AllAttemptsMade)
<1>1. ASSUME Init PROVE AttemptsInv
  <2>1. ASSUME NEW s \in Service PROVE AttemptsOf(s)
    <3>1. trail[s] = <<"Stopped">> /\ Count(<<"Stopped">>, "Starting") = 0
      <4>1. {i \in 1..Len(<<"Stopped">>) : <<"Stopped">>[i] = "Starting"} = {}
        OBVIOUS
      <4> QED BY <1>1, <4>1, FS_EmptySet DEF Init, Count
    <3> QED BY <1>1, <3>1 DEF Init, AttemptsOf
  <2> QED BY <1>1, <2>1, InitTypeOK DEF AttemptsInv
<1>2. AttemptsInv => AllAttemptsMade
  BY DEF AttemptsInv, AttemptsOf, GivenUp, AllAttemptsMade
<1> QED BY <1>1, <1>2

(* For any services and attempts allowed: Failed is told, whatever owners  *)
(* set meanwhile, only after every attempt, each announced in the trail    *)
(* (fabryk-core: service.rs).                                              *)
THEOREM FailedIsLast == Spec => []AllAttemptsMade
BY AttemptsStart, AttemptsStep, PTL DEF Spec

-----------------------------------------------------------------------------
(* The notifier.  First its lists: what an addition and a swap_remove do   *)
(* to how often a client is in one.                                        *)

LEMMA TimesTyped ==
    ASSUME NEW list \in Seq(Peers), NEW p
    PROVE  /\ IsFiniteSet({i \in 1..Len(list) : list[i] = p})
           /\ Times(p, list) \in Nat
           /\ ~In(p, list) => Times(p, list) = 0
           /\ Times(p, list) = 0 => ~In(p, list)
<1> DEFINE At == {i \in 1..Len(list) : list[i] = p}
<1>1. Len(list) \in Nat
  OBVIOUS
<1>2. IsFiniteSet(1..Len(list)) /\ At \subseteq 1..Len(list)
  BY <1>1, FS_Interval
<1>3. ~In(p, list) => At = {}
  BY DEF In
<1>4. At = {} => ~In(p, list)
  BY DEF In
<1>5. Times(p, list) = Cardinality(At)
  BY DEF Times
<1> HIDE DEF At
<1>6. IsFiniteSet(At)
  BY <1>2, FS_Subset
<1>7. Cardinality(At) \in Nat
  BY <1>6, FS_CardinalityType
<1>8. Cardinality(At) = 0 <=> At = {}
  BY <1>6, FS_EmptySet
<1> QED BY <1>3, <1>4, <1>5, <1>6, <1>7, <1>8 DEF At

LEMMA TimesAppend ==
    ASSUME NEW list \in Seq(Peers), NEW q \in Peers, NEW p
    PROVE  Times(p, Append(list, q)) =
             IF p = q THEN Times(p, list) + 1 ELSE Times(p, list)
<1> DEFINE At(l) == {i \in 1..Len(l) : l[i] = p}
           next == Append(list, q)
<1>1. Len(list) \in Nat /\ Len(list) + 1 \notin At(list)
  OBVIOUS
<1>2. IsFiniteSet(At(list))
  BY TimesTyped
<1>3. At(next) = IF p = q THEN At(list) \cup {Len(list) + 1} ELSE At(list)
  <2>1. /\ Len(next) = Len(list) + 1 /\ next[Len(list) + 1] = q
        /\ \A i \in 1..Len(list) : next[i] = list[i]
    OBVIOUS
  <2> HIDE DEF next
  <2>2. \A i : i \in 1..Len(next) <=> i \in 1..Len(list) \/ i = Len(list) + 1
    BY <1>1, <2>1
  <2> QED BY <1>1, <2>1, <2>2
<1>4. Times(p, list) = Cardinality(At(list)) /\ Times(p, next) = Cardinality(At(next))
  BY DEF Times
<1> HIDE DEF At, next
<1>5. Cardinality(At(list) \cup {Len(list) + 1}) = Cardinality(At(list)) + 1
  BY <1>1, <1>2, FS_AddElement
<1> QED BY <1>3, <1>4, <1>5 DEF next

(* The last entry may move; only the client of the removed entry is in the *)
(* list less often.                                                        *)
LEMMA SwapRemoveKeeps ==
    ASSUME NEW list \in Seq(Peers), NEW i \in 1..Len(list)
    PROVE  /\ SwapRemove(list, i) \in Seq(Peers)
           /\ Len(SwapRemove(list, i)) = Len(list) - 1
           /\ \A k \in 1..(i - 1) : k <= Len(list) - 1 => SwapRemove(list, i)[k] = list[k]
           /\ \A p : ~In(p, list) => ~In(p, SwapRemove(list, i))
           /\ \A p : p # list[i] => Times(p, SwapRemove(list, i)) = Times(p, list)
<1> DEFINE n == Len(list)
           rest == [k \in 1..(n - 1) |-> IF k = i THEN list[n] ELSE list[k]]
<1>1. n \in Nat /\ n >= 1 /\ i \in 1..n /\ n \in 1..n /\ \A k \in 1..n : list[k] \in Peers
  OBVIOUS
<1>2. rest = SwapRemove(list, i)
  BY DEF SwapRemove
<1>3. rest \in Seq(Peers) /\ Len(rest) = n - 1
  BY <1>1
<1>4. \A k \in 1..(n - 1) : rest[k] = IF k = i THEN list[n] ELSE list[k]
  OBVIOUS
<1>5. \A p : ~In(p, list) => ~In(p, rest)
  BY <1>1, <1>3, <1>4 DEF In
<1> HIDE DEF rest
<1>6. ASSUME NEW p, p # list[i] PROVE Times(p, rest) = Times(p, list)
  <2> DEFINE At(l) == {k \in 1..Len(l) : l[k] = p}
  <2>1. Times(p, rest) = Cardinality(At(rest)) /\ Times(p, list) = Cardinality(At(list))
    BY DEF Times
  <2>0. i \notin At(list) /\ n \notin At(rest)
    BY <1>1, <1>3, <1>6
  <2>2. IsFiniteSet(At(list))
    BY TimesTyped
  <2>3. CASE list[n] # p
    <3>1. At(rest) = At(list)
      BY <1>1, <1>3, <1>4, <1>6, <2>3
    <3> QED BY <2>1, <3>1
  <2>4. CASE list[n] = p
    <3>1. i # n /\ i \in 1..(n - 1)
      BY <1>1, <1>6, <2>4
    <3>2. At(rest) = (At(list) \ {n}) \cup {i}
      BY <1>1, <1>3, <1>4, <1>6, <2>4, <3>1
    <3>3. n \in At(list)
      BY <1>1, <2>4
    <3> HIDE DEF At
    <3>4. IsFiniteSet(At(list) \ {n}) /\ Cardinality(At(list) \ {n}) = Cardinality(At(list)) - 1
      BY <2>2, <3>3, FS_RemoveElement
    <3>5. Cardinality((At(list) \ {n}) \cup {i}) = Cardinality(At(list) \ {n}) + 1
      BY <2>0, <3>4, FS_AddElement
    <3>6. Cardinality(At(list)) \in Nat
      BY <2>2, FS_CardinalityType
    <3> QED BY <2>1, <3>2, <3>4, <3>5, <3>6
  <2> QED BY <2>3, <2>4
<1> QED BY <1>1, <1>2, <1>3, <1>4, <1>5, <1>6

-----------------------------------------------------------------------------
(* The removal of the failed indices goes down from the last entry.        *)

(* f is the removal from the end down to m.                                *)
Removal(f, m, list, failed) ==
    f = [n \in m..(Len(list) + 1) |->
           IF n = Len(list) + 1 THEN list
           ELSE IF n \in failed THEN SwapRemove(f[n + 1], n) ELSE f[n + 1]]

LEMMA RemovalExists ==
    ASSUME NEW list \in Seq(Peers), NEW failed
    PROVE  \E f : Removal(f, 1, list, failed)
<1> DEFINE L == Len(list)
           S == {k \in Nat : k <= L => \E f : Removal(f, L + 1 - k, list, failed)}
<1>0. L \in Nat
  OBVIOUS
<1>1. 0 \in S
  <2> DEFINE f == [n \in (L + 1)..(L + 1) |-> list]
  <2>1. \A n \in (L + 1)..(L + 1) : n = L + 1
    BY <1>0
  <2>2. f = [n \in (L + 1)..(L + 1) |->
               IF n = L + 1 THEN list
               ELSE IF n \in failed THEN SwapRemove(f[n + 1], n) ELSE f[n + 1]]
    BY <2>1
  <2>3. Removal(f, L + 1, list, failed)
    BY <2>2 DEF Removal
  <2>4. L + 1 - 0 = L + 1
    BY <1>0
  <2> HIDE DEF f
  <2> QED BY <2>3, <2>4
<1>2. ASSUME NEW k \in Nat, k \in S PROVE k + 1 \in S
  <2> SUFFICES ASSUME k + 1 <= L PROVE \E f : Removal(f, L + 1 - (k + 1), list, failed)
    OBVIOUS
  <2> DEFINE m == L + 1 - k
  <2>1. m \in Nat /\ m - 1 \in Nat /\ L + 1 - (k + 1) = m - 1 /\ m <= L + 1 /\ m - 1 # L + 1
    BY <1>0
  <2>2. PICK f : Removal(f, m, list, failed)
    BY <1>0, <1>2
  <2> HIDE DEF m
  <2> DEFINE g == [n \in (m - 1)..(L + 1) |->
                     IF n = m - 1
                     THEN IF n \in failed THEN SwapRemove(f[m], n) ELSE f[m]
                     ELSE f[n]]
             rule(h, n) == IF n = L + 1 THEN list
                           ELSE IF n \in failed THEN SwapRemove(h[n + 1], n) ELSE h[n + 1]
  <2>3. ASSUME NEW n \in (m - 1)..(L + 1) PROVE g[n] = rule(g, n)
    <3>1. CASE n = m - 1
      <4>1. n + 1 = m /\ n + 1 \in (m - 1)..(L + 1) /\ n + 1 # m - 1 /\ n # L + 1
        BY <1>0, <2>1, <3>1
      <4>2. g[n + 1] = f[m]
        BY <4>1
      <4> QED BY <3>1, <4>1, <4>2
    <3>2. CASE n # m - 1
      <4>1. n \in m..(L + 1)
        BY <1>0, <2>1, <3>2
      <4>2. f[n] = rule(f, n)
        BY <2>2, <4>1 DEF Removal
      <4>3. n # L + 1 => n + 1 \in (m - 1)..(L + 1) /\ n + 1 # m - 1
        BY <1>0, <2>1, <4>1
      <4>4. n # L + 1 => g[n + 1] = f[n + 1]
        BY <4>3
      <4>5. g[n] = f[n]
        BY <3>2
      <4> QED BY <4>2, <4>4, <4>5
    <3> QED BY <3>1, <3>2
  <2>4. g = [n \in (m - 1)..(L + 1) |-> g[n]]
    OBVIOUS
  <2> HIDE DEF g
  <2>5. g = [n \in (m - 1)..(L + 1) |-> rule(g, n)]
    BY <2>3, <2>4
  <2>6. Removal(g, m - 1, list, failed)
    BY <2>5 DEF Removal
  <2> QED BY <2>1, <2>6
<1> HIDE DEF S
<1>3. L \in S
  BY <1>0, <1>1, <1>2, SetInduction
<1>4. L + 1 - L = 1
  BY <1>0
<1> HIDE DEF L
<1>5. \E f : Removal(f, L + 1 - L, list, failed)
  BY <1>0, <1>3 DEF S
<1> QED BY <1>4, <1>5

(* Nobody but those at the failed indices is in the list less often, and   *)
(* nobody comes into it.                                                   *)
Kept(list, failed, n, rest) ==
    /\ rest \in Seq(Peers) /\ Len(rest) >= n - 1
    /\ \A k \in 1..(n - 1) : rest[k] = list[k]
    /\ \A p : ~In(p, list) => ~In(p, rest)
    /\ \A p : (\A i \in failed : list[i] # p) => Times(p, rest) = Times(p, list)

LEMMA WithoutKeeps ==
    ASSUME NEW list \in Seq(Peers), NEW failed \in SUBSET (1..Len(list))
    PROVE  Kept(list, failed, 1, Without(list, failed))
<1> DEFINE L == Len(list)
           downTo == CHOOSE f : Removal(f, 1, list, failed)
           S == {k \in Nat : k <= L => Kept(list, failed, L + 1 - k, downTo[L + 1 - k])}
<1>0. L \in Nat
  OBVIOUS
<1>1. Without(list, failed) = downTo[1]
  BY DEF Without, Removal
<1>2. Removal(downTo, 1, list, failed)
  BY RemovalExists
<1> HIDE DEF downTo
<1>3. 0 \in S
  <2>1. L + 1 - 0 = L + 1 /\ L + 1 \in 1..(L + 1) /\ (L + 1) - 1 = L /\ L >= L
    BY <1>0
  <2>2. downTo[L + 1] = list
    BY <1>2, <2>1 DEF Removal
  <2>3. Kept(list, failed, L + 1, list)
    BY <2>1 DEF Kept
  <2> QED BY <2>1, <2>2, <2>3
<1>4. ASSUME NEW k \in Nat, k \in S PROVE k + 1 \in S
  <2> SUFFICES ASSUME k + 1 <= L
               PROVE  Kept(list, failed, L + 1 - (k + 1), downTo[L + 1 - (k + 1)])
    OBVIOUS
  <2> DEFINE n == L + 1 - (k + 1)
             more == downTo[n + 1]
  <2>1. n \in 1..L /\ n \in 1..(L + 1) /\ n # L + 1 /\ n + 1 = L + 1 - k /\ (n + 1) - 1 = n
    BY <1>0
  <2>2. Kept(list, failed, n + 1, more)
    BY <1>0, <1>4, <2>1
  <2>3. downTo[n] = IF n \in failed THEN SwapRemove(more, n) ELSE more
    BY <1>2, <2>1 DEF Removal
  <2> HIDE DEF n, more
  <2>4. /\ more \in Seq(Peers) /\ Len(more) \in Nat /\ Len(more) >= n
        /\ n \in 1..Len(more) /\ more[n] = list[n]
        /\ \A j \in 1..(n - 1) : more[j] = list[j]
    BY <1>0, <2>1, <2>2 DEF Kept
  <2>5. CASE n \notin failed
    <3>1. Kept(list, failed, n, more)
      <4>1. Len(more) >= n - 1
        BY <2>1, <2>4
      <4> QED BY <2>2, <2>4, <4>1 DEF Kept
    <3> QED BY <2>3, <2>5, <3>1 DEF n
  <2>6. CASE n \in failed
    <3> DEFINE rest == SwapRemove(more, n)
    <3>1. /\ rest \in Seq(Peers) /\ Len(rest) = Len(more) - 1
          /\ \A j \in 1..(n - 1) : j <= Len(more) - 1 => rest[j] = more[j]
          /\ \A p : ~In(p, more) => ~In(p, rest)
          /\ \A p : p # more[n] => Times(p, rest) = Times(p, more)
      BY <2>4, SwapRemoveKeeps
    <3> HIDE DEF rest
    <3>2. Len(rest) >= n - 1 /\ \A j \in 1..(n - 1) : rest[j] = list[j]
      BY <2>1, <2>4, <3>1
    <3>3. \A p : ~In(p, list) => ~In(p, rest)
      BY <2>2, <3>1 DEF Kept
    <3>4. ASSUME NEW p, \A i \in failed : list[i] # p
          PROVE  Times(p, rest) = Times(p, list)
      BY <2>2, <2>4, <2>6, <3>1, <3>4 DEF Kept
    <3>5. Kept(list, failed, n, rest)
      BY <3>1, <3>2, <3>3, <3>4 DEF Kept
    <3> QED BY <2>3, <2>6, <3>5 DEF n, rest
  <2> QED BY <2>5, <2>6
<1> HIDE DEF S
<1>5. L \in S
  BY <1>0, <1>3, <1>4, SetInduction
<1>6. L + 1 - L = 1
  BY <1>0
<1> HIDE DEF L
<1>7. Kept(list, failed, L + 1 - L, downTo[L + 1 - L])
  BY <1>0, <1>5 DEF S
<1> QED BY <1>1, <1>6, <1>7

-----------------------------------------------------------------------------
(* A client that is connected is where it should be, and one that is not   *)
(* yet is nowhere; who broadcasts holds the list of the peers, and what    *)
(* failed stays at its index until it is removed.                          *)
LiveInv ==
    \A p \in Peers :
        /\ conn[p] = "new" =>
              wanted[p] = 0 /\ ~In(p, peers) /\ ~In(p, subscribers)
        /\ conn[p] = "up" =>
              Times(p, peers) = 1 /\ Times(p, subscribers) = wanted[p]
SendOK(s) ==
    /\ send[s].pc \in {"tell", "prune", "broadcast"} => send[s].at # 0
    /\ send[s].pc = "broadcast" =>
          /\ held["peers"] = s
          /\ send[s].failed \subseteq 1..Len(peers)
          /\ \A i \in send[s].failed : conn[peers[i]] = "down"
SendsOK == \A s \in Senders : SendOK(s)
NotifierInv == NotifierTypeOK /\ LiveInv /\ SendsOK

LEMMA NotifierStarts == ASSUME NotifierInit PROVE NotifierInv
<1>1. NotifierTypeOK
  BY NotifierAssumption
     DEF NotifierInit, NotifierTypeOK, IdleSend, Send, Locks
<1>2. LiveInv
  BY DEF NotifierInit, LiveInv, In
<1>3. SendsOK
  BY DEF NotifierInit, SendsOK, SendOK, IdleSend
<1> QED BY <1>1, <1>2, <1>3 DEF NotifierInv

(* Where a step of one sender leaves the others and the peers alone, only  *)
(* what it makes of its own call matters.                                  *)
LEMMA SendMoves ==
    ASSUME NotifierTypeOK, SendsOK, NEW s \in Senders, NEW x \in Send,
           send' = [send EXCEPT ![s] = x],
           UNCHANGED <<conn, peers>>,
           \A t \in Senders : t # s /\ held["peers"] = t => held'["peers"] = t,
           x.pc \in {"tell", "prune", "broadcast"} => x.at # 0,
           x.pc = "broadcast" =>
              /\ held'["peers"] = s
              /\ x.failed \subseteq 1..Len(peers)
              /\ \A i \in x.failed : conn[peers[i]] = "down"
    PROVE  send' \in [Senders -> Send] /\ SendsOK'
<1>1. send \in [Senders -> Send]
  BY DEF NotifierTypeOK
<1>2. send' \in [Senders -> Send] /\ send'[s] = x
      /\ \A t \in Senders : t # s => send'[t] = send[t]
  BY <1>1
<1>3. ASSUME NEW t \in Senders PROVE SendOK(t)'
  <2>1. CASE t = s
    BY <1>2, <2>1 DEF SendOK
  <2>2. CASE t # s
    BY <1>2, <2>2 DEF SendOK, SendsOK
  <2> QED BY <2>1, <2>2
<1> QED BY <1>2, <1>3 DEF SendsOK

LEMMA IdleTyped ==
    /\ IdleSend \in Send /\ IdleSend.pc = "idle" /\ IdleSend.at = 0
    /\ \A pc \in {"lock", "prune_lock"} :
          /\ [IdleSend EXCEPT !.pc = pc] \in Send
          /\ [IdleSend EXCEPT !.pc = pc].pc = pc
    /\ \A pc \in {"prune", "broadcast"} :
          /\ [IdleSend EXCEPT !.pc = pc, !.at = 1] \in Send
          /\ [IdleSend EXCEPT !.pc = pc, !.at = 1].pc = pc
          /\ [IdleSend EXCEPT !.pc = pc, !.at = 1].at = 1
          /\ [IdleSend EXCEPT !.pc = pc, !.at = 1].failed = {}
    /\ \A list \in Seq(Peers) :
          /\ [IdleSend EXCEPT !.pc = "tell", !.list = list, !.at = 1] \in Send
          /\ [IdleSend EXCEPT !.pc = "tell", !.list = list, !.at = 1].pc = "tell"
          /\ [IdleSend EXCEPT !.pc = "tell", !.list = list, !.at = 1].at = 1
<1>1. IdleSend = [pc |-> "idle", list |-> <<>>, at |-> 0, failed |-> {}]
      /\ <<>> \in Seq(Peers) /\ {} \in SUBSET Nat /\ 0 \in Nat /\ 1 \in Nat
  BY DEF IdleSend
<1>2. IdleSend \in Send /\ IdleSend.pc = "idle" /\ IdleSend.at = 0 /\ IdleSend.failed = {}
  BY <1>1 DEF Send
<1>3. ASSUME NEW pc \in {"lock", "prune_lock"}
      PROVE  /\ [IdleSend EXCEPT !.pc = pc] \in Send
             /\ [IdleSend EXCEPT !.pc = pc].pc = pc
  <2>1. [IdleSend EXCEPT !.pc = pc] = [pc |-> pc, list |-> <<>>, at |-> 0, failed |-> {}]
    BY DEF IdleSend
  <2> QED BY <1>1, <2>1 DEF Send
<1>4. ASSUME NEW pc \in {"prune", "broadcast"}
      PROVE  /\ [IdleSend EXCEPT !.pc = pc, !.at = 1] \in Send
             /\ [IdleSend EXCEPT !.pc = pc, !.at = 1].pc = pc
             /\ [IdleSend EXCEPT !.pc = pc, !.at = 1].at = 1
             /\ [IdleSend EXCEPT !.pc = pc, !.at = 1].failed = {}
  BY <1>2 DEF Send
<1>5. ASSUME NEW list \in Seq(Peers)
      PROVE  /\ [IdleSend EXCEPT !.pc = "tell", !.list = list, !.at = 1] \in Send
             /\ [IdleSend EXCEPT !.pc = "tell", !.list = list, !.at = 1].pc = "tell"
             /\ [IdleSend EXCEPT !.pc = "tell", !.list = list, !.at = 1].at = 1
  BY <1>2 DEF Send
<1> QED BY <1>2, <1>3, <1>4, <1>5

(* The clients: they connect while nobody holds the list, disconnect at    *)
(* any time and subscribe.                                                 *)
LEMMA AddPeerOK ==
    ASSUME NotifierInv, NEW p \in Peers, AddPeer(p) PROVE NotifierInv'
<1>1. NotifierTypeOK /\ LiveInv /\ SendsOK
  BY DEF NotifierInv
<1>2. NotifierTypeOK'
  BY <1>1 DEF AddPeer, NotifierTypeOK
<1>3. ASSUME NEW q \in Peers
      PROVE  /\ conn'[q] = "new" =>
                  wanted'[q] = 0 /\ ~In(q, peers)' /\ ~In(q, subscribers)'
             /\ conn'[q] = "up" => Times(q, peers)' = 1
                                   /\ Times(q, subscribers)' = wanted'[q]
  <2>1. /\ peers \in Seq(Peers) /\ subscribers \in Seq(Peers)
        /\ conn \in [Peers -> {"new", "up", "down"}]
    BY <1>1 DEF NotifierTypeOK
  <2>2. /\ conn[p] = "new" /\ conn' = [conn EXCEPT ![p] = "up"]
        /\ peers' = Append(peers, p) /\ subscribers' = subscribers /\ wanted' = wanted
    BY DEF AddPeer
  <2>3. Times(q, subscribers)' = Times(q, subscribers)
        /\ (In(q, subscribers)' <=> In(q, subscribers))
    BY <2>2 DEF Times, In
  <2>4. Times(q, peers)' = Times(q, Append(peers, p))
        /\ (In(q, peers)' <=> In(q, Append(peers, p)))
    BY <2>2 DEF Times, In
  <2>5. Times(q, Append(peers, p)) = IF q = p THEN Times(q, peers) + 1 ELSE Times(q, peers)
    BY <2>1, TimesAppend
  <2>6. CASE q = p
    <3>1. wanted[p] = 0 /\ Times(p, peers) = 0 /\ Times(p, subscribers) = 0
      BY <1>1, <2>1, <2>2, TimesTyped DEF LiveInv
    <3>2. conn'[p] = "up"
      BY <2>1, <2>2
    <3> QED BY <2>2, <2>3, <2>4, <2>5, <2>6, <3>1, <3>2
  <2>7. CASE q # p
    <3>1. conn'[q] = conn[q]
      BY <2>1, <2>2, <2>7
    <3>2. ~In(q, peers) => ~In(q, Append(peers, p))
      BY <2>1, <2>7 DEF In
    <3> QED BY <1>1, <2>2, <2>3, <2>4, <2>5, <2>7, <3>1, <3>2 DEF LiveInv
  <2> QED BY <2>6, <2>7
<1>4. SendsOK'
  <2> SUFFICES ASSUME NEW s \in Senders PROVE SendOK(s)'
    BY DEF SendsOK
  <2>1. SendOK(s) /\ held["peers"] = Nobody /\ Nobody # s
    BY <1>1, NotifierAssumption DEF SendsOK, AddPeer, Free
  <2> QED BY <2>1 DEF SendOK, AddPeer
<1>5. LiveInv'
  BY <1>3 DEF LiveInv
<1> QED BY <1>2, <1>4, <1>5 DEF NotifierInv

LEMMA DisconnectOK ==
    ASSUME NotifierInv, NEW p \in Peers, Disconnect(p) PROVE NotifierInv'
<1>1. NotifierTypeOK /\ LiveInv /\ SendsOK
  BY DEF NotifierInv
<1>2. NotifierTypeOK'
  BY <1>1 DEF Disconnect, NotifierTypeOK
<1>3. LiveInv'
  <2>1. /\ conn \in [Peers -> {"new", "up", "down"}]
        /\ conn' = [conn EXCEPT ![p] = "down"]
        /\ UNCHANGED <<peers, subscribers, wanted>>
    BY <1>1 DEF Disconnect, NotifierTypeOK
  <2>2. ASSUME NEW q \in Peers
        PROVE  /\ conn'[q] = "down" \/ conn'[q] = conn[q]
               /\ Times(q, peers)' = Times(q, peers) /\ (In(q, peers)' <=> In(q, peers))
               /\ Times(q, subscribers)' = Times(q, subscribers)
               /\ (In(q, subscribers)' <=> In(q, subscribers))
    BY <2>1 DEF Times, In
  <2> QED BY <1>1, <2>1, <2>2 DEF LiveInv
<1>4. ASSUME NEW s \in Senders PROVE SendOK(s)'
  <2>1. SendOK(s)
    BY <1>1 DEF SendsOK
  <2>2. \A q \in Peers : conn[q] = "down" => conn'[q] = "down"
    BY <1>1 DEF Disconnect, NotifierTypeOK
  <2>3. \A i \in 1..Len(peers) : peers[i] \in Peers
    BY <1>1 DEF NotifierTypeOK
  <2> QED BY <2>1, <2>2, <2>3 DEF SendOK, Disconnect
<1> QED BY <1>2, <1>3, <1>4 DEF NotifierInv, SendsOK

LEMMA SubscribeOK ==
    ASSUME NotifierInv, NEW p \in Peers, SubscribeResource(p) PROVE NotifierInv'
<1>1. NotifierTypeOK /\ LiveInv /\ SendsOK
  BY DEF NotifierInv
<1>2. NotifierTypeOK'
  BY <1>1 DEF SubscribeResource, NotifierTypeOK
<1>3. SendsOK'
  BY <1>1 DEF SubscribeResource, SendsOK, SendOK
<1>4. ASSUME NEW q \in Peers
      PROVE  /\ conn'[q] = "new" =>
                  wanted'[q] = 0 /\ ~In(q, peers)' /\ ~In(q, subscribers)'
             /\ conn'[q] = "up" => Times(q, peers)' = 1
                                   /\ Times(q, subscribers)' = wanted'[q]
  <2>1. subscribers \in Seq(Peers) /\ wanted \in [Peers -> Nat]
    BY <1>1 DEF NotifierTypeOK
  <2>2. /\ conn[p] = "up" /\ conn' = conn /\ peers' = peers
        /\ subscribers' = Append(subscribers, p)
        /\ wanted' = [wanted EXCEPT ![p] = wanted[p] + 1]
    BY DEF SubscribeResource
  <2>3. Times(q, peers)' = Times(q, peers) /\ (In(q, peers)' <=> In(q, peers))
    BY <2>2 DEF Times, In
  <2>4. Times(q, subscribers)' = Times(q, Append(subscribers, p))
        /\ (In(q, subscribers)' <=> In(q, Append(subscribers, p)))
    BY <2>2 DEF Times, In
  <2>5. Times(q, Append(subscribers, p)) =
          IF q = p THEN Times(q, subscribers) + 1 ELSE Times(q, subscribers)
    BY <2>1, TimesAppend
  <2>6. wanted'[q] = IF q = p THEN wanted[q] + 1 ELSE wanted[q]
    BY <2>1, <2>2
  <2>7. q # p /\ ~In(q, subscribers) => ~In(q, Append(subscribers, p))
    BY <2>1 DEF In
  <2> QED BY <1>1, <2>2, <2>3, <2>4, <2>5, <2>6, <2>7 DEF LiveInv
<1>5. LiveInv'
  BY <1>4 DEF LiveInv
<1> QED BY <1>2, <1>3, <1>5 DEF NotifierInv

LEMMA UnsubscribeOK ==
    ASSUME NotifierInv, UnsubscribeResource PROVE NotifierInv'
<1>1. NotifierTypeOK /\ LiveInv /\ SendsOK
  BY DEF NotifierInv
<1>2. NotifierTypeOK'
  BY <1>1 DEF UnsubscribeResource, NotifierTypeOK
<1>3. SendsOK'
  BY <1>1 DEF UnsubscribeResource, SendsOK, SendOK
<1>4. ASSUME NEW q \in Peers PROVE Times(q, subscribers)' = 0 /\ ~In(q, subscribers)'
  <2>1. <<>> \in Seq(Peers) /\ ~In(q, <<>>)
    BY DEF In
  <2>2. Times(q, <<>>) = 0
    BY <2>1, TimesTyped
  <2>3. subscribers' = <<>>
    BY DEF UnsubscribeResource
  <2> QED BY <2>1, <2>2, <2>3 DEF Times, In
<1>5. LiveInv'
  <2>1. conn' = conn /\ peers' = peers /\ wanted' = [q \in Peers |-> 0]
    BY DEF UnsubscribeResource
  <2>2. \A q \in Peers : Times(q, peers)' = Times(q, peers)
                         /\ (In(q, peers)' <=> In(q, peers))
    BY <2>1 DEF Times, In
  <2> QED BY <1>1, <1>4, <2>1, <2>2 DEF LiveInv
<1> QED BY <1>2, <1>3, <1>5 DEF NotifierInv

(* A step of a sender that changes neither list.                           *)
LEMMA CallOnly ==
    ASSUME NotifierInv, NEW s \in Senders, NEW x \in Send,
           send' = [send EXCEPT ![s] = x], sends' \in 0..MaxSends,
           UNCHANGED <<conn, peers, subscribers, wanted>>,
           held' \in [Locks -> {Nobody} \cup Senders],
           \A t \in Senders : t # s /\ held["peers"] = t => held'["peers"] = t,
           x.pc \in {"tell", "prune", "broadcast"} => x.at # 0,
           x.pc = "broadcast" =>
              /\ held'["peers"] = s
              /\ x.failed \subseteq 1..Len(peers)
              /\ \A i \in x.failed : conn[peers[i]] = "down"
    PROVE  NotifierInv'
<1>1. NotifierTypeOK /\ LiveInv /\ SendsOK
  BY DEF NotifierInv
<1>2. send' \in [Senders -> Send] /\ SendsOK'
  BY <1>1, SendMoves
<1>3. NotifierTypeOK'
  BY <1>1, <1>2 DEF NotifierTypeOK
<1>4. \A p : /\ Times(p, peers)' = Times(p, peers) /\ (In(p, peers)' <=> In(p, peers))
             /\ Times(p, subscribers)' = Times(p, subscribers)
             /\ (In(p, subscribers)' <=> In(p, subscribers))
  BY DEF Times, In
<1>5. LiveInv'
  BY <1>1, <1>4 DEF LiveInv
<1> QED BY <1>2, <1>3, <1>5 DEF NotifierInv

LEMMA CallsStart ==
    ASSUME NotifierInv, NEW s \in Senders, ResourceUpdated(s) \/ Log(s)
    PROVE  NotifierInv'
<1>1. NotifierTypeOK
  BY DEF NotifierInv
<1>2. sends' \in 0..MaxSends
  BY <1>1, NotifierAssumption DEF ResourceUpdated, Log, NotifierTypeOK
<1>3. UNCHANGED <<conn, peers, subscribers, wanted, held>>
  BY DEF ResourceUpdated, Log
<1>4. held' \in [Locks -> {Nobody} \cup Senders] /\ subscribers \in Seq(Peers)
  BY <1>1, <1>3 DEF NotifierTypeOK
<1>5. CASE send' = [send EXCEPT ![s] = [IdleSend EXCEPT !.pc = "lock"]]
  <2> DEFINE x == [IdleSend EXCEPT !.pc = "lock"]
  <2>1. x \in Send /\ x.pc = "lock"
    BY IdleTyped
  <2> HIDE DEF x
  <2>2. send' = [send EXCEPT ![s] = x]
    BY <1>5 DEF x
  <2> QED BY <1>2, <1>3, <1>4, <2>1, <2>2, CallOnly
<1>6. CASE send' = [send EXCEPT ![s] =
             [IdleSend EXCEPT !.pc = "tell", !.list = subscribers, !.at = 1]]
  <2> DEFINE x == [IdleSend EXCEPT !.pc = "tell", !.list = subscribers, !.at = 1]
  <2>1. x \in Send /\ x.pc = "tell" /\ x.at = 1
    BY <1>4, IdleTyped
  <2>3. x.at # 0 /\ x.pc # "broadcast"
    BY <2>1
  <2> HIDE DEF x
  <2>2. send' = [send EXCEPT ![s] = x]
    BY <1>6 DEF x
  <2> QED BY <1>2, <1>3, <1>4, <2>1, <2>2, <2>3, CallOnly
<1> QED BY <1>5, <1>6 DEF ResourceUpdated, Log

LEMMA TellSubscriberOK ==
    ASSUME NotifierInv, NEW s \in Senders, TellSubscriber(s) PROVE NotifierInv'
<1>1. NotifierTypeOK /\ SendsOK
  BY DEF NotifierInv
<1>2. send[s] \in Send /\ sends \in 0..MaxSends
      /\ held \in [Locks -> {Nobody} \cup Senders]
  BY <1>1 DEF NotifierTypeOK
<1>3. send[s].at \in Nat /\ send[s].failed \in SUBSET Nat /\ send[s].pc = "tell"
  BY <1>2 DEF Send, TellSubscriber
<1> DEFINE more == IF Fails(send[s].list[send[s].at])
                   THEN send[s].failed \cup {send[s].at} ELSE send[s].failed
           x == [send[s] EXCEPT !.at = send[s].at + 1, !.failed = more]
<1>4. more \in SUBSET Nat
  BY <1>3
<1>5. send' = [send EXCEPT ![s] = x]
  BY DEF TellSubscriber
<1> HIDE DEF more
<1>6. x \in Send /\ x.pc = "tell" /\ x.at = send[s].at + 1
  <2>1. send[s].at + 1 \in Nat
    BY <1>3
  <2> QED BY <1>2, <1>3, <1>4, <2>1 DEF Send
<1> HIDE DEF x
<1>7. x.at # 0
  BY <1>3, <1>6
<1>8. UNCHANGED <<conn, peers, subscribers, wanted, held, sends>>
  BY DEF TellSubscriber
<1> QED BY <1>2, <1>5, <1>6, <1>7, <1>8, CallOnly

LEMMA TellPeerOK ==
    ASSUME NotifierInv, NEW s \in Senders, TellPeer(s) PROVE NotifierInv'
<1>1. NotifierTypeOK /\ SendsOK /\ LiveInv
  BY DEF NotifierInv
<1>2. send[s] \in Send /\ sends \in 0..MaxSends
      /\ held \in [Locks -> {Nobody} \cup Senders]
      /\ peers \in Seq(Peers) /\ conn \in [Peers -> {"new", "up", "down"}]
  BY <1>1 DEF NotifierTypeOK
<1>3. send[s].at \in Nat /\ send[s].failed \in SUBSET Nat /\ send[s].pc = "broadcast"
      /\ send[s].at <= Len(peers)
  BY <1>2 DEF Send, TellPeer
<1>4. /\ send[s].at # 0 /\ held["peers"] = s
      /\ send[s].failed \subseteq 1..Len(peers)
      /\ \A i \in send[s].failed : conn[peers[i]] = "down"
  BY <1>1, <1>3 DEF SendsOK, SendOK
<1>5. send[s].at \in 1..Len(peers) /\ Len(peers) \in Nat
  BY <1>2, <1>3, <1>4
<1>6. Fails(peers[send[s].at]) => conn[peers[send[s].at]] = "down"
  <2>1. peers[send[s].at] \in Peers /\ In(peers[send[s].at], peers)
    BY <1>2, <1>5 DEF In
  <2> QED BY <1>1, <1>2, <2>1 DEF LiveInv, Fails
<1> DEFINE more == IF Fails(peers[send[s].at])
                   THEN send[s].failed \cup {send[s].at} ELSE send[s].failed
           x == [send[s] EXCEPT !.at = send[s].at + 1, !.failed = more]
<1>7. more \in SUBSET Nat /\ more \subseteq 1..Len(peers)
      /\ \A i \in more : conn[peers[i]] = "down"
  BY <1>3, <1>4, <1>5, <1>6
<1>8. send' = [send EXCEPT ![s] = x]
  BY DEF TellPeer
<1> HIDE DEF more
<1>9. x \in Send /\ x.pc = "broadcast" /\ x.at = send[s].at + 1 /\ x.failed = more
  <2>1. send[s].at + 1 \in Nat
    BY <1>3
  <2> QED BY <1>2, <1>3, <1>7, <2>1 DEF Send
<1> HIDE DEF x
<1>10. x.at # 0
  BY <1>3, <1>9
<1>11. UNCHANGED <<conn, peers, subscribers, wanted, held, sends>>
  BY DEF TellPeer
<1> QED BY <1>2, <1>4, <1>7, <1>8, <1>9, <1>10, <1>11, CallOnly

LEMMA SubscribersToldOK ==
    ASSUME NotifierInv, NEW s \in Senders, SubscribersTold(s) PROVE NotifierInv'
<1>1. sends \in 0..MaxSends /\ held \in [Locks -> {Nobody} \cup Senders]
  BY DEF NotifierInv, NotifierTypeOK
<1> DEFINE x == IF send[s].failed = {}
                THEN IdleSend ELSE [IdleSend EXCEPT !.pc = "prune_lock"]
<1>2. x \in Send /\ x.pc \in {"idle", "prune_lock"}
  BY IdleTyped
<1>3. send' = [send EXCEPT ![s] = x]
      /\ UNCHANGED <<conn, peers, subscribers, wanted, held, sends>>
  BY DEF SubscribersTold
<1> HIDE DEF x
<1> QED BY <1>1, <1>2, <1>3, CallOnly

LEMMA StartPruneOK ==
    ASSUME NotifierInv, NEW s \in Senders, StartPrune(s) PROVE NotifierInv'
<1>1. sends \in 0..MaxSends /\ held \in [Locks -> {Nobody} \cup Senders]
  BY DEF NotifierInv, NotifierTypeOK
<1> DEFINE x == [IdleSend EXCEPT !.pc = "prune", !.at = 1]
<1>2. x \in Send /\ x.pc = "prune" /\ x.at = 1
  BY IdleTyped
<1>3. send' = [send EXCEPT ![s] = x] /\ held' = [held EXCEPT !["subscriptions"] = s]
      /\ UNCHANGED <<conn, peers, subscribers, wanted, sends>>
  BY DEF StartPrune
<1>4. held' \in [Locks -> {Nobody} \cup Senders] /\ held'["peers"] = held["peers"]
  BY <1>1, <1>3 DEF Locks
<1>5. x.at # 0 /\ x.pc # "broadcast"
  BY <1>2
<1> HIDE DEF x
<1> QED BY <1>1, <1>2, <1>3, <1>4, <1>5, CallOnly

LEMMA EndPruneOK ==
    ASSUME NotifierInv, NEW s \in Senders, EndPrune(s) PROVE NotifierInv'
<1>1. sends \in 0..MaxSends /\ held \in [Locks -> {Nobody} \cup Senders]
  BY DEF NotifierInv, NotifierTypeOK
<1>2. IdleSend \in Send /\ IdleSend.pc = "idle"
  BY IdleTyped
<1>3. send' = [send EXCEPT ![s] = IdleSend]
      /\ held' = [held EXCEPT !["subscriptions"] = Nobody]
      /\ UNCHANGED <<conn, peers, subscribers, wanted, sends>>
  BY DEF EndPrune
<1>4. held' \in [Locks -> {Nobody} \cup Senders] /\ held'["peers"] = held["peers"]
  BY <1>1, <1>3 DEF Locks
<1> QED BY <1>1, <1>2, <1>3, <1>4, CallOnly

LEMMA StartBroadcastOK ==
    ASSUME NotifierInv, NEW s \in Senders, StartBroadcast(s) PROVE NotifierInv'
<1>1. sends \in 0..MaxSends /\ held \in [Locks -> {Nobody} \cup Senders]
  BY DEF NotifierInv, NotifierTypeOK
<1> DEFINE x == [IdleSend EXCEPT !.pc = "broadcast", !.at = 1]
<1>2. x \in Send /\ x.pc = "broadcast" /\ x.at = 1 /\ x.failed = {}
  BY IdleTyped
<1>3. send' = [send EXCEPT ![s] = x] /\ held' = [held EXCEPT !["peers"] = s]
      /\ held["peers"] = Nobody
      /\ UNCHANGED <<conn, peers, subscribers, wanted, sends>>
  BY DEF StartBroadcast, Free
<1>4. held' \in [Locks -> {Nobody} \cup Senders] /\ held'["peers"] = s
  BY <1>1, <1>3 DEF Locks
<1>5. \A t \in Senders : held["peers"] # t
  BY <1>3, NotifierAssumption
<1>6. /\ x.at # 0 /\ x.failed \subseteq 1..Len(peers)
      /\ \A i \in x.failed : conn[peers[i]] = "down"
  BY <1>2
<1> HIDE DEF x
<1> QED BY <1>1, <1>2, <1>3, <1>4, <1>5, <1>6, CallOnly

(* What is pruned from the subscribers is the entry of a client that is    *)
(* gone.                                                                   *)
LEMMA PruneNextOK ==
    ASSUME NotifierInv, NEW s \in Senders, PruneNext(s) PROVE NotifierInv'
<1>1. NotifierTypeOK /\ SendsOK /\ LiveInv
  BY DEF NotifierInv
<1>2. /\ send \in [Senders -> Send] /\ sends \in 0..MaxSends
      /\ held \in [Locks -> {Nobody} \cup Senders]
      /\ subscribers \in Seq(Peers) /\ conn \in [Peers -> {"new", "up", "down"}]
  BY <1>1 DEF NotifierTypeOK
<1>3. send[s] \in Send /\ send[s].at \in Nat /\ send[s].pc = "prune"
      /\ send[s].at <= Len(subscribers) /\ send[s].at # 0
  BY <1>1, <1>2 DEF Send, PruneNext, SendsOK, SendOK
<1> DEFINE i == send[s].at
<1>4. i \in 1..Len(subscribers)
  BY <1>2, <1>3
<1>5. UNCHANGED <<conn, peers, wanted, held, sends>>
  BY DEF PruneNext
<1>6. CASE Fails(subscribers[i])
  <2>1. subscribers' = SwapRemove(subscribers, i) /\ send' = send
    BY <1>6 DEF PruneNext
  <2>2. conn[subscribers[i]] # "up"
    BY <1>6 DEF Fails
  <2> HIDE DEF i
  <2>3. /\ SwapRemove(subscribers, i) \in Seq(Peers)
        /\ \A p : ~In(p, subscribers) => ~In(p, SwapRemove(subscribers, i))
        /\ \A p : p # subscribers[i] =>
                    Times(p, SwapRemove(subscribers, i)) = Times(p, subscribers)
    BY <1>2, <1>4, SwapRemoveKeeps
  <2>4. NotifierTypeOK'
    BY <1>1, <1>5, <2>1, <2>3 DEF NotifierTypeOK
  <2>5. SendsOK'
    BY <1>1, <1>5, <2>1 DEF SendsOK, SendOK
  <2>6. ASSUME NEW q \in Peers
        PROVE  /\ conn'[q] = "new" =>
                    wanted'[q] = 0 /\ ~In(q, peers)' /\ ~In(q, subscribers)'
               /\ conn'[q] = "up" => Times(q, peers)' = 1
                                     /\ Times(q, subscribers)' = wanted'[q]
    <3>1. Times(q, peers)' = Times(q, peers) /\ (In(q, peers)' <=> In(q, peers))
      BY <1>5 DEF Times, In
    <3>2. Times(q, subscribers)' = Times(q, SwapRemove(subscribers, i))
          /\ (In(q, subscribers)' <=> In(q, SwapRemove(subscribers, i)))
      BY <2>1 DEF Times, In
    <3> QED BY <1>1, <1>5, <2>2, <2>3, <3>1, <3>2 DEF LiveInv
  <2>7. LiveInv'
    BY <2>6 DEF LiveInv
  <2> QED BY <2>4, <2>5, <2>7 DEF NotifierInv
<1>7. CASE ~Fails(subscribers[i])
  <2> DEFINE x == [send[s] EXCEPT !.at = send[s].at + 1]
  <2>1. send' = [send EXCEPT ![s] = x] /\ subscribers' = subscribers
    BY <1>2, <1>7 DEF PruneNext
  <2>2. x \in Send /\ x.pc = "prune" /\ x.at = send[s].at + 1
    BY <1>3 DEF Send
  <2> HIDE DEF x
  <2>3. x.at # 0
    BY <1>3, <2>2
  <2> QED BY <1>2, <1>5, <2>1, <2>2, <2>3, CallOnly
<1> QED BY <1>6, <1>7

(* What failed while its sender held the peers is gone, and is removed.    *)
LEMMA EndBroadcastOK ==
    ASSUME NotifierInv, NEW s \in Senders, EndBroadcast(s) PROVE NotifierInv'
<1>1. NotifierTypeOK /\ SendsOK /\ LiveInv
  BY DEF NotifierInv
<1>2. /\ send \in [Senders -> Send] /\ sends \in 0..MaxSends
      /\ held \in [Locks -> {Nobody} \cup Senders]
      /\ peers \in Seq(Peers) /\ conn \in [Peers -> {"new", "up", "down"}]
  BY <1>1 DEF NotifierTypeOK
<1>3. /\ held["peers"] = s
      /\ send[s].failed \subseteq 1..Len(peers)
      /\ \A i \in send[s].failed : conn[peers[i]] = "down"
  BY <1>1 DEF EndBroadcast, SendsOK, SendOK
<1>4. /\ peers' = Without(peers, send[s].failed)
      /\ held' = [held EXCEPT !["peers"] = Nobody]
      /\ send' = [send EXCEPT ![s] = IdleSend]
      /\ UNCHANGED <<conn, subscribers, wanted, sends>>
  BY DEF EndBroadcast
<1> DEFINE rest == Without(peers, send[s].failed)
<1>5. Kept(peers, send[s].failed, 1, rest)
  BY <1>2, <1>3, WithoutKeeps
<1> HIDE DEF rest
<1>6. peers' = rest
  BY <1>4 DEF rest
<1>7. held' \in [Locks -> {Nobody} \cup Senders]
  BY <1>2, <1>4
<1>8. /\ send' \in [Senders -> Send] /\ send'[s] = IdleSend
      /\ \A t \in Senders : t # s => send'[t] = send[t]
  BY <1>2, <1>4, IdleTyped
<1>9. NotifierTypeOK'
  BY <1>1, <1>4, <1>5, <1>6, <1>7, <1>8 DEF NotifierTypeOK, Kept
<1>10. ASSUME NEW t \in Senders PROVE SendOK(t)'
  <2>1. CASE t = s
    BY <1>8, <2>1, IdleTyped DEF SendOK
  <2>2. CASE t # s
    <3>1. SendOK(t) /\ held["peers"] # t
      BY <1>1, <1>3, <2>2 DEF SendsOK
    <3> QED BY <1>8, <2>2, <3>1 DEF SendOK
  <2> QED BY <2>1, <2>2
<1>11. ASSUME NEW q \in Peers
       PROVE  /\ conn'[q] = "new" =>
                   wanted'[q] = 0 /\ ~In(q, peers)' /\ ~In(q, subscribers)'
              /\ conn'[q] = "up" => Times(q, peers)' = 1
                                    /\ Times(q, subscribers)' = wanted'[q]
  <2>1. Times(q, subscribers)' = Times(q, subscribers)
        /\ (In(q, subscribers)' <=> In(q, subscribers))
    BY <1>4 DEF Times, In
  <2>2. Times(q, peers)' = Times(q, rest) /\ (In(q, peers)' <=> In(q, rest))
    BY <1>6 DEF Times, In
  <2>3. conn[q] = "up" => \A i \in send[s].failed : peers[i] # q
    BY <1>3
  <2>4. conn[q] = "up" => Times(q, rest) = Times(q, peers)
    BY <1>5, <2>3 DEF Kept
  <2>5. ~In(q, peers) => ~In(q, rest)
    BY <1>5 DEF Kept
  <2> QED BY <1>1, <1>4, <2>1, <2>2, <2>4, <2>5 DEF LiveInv
<1>12. LiveInv'
  BY <1>11 DEF LiveInv
<1> QED BY <1>9, <1>10, <1>12 DEF NotifierInv, SendsOK

LEMMA NotifierStays == ASSUME NotifierInv, UNCHANGED notifierVars PROVE NotifierInv'
<1>1. /\ conn' = conn /\ peers' = peers /\ subscribers' = subscribers
      /\ wanted' = wanted /\ held' = held /\ send' = send /\ sends' = sends
  BY DEF notifierVars
<1>2. NotifierTypeOK' /\ SendsOK'
  BY <1>1 DEF NotifierInv, NotifierTypeOK, SendsOK, SendOK
<1>3. \A p : /\ Times(p, peers)' = Times(p, peers) /\ (In(p, peers)' <=> In(p, peers))
             /\ Times(p, subscribers)' = Times(p, subscribers)
             /\ (In(p, subscribers)' <=> In(p, subscribers))
  BY <1>1 DEF Times, In
<1>4. LiveInv'
  BY <1>1, <1>3 DEF NotifierInv, LiveInv
<1> QED BY <1>2, <1>4 DEF NotifierInv

LEMMA NotifierKeeps ==
    ASSUME NotifierInv, [NotifierStep]_notifierVars PROVE NotifierInv'
<1>1. CASE UNCHANGED notifierVars
  BY <1>1, NotifierStays
<1>2. ASSUME NEW p \in Peers, AddPeer(p) \/ Disconnect(p) \/ SubscribeResource(p)
      PROVE  NotifierInv'
  BY <1>2, AddPeerOK, DisconnectOK, SubscribeOK
<1>3. CASE UnsubscribeResource
  BY <1>3, UnsubscribeOK
<1>4. ASSUME NEW s \in Senders, ResourceUpdated(s) \/ Log(s)
      PROVE  NotifierInv'
  BY <1>4, CallsStart
<1>5. ASSUME NEW s \in Senders, SenderStep(s) PROVE NotifierInv'
  BY <1>5, TellSubscriberOK, SubscribersToldOK, StartPruneOK, PruneNextOK,
     EndPruneOK, StartBroadcastOK, TellPeerOK, EndBroadcastOK DEF SenderStep
<1> QED BY <1>1, <1>2, <1>3, <1>4, <1>5 DEF NotifierStep

(* Whatever any number of senders drops while clients come, go, subscribe  *)
(* and unsubscribe, a client that is connected stays in the list of peers, *)
(* once, and keeps each of its subscriptions.                              *)
THEOREM LivePeersStay == NotifierSpec => [](NotifierTypeOK /\ LivePeersKept)
<1>1. NotifierInv => NotifierTypeOK /\ LivePeersKept
  BY DEF NotifierInv, LiveInv, LivePeersKept
<1> QED BY <1>1, NotifierStarts, NotifierKeeps, PTL DEF NotifierSpec

-----------------------------------------------------------------------------
(* The server of the runs.  A step of one of the two leaves the variables  *)
(* of the other alone, so each keeps what it keeps by itself.              *)
LEMMA ServerSteps ==
    [MCNext]_<<vars, notifierVars, part>> =>
        [Next]_vars /\ [NotifierStep]_notifierVars
<1>1. MCServicesNext => Next
  BY DEF MCServicesNext, Next
<1> QED BY <1>1 DEF MCNext

(* Whether a server starts its services or notifies its clients, its whole *)
(* state keeps its types, and both parts keep all their promises           *)
(* (fabryk-core: service.rs; fabryk-mcp-core: notifier.rs).                *)
THEOREM ServerIsRight ==
    MCSpec => [](/\ MCTypeOK /\ BackendsAreThere /\ TrailTellsState
                 /\ AllAttemptsMade /\ LivePeersKept)
<1>1. MCInit => Init /\ NotifierInit
  BY DEF MCInit
<1>2. Init /\ [][Next]_vars => [](TypeOK /\ BackendsAreThere)
  <2>1. BackendInv => BackendsAreThere
    BY DEF BackendInv, BackendsAreThere, WaitedForBackends, ToolsFindBackends,
           RequireSeesBackend
  <2> QED BY <2>1, BackendInit, BackendStep, InitTypeOK, TypeStep, PTL
<1>3. Init /\ [][Next]_vars => []TrailTellsState
  BY TrailStarts, TrailStep, InitTypeOK, TypeStep, PTL
<1>4. Init /\ [][Next]_vars => []AllAttemptsMade
  BY AttemptsStart, AttemptsStep, PTL
<1>5. NotifierInit /\ [][NotifierStep]_notifierVars => [](NotifierTypeOK /\ LivePeersKept)
  <2>1. NotifierInv => NotifierTypeOK /\ LivePeersKept
    BY DEF NotifierInv, LiveInv, LivePeersKept
  <2> QED BY <2>1, NotifierStarts, NotifierKeeps, PTL
<1> QED BY <1>1, <1>2, <1>3, <1>4, <1>5, ServerSteps, PTL DEF MCSpec, MCTypeOK
=============================================================================
