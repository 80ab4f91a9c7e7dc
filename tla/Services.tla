------------------------------- MODULE Services -------------------------------
(***************************************************************************)
(* Background services of a Fabryk server: the state of each service, its  *)
(* audit trail, the task that initialises it with retries, the futures     *)
(* that wait for it, the slot that holds its backend and the registry that *)
(* gates tool calls on it (fabryk-core and fabryk-mcp-core).               *)
(*                                                                         *)
(* Handles are shared between threads: a set_state is two steps (the trail *)
(* under its mutex, then the watch channel), a reader that looks twice may *)
(* find two states.                                                        *)
(***************************************************************************)
EXTENDS Naturals, Sequences, FiniteSets

CONSTANTS
    Service,
    Waiters,        \* callers of wait_all_ready, each over all services
    Gate,           \* the services of a ServiceAwareRegistry, in order
    MaxAttempts,    \* RetryConfig::max_attempts of each service
    OwnerStates,    \* the states owners set
    MaxSets,        \* bound: calls of set_state by owners, over all services
    MaxCalls        \* bound: tool calls

ASSUME ServicesAssumption ==
    /\ Gate \in Seq(Service)
    /\ MaxAttempts \in [Service -> Nat \ {0}]
    /\ OwnerStates \subseteq {"Ready", "Degraded", "Stopping", "Stopped"}
    /\ MaxSets \in Nat /\ MaxCalls \in Nat

ServiceState ==
    {"Stopped", "Starting", "Ready", "Degraded", "Stopping", "Failed"}
IsReady(st) == st = "Ready"
IsAvailable(st) == st \in {"Ready", "Degraded"}

Setters == {"task", "owner"}
None == "none"

VARIABLES
    (* the handles *)
    state,      \* the value in each service's watch channel
    trail,      \* transitions: the audit trail
    setting,    \* a set_state that has recorded its state, not published it
    (* the actors *)
    task,       \* the task of spawn_with_retry
    slot,       \* whether the service's BackendSlot holds a backend
    sets,       \* calls of set_state by owners
    answer,     \* how far each wait_ready of a wait_all_ready is
    unseen,     \* the services whose channel has a value that the
                \* receiver of a wait has not marked as seen
    reader,     \* the service whose slot require() found ready, before it
                \* takes the read lock
    call,       \* the tool call, and how many services it has checked
    calls,
    (* history *)
    raced       \* services that two calls of set_state met at

handles == <<state, trail, setting>>
waiting == <<answer, unseen>>
gate == <<call, calls>>
vars == <<handles, task, slot, sets, waiting, reader, gate, raced>>

Pending(s) == {a \in Setters : setting[s][a] # None}

TypeOK ==
    /\ state \in [Service -> ServiceState]
    /\ trail \in [Service -> Seq(ServiceState)]
    /\ setting \in [Service -> [Setters -> ServiceState \cup {None}]]
    /\ task \in [Service ->
          [pc : {"next", "init", "filled", "sleeping", "done"},
           attempt : Nat]]
    /\ slot \in [Service -> BOOLEAN]
    /\ sets \in 0..MaxSets
    /\ answer \in [Waiters -> [Service ->
          {"idle", "fresh", "waiting", "woken", "ready", "failed", "timeout"}]]
    /\ unseen \in [Waiters -> SUBSET Service]
    /\ reader \in Service \cup {None}
    /\ call \in [pc : {"idle", "checking", "delegated", "unavailable"},
                 checked : 0..Len(Gate)]
    /\ calls \in 0..MaxCalls
    /\ raced \in SUBSET Service

Init ==
    /\ state = [s \in Service |-> "Stopped"]
    /\ trail = [s \in Service |-> <<"Stopped">>]
    /\ setting = [s \in Service |-> [a \in Setters |-> None]]
    /\ task = [s \in Service |-> [pc |-> "next", attempt |-> 0]]
    /\ slot = [s \in Service |-> FALSE]
    /\ sets = 0
    /\ answer = [w \in Waiters |-> [s \in Service |-> "idle"]]
    /\ unseen = [w \in Waiters |-> {}]
    /\ reader = None
    /\ call = [pc |-> "idle", checked |-> 0] /\ calls = 0
    /\ raced = {}

-----------------------------------------------------------------------------
(* set_state: the trail first, the watch channel after it.                 *)

MutRecord(s, a, st) ==
    /\ setting[s][a] = None
    /\ setting' = [setting EXCEPT ![s][a] = st]
    /\ trail' = [trail EXCEPT ![s] = Append(@, state[s])]
    /\ raced' = IF Pending(s) = {} THEN raced ELSE raced \cup {s}
    /\ UNCHANGED state
Record(s, a, st) ==
    /\ setting[s][a] = None
    /\ setting' = [setting EXCEPT ![s][a] = st]
    /\ trail' = [trail EXCEPT ![s] = Append(@, st)]
    /\ raced' = IF Pending(s) = {} THEN raced ELSE raced \cup {s}
    /\ UNCHANGED state

Publish(s, a) ==
    /\ setting[s][a] # None
    /\ state' = [state EXCEPT ![s] = setting[s][a]]
    /\ setting' = [setting EXCEPT ![s][a] = None]
    /\ unseen' = [w \in Waiters |-> IF answer[w][s] \in {"waiting", "woken"}
          THEN unseen[w] \cup {s} ELSE unseen[w]]
    /\ UNCHANGED <<trail, task, slot, sets, answer, reader, gate, raced>>

-----------------------------------------------------------------------------
(* spawn_with_retry.  init_fn puts the backend in the slot and returns Ok, *)
(* or fails before or after it has.                                        *)

Attempt(s) ==
    /\ task[s].pc = "next" /\ task[s].attempt < MaxAttempts[s]
    /\ Record(s, "task", "Starting")
    /\ task' = [task EXCEPT ![s] = [pc |-> "init", attempt |-> @.attempt + 1]]
    /\ UNCHANGED <<slot, sets, waiting, reader, gate>>

(* BackendSlot::set                                                        *)
Fill(s) ==
    /\ task[s].pc = "init" /\ setting[s]["task"] = None
    /\ slot' = [slot EXCEPT ![s] = TRUE]
    /\ task' = [task EXCEPT ![s].pc = "filled"]
    /\ UNCHANGED <<handles, sets, waiting, reader, gate, raced>>

MutInitOk(s) ==
    /\ task[s].pc = "init"
    /\ Record(s, "task", "Ready")
    /\ task' = [task EXCEPT ![s].pc = "done"]
    /\ UNCHANGED <<slot, sets, waiting, reader, gate>>
InitOk(s) ==
    /\ task[s].pc = "filled"
    /\ Record(s, "task", "Ready")
    /\ task' = [task EXCEPT ![s].pc = "done"]
    /\ UNCHANGED <<slot, sets, waiting, reader, gate>>

MutOneFewer(s) == task[s].attempt + 1 >= MaxAttempts[s]
LastAttempt(s) == task[s].attempt = MaxAttempts[s]

InitFails(s) ==
    /\ task[s].pc \in {"init", "filled"} /\ setting[s]["task"] = None
    /\ IF LastAttempt(s)
       THEN /\ Record(s, "task", "Failed")
            /\ task' = [task EXCEPT ![s].pc = "done"]
       ELSE /\ task' = [task EXCEPT ![s].pc = "sleeping"]
            /\ UNCHANGED <<handles, raced>>
    /\ UNCHANGED <<slot, sets, waiting, reader, gate>>

WakeTask(s) ==
    /\ task[s].pc = "sleeping"
    /\ task' = [task EXCEPT ![s].pc = "next"]
    /\ UNCHANGED <<handles, slot, sets, waiting, reader, gate, raced>>

(* The application that owns the handle: it degrades, recovers or stops    *)
(* the service, whether or not the task has ended, and announces it as     *)
(* available only with a backend in its slot.                              *)
OwnerSets(s, st) ==
    /\ sets < MaxSets
    /\ IsAvailable(st) => slot[s]
    /\ Record(s, "owner", st)
    /\ sets' = sets + 1
    /\ UNCHANGED <<task, slot, waiting, reader, gate>>

-----------------------------------------------------------------------------
(* wait_all_ready: a wait_ready for each service, joined.                  *)

StartWait(w) ==
    /\ \A s \in Service : answer[w][s] = "idle"
    /\ answer' = [answer EXCEPT ![w] = [s \in Service |-> "fresh"]]
    /\ UNCHANGED <<handles, task, slot, sets, unseen, reader, gate, raced>>

(* What wait_ready makes of the state it has read.                         *)
MutVerdictState(st) ==
    CASE IsReady(st) -> "ready"
      [] st = "Starting" -> "waiting"
      [] OTHER -> st
Verdict(st) ==
    CASE IsReady(st) -> "ready"
      [] st = "Failed" -> "failed"
      [] OTHER -> "waiting"

(* subscribe and borrow_and_update                                         *)
FirstLook(w, s) ==
    /\ answer[w][s] = "fresh"
    /\ answer' = [answer EXCEPT ![w][s] = Verdict(state[s])]
    /\ UNCHANGED <<handles, task, slot, sets, unseen, reader, gate, raced>>

(* rx.changed() marks the value it has noticed as seen ...                 *)
Changed(w, s) ==
    /\ answer[w][s] = "waiting" /\ s \in unseen[w]
    /\ unseen' = [unseen EXCEPT ![w] = @ \ {s}]
    /\ answer' = [answer EXCEPT ![w][s] = "woken"]
    /\ UNCHANGED <<handles, task, slot, sets, reader, gate, raced>>

(* ... and rx.borrow() reads the state, which may be a later one by now.   *)
(* A future that returns drops its receiver.                               *)
Look(w, s) ==
    /\ answer[w][s] = "woken"
    /\ answer' = [answer EXCEPT ![w][s] = Verdict(state[s])]
    /\ unseen' = [unseen EXCEPT ![w] =
          IF Verdict(state[s]) = "waiting" THEN @ ELSE @ \ {s}]
    /\ UNCHANGED <<handles, task, slot, sets, reader, gate, raced>>

Deadline(w, s) ==
    /\ answer[w][s] = "waiting"
    /\ answer' = [answer EXCEPT ![w][s] = "timeout"]
    /\ unseen' = [unseen EXCEPT ![w] = @ \ {s}]
    /\ UNCHANGED <<handles, task, slot, sets, reader, gate, raced>>

-----------------------------------------------------------------------------
(* BackendSlot::require: the state, then the read lock.                    *)

RequireReady(s) ==
    /\ reader = None /\ IsReady(state[s])
    /\ reader' = s
    /\ UNCHANGED <<handles, task, slot, sets, waiting, gate, raced>>

RequireLock ==
    /\ reader # None
    /\ reader' = None
    /\ UNCHANGED <<handles, task, slot, sets, waiting, gate, raced>>

(* ServiceAwareRegistry::call: one service after the other, then the inner *)
(* registry, if every one was available when it was looked at.             *)
StartCall ==
    /\ call.pc # "checking" /\ calls < MaxCalls
    /\ call' = [pc |-> "checking", checked |-> 0] /\ calls' = calls + 1
    /\ UNCHANGED <<handles, task, slot, sets, waiting, reader, raced>>

CheckService ==
    /\ call.pc = "checking" /\ call.checked < Len(Gate)
    /\ call' = IF IsAvailable(state[Gate[call.checked + 1]])
               THEN [call EXCEPT !.checked = @ + 1]
               ELSE [call EXCEPT !.pc = "unavailable"]
    /\ UNCHANGED <<handles, task, slot, sets, waiting, reader, calls, raced>>

Delegate ==
    /\ call.pc = "checking" /\ call.checked = Len(Gate)
    /\ call' = [call EXCEPT !.pc = "delegated"]
    /\ UNCHANGED <<handles, task, slot, sets, waiting, reader, calls, raced>>

-----------------------------------------------------------------------------
TaskStep(s) ==
    \/ Attempt(s)
    \/ Fill(s)
    \/ InitOk(s)
    \/ InitFails(s)
    \/ WakeTask(s)
    \/ Publish(s, "task")
OwnerStep(s) ==
    \/ \E st \in OwnerStates : OwnerSets(s, st)
    \/ Publish(s, "owner")
Poll(w, s) ==
    \/ FirstLook(w, s)
    \/ Changed(w, s)
    \/ Look(w, s)
ServiceStep ==
    \/ \E s \in Service : TaskStep(s)
    \/ \E s \in Service : OwnerStep(s)
WaitStep ==
    \/ \E w \in Waiters : StartWait(w)
    \/ \E w \in Waiters, s \in Service : Poll(w, s) \/ Deadline(w, s)
RequireStep ==
    \/ \E s \in Service : RequireReady(s)
    \/ RequireLock
CallStep ==
    \/ StartCall
    \/ CheckService
    \/ Delegate
Next == ServiceStep \/ WaitStep \/ RequireStep \/ CallStep

(* The executor runs a task that can go on and polls a future that was     *)
(* woken; an init_fn returns; a set_state that has begun ends.  Nothing    *)
(* makes a deadline pass, an application call or a client ask.             *)
Fairness ==
    /\ \A s \in Service : WF_vars(TaskStep(s)) /\ WF_vars(Publish(s, "owner"))
    /\ \A w \in Waiters, s \in Service : WF_vars(Poll(w, s))
Spec == Init /\ [][Next]_vars /\ Fairness

(***************************************************************************)
(* Properties                                                              *)
(***************************************************************************)
Count(seq, st) == Cardinality({i \in 1..Len(seq) : seq[i] = st})

(* When wait_all_ready returns Ok, every service's slot holds its backend: *)
(* no order of set(), set_state() and the waiting futures tells a caller   *)
(* that all is ready before it is.                                         *)
WaitedForBackends ==
    \A w \in Waiters :
        (\A s \in Service : answer[w][s] = "ready") => \A s \in Service : slot[s]

(* A tool call that ServiceAwareRegistry lets through finds the backends   *)
(* of all its services, though they were checked one after the other and   *)
(* may have changed since.                                                 *)
ToolsFindBackends ==
    call.pc = "delegated" => \A i \in 1..Len(Gate) : slot[Gate[i]]

(* The guard require() returns is on a filled slot, as slot.rs promises of *)
(* a Ready service, though state and slot are read apart.                  *)
RequireSeesBackend == reader # None => slot[reader]

(* Whoever is told that a service can be used finds its backend.           *)
BackendsAreThere == WaitedForBackends /\ ToolsFindBackends /\ RequireSeesBackend

(* The audit trail ends with the state the service is in, at any moment    *)
(* without a set_state under way, if two of them never met.                *)
TrailTellsState ==
    \A s \in Service :
        s \notin raced /\ Pending(s) = {} => trail[s][Len(trail[s])] = state[s]

(* A service is given up, and its waiters told that it failed, only after  *)
(* all its attempts, each of them announced.                               *)
AllAttemptsMade ==
    \A s \in Service :
        state[s] = "Failed" => Count(trail[s], "Starting") = MaxAttempts[s]

(* No future that waits misses the news: while a service stays ready or    *)
(* failed, no wait for it can go on.                                       *)
WaitersLearn ==
    \A w \in Waiters, s \in Service :
        ~<>[](/\ state[s] \in {"Ready", "Failed"}
              /\ answer[w][s] \in {"fresh", "waiting", "woken"})

(* No service is left starting: its task tells Ready or Failed in the end. *)
StartingEnds == \A s \in Service : ~<>[](state[s] = "Starting")

=============================================================================
