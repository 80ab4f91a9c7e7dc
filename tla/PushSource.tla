------------------------------ MODULE PushSource ------------------------------
(***************************************************************************)
(* Push sources: the webhook adapter (ecl-adapter-zapier) and the receive  *)
(* loop of the runner (run_push_sources in ecl-pipeline/src/runner.rs).    *)
(*                                                                         *)
(* Each adapter runs an HTTP server that puts every accepted request into  *)
(* a bounded channel.  The runner receives from the channels, registers    *)
(* the documents and executes the stages, until a shutdown is signalled or *)
(* every channel is closed; then it shuts the adapters down.  What run()   *)
(* does before and after the loop is in PipelineRunner.                    *)
(***************************************************************************)
EXTENDS Naturals, Sequences

CONSTANTS
    PushOrder,      \* the push sources, in the order of the topology's map
    Requests,       \* webhook requests that pass authentication and parsing
    Capacity,       \* channel_capacity
    BatchLimit,     \* 100 in the code
    SelfClosing,    \* sources whose channel may close; no ZapierAdapter is
                    \* one, since the adapter keeps a sender for itself
    MaxClock        \* bound: the clock shows 1..MaxClock milliseconds

Sources == {PushOrder[i] : i \in 1..Len(PushOrder)}
Ids == 1..MaxClock

ASSUME PushAssumption ==
    /\ PushOrder \in Seq(Sources)
    /\ \A i, j \in 1..Len(PushOrder) : PushOrder[i] = PushOrder[j] => i = j
    /\ Capacity \in Nat \ {0} /\ BatchLimit \in Nat \ {0}
    /\ SelfClosing \subseteq Sources
    /\ MaxClock \in Nat \ {0}

VARIABLES
    (* the world *)
    now,        \* chrono::Utc::now() in milliseconds
    reply,      \* the status each request was answered with
    (* the adapters *)
    server,     \* the HTTP server of each source
    chan,       \* the bounded channel of each source
    open,       \* whether some sender of the channel is alive
    (* the runner *)
    phase,      \* where run_push_sources is
    permit,     \* a stored notification of the shutdown Notify
    signalled,  \* shutdown_signalled
    batch,      \* the documents received in this round
    items,      \* the documents with an ItemState, one for an id
    pool,       \* requests with an item in active_items
    stopped,    \* number of adapters shut down
    (* history *)
    accepted,   \* documents of requests answered 200, in order, by source
    taken,      \* documents received from the channel, in order, by source
    executed,   \* requests given to a stage
    before      \* number of requests accepted when shutdown was first asked

world == <<now, reply>>
adapters == <<server, chan, open>>
runner == <<phase, permit, signalled, batch, items, pool, stopped>>
history == <<accepted, taken, executed, before>>
pushVars == <<world, adapters, runner, history>>

(* An ExtractedDocument on its way: the request it came from and its id.   *)
Doc == [req: Requests, id: Ids]
Received == [src: Sources, req: Requests, id: Ids]

PushInit ==
    /\ now = 1
    /\ reply = [r \in Requests |-> "none"]
    /\ server = [n \in Sources |-> "off"]
    /\ chan = [n \in Sources |-> <<>>]
    /\ open = [n \in Sources |-> TRUE]
    /\ phase = "start"
    /\ permit = FALSE /\ signalled = FALSE
    /\ batch = <<>>
    /\ items = [n \in Sources |-> {}]
    /\ pool = {}
    /\ stopped = 0
    /\ accepted = [n \in Sources |-> <<>>]
    /\ taken = [n \in Sources |-> <<>>]
    /\ executed = {}
    /\ before = [n \in Sources |-> 0]

-----------------------------------------------------------------------------
(* The world.                                                              *)

TimePasses ==
    /\ now < MaxClock
    /\ now' = now + 1
    /\ UNCHANGED <<reply, adapters, runner, history>>

(* shutdown_handle().notify_one(): one permit is stored.                   *)
RequestShutdown ==
    /\ ~permit /\ ~signalled
    /\ permit' = TRUE
    /\ before' = [n \in Sources |-> Len(accepted[n])]
    /\ UNCHANGED <<world, adapters, phase, signalled, batch, items, pool, stopped,
                   accepted, taken, executed>>

(* The receivers live as long as run_push_sources.                         *)
ReceiverAlive == phase \notin {"done", "failed"}

-----------------------------------------------------------------------------
(* The adapters.                                                           *)

(* webhook_handler: the id is the time of the request, try_send never      *)
(* waits.  A client told to slow down sends its request again.             *)
MutNoBackpressure(n, r) ==
    /\ server[n] = "up" /\ reply[r] \in {"none", "busy"} /\ ReceiverAlive
    /\ reply' = [reply EXCEPT ![r] = "ok"]
    /\ chan' = [chan EXCEPT ![n] = Append(@, [req |-> r, id |-> now])]
    /\ accepted' = [accepted EXCEPT ![n] = Append(@, [req |-> r, id |-> now])]
    /\ UNCHANGED <<now, server, open, runner, taken, executed, before>>
Webhook(n, r) ==
    /\ server[n] = "up"
    /\ reply[r] \in {"none", "busy"}
    /\ \/ /\ ~ReceiverAlive
          /\ reply' = [reply EXCEPT ![r] = "error"]
          /\ UNCHANGED <<chan, accepted>>
       \/ /\ ReceiverAlive /\ Len(chan[n]) = Capacity
          /\ reply' = [reply EXCEPT ![r] = "busy"]
          /\ UNCHANGED <<chan, accepted>>
       \/ /\ ReceiverAlive /\ Len(chan[n]) < Capacity
          /\ reply' = [reply EXCEPT ![r] = "ok"]
          /\ chan' = [chan EXCEPT ![n] = Append(@, [req |-> r, id |-> now])]
          /\ accepted' = [accepted EXCEPT ![n] = Append(@, [req |-> r, id |-> now])]
    /\ UNCHANGED <<now, server, open, runner, taken, executed, before>>

(* run_server returns by itself: the address cannot be bound, or accepting *)
(* fails.  Nobody looks at its handle before the shutdown.                 *)
ServerFails(n) ==
    /\ server[n] = "up"
    /\ server' = [server EXCEPT ![n] = "down"]
    /\ UNCHANGED <<world, chan, open, runner, history>>

CloseChannel(n) ==
    /\ n \in SelfClosing /\ open[n]
    /\ server[n] = "down"
    /\ open' = [open EXCEPT ![n] = FALSE]
    /\ UNCHANGED <<world, server, chan, runner, history>>

-----------------------------------------------------------------------------
(* The runner.                                                             *)

(* start() of every adapter in turn; one may fail, for want of its secret. *)
StartSources ==
    /\ phase = "start"
    /\ \E k \in 0..Len(PushOrder) :
          /\ server' = [n \in Sources |->
                          IF \E i \in 1..k : PushOrder[i] = n THEN "up" ELSE "off"]
          /\ phase' = IF k = Len(PushOrder) THEN "select" ELSE "failed"
    /\ UNCHANGED <<world, chan, open, permit, signalled, batch, items, pool, stopped,
                   history>>

(* The first receiver that is not closed and empty is the one awaited.     *)
Exhausted(n) == chan[n] = <<>> /\ ~open[n]
Awaited(i) ==
    /\ ~Exhausted(PushOrder[i])
    /\ \A j \in 1..i - 1 : Exhausted(PushOrder[j])

Tagged(n, docs) ==
    [k \in 1..Len(docs) |-> [src |-> n, req |-> docs[k].req, id |-> docs[k].id]]

(* The branch of select! that receives: one document, and what else is     *)
(* ready in the same channel.                                              *)
MutReceiveDropsRest(n) ==
    LET taking == SubSeq(chan[n], 1, 1)
    IN  /\ batch' = Tagged(n, taking)
        /\ chan' = [chan EXCEPT ![n] = <<>>]
        /\ taken' = [taken EXCEPT ![n] = @ \o taking]
TakeFrom(n) ==
    LET ready == Len(chan[n])
        count == IF ready < BatchLimit THEN ready ELSE BatchLimit
        taking == SubSeq(chan[n], 1, count)
    IN  /\ batch' = Tagged(n, taking)
        /\ chan' = [chan EXCEPT ![n] = SubSeq(@, count + 1, ready)]
        /\ taken' = [taken EXCEPT ![n] = @ \o taking]

Receive ==
    /\ phase = "select"
    /\ \E i \in 1..Len(PushOrder) :
          /\ Awaited(i)
          /\ chan[PushOrder[i]] # <<>>
          /\ TakeFrom(PushOrder[i])
    /\ phase' = "register"
    /\ UNCHANGED <<world, server, open, permit, signalled, items, pool, stopped,
                   accepted, executed, before>>

(* All channels are closed: the batch is empty and the loop ends.          *)
AllClosed ==
    /\ phase = "select"
    /\ \A n \in Sources : Exhausted(n)
    /\ phase' = "stop"
    /\ UNCHANGED <<world, adapters, permit, signalled, batch, items, pool, stopped,
                   history>>

(* The branch that takes the shutdown signal drains every channel.         *)
MutDrainFirst ==
    /\ batch' = Tagged(PushOrder[1], chan[PushOrder[1]])
    /\ chan' = [chan EXCEPT ![PushOrder[1]] = <<>>]
    /\ taken' = [taken EXCEPT ![PushOrder[1]] = @ \o chan[PushOrder[1]]]
Drain ==
    LET upTo[k \in 0..Len(PushOrder)] ==
          IF k = 0 THEN <<>>
          ELSE upTo[k - 1] \o Tagged(PushOrder[k], chan[PushOrder[k]])
    IN  /\ batch' = upTo[Len(PushOrder)]
        /\ chan' = [n \in Sources |-> <<>>]
        /\ taken' = [n \in Sources |-> taken[n] \o chan[n]]

(* Where the loop goes with the batch of the drain.                        *)
MutBreakOnSignal(docs) == "stop"
AfterDrain(docs) == IF docs = <<>> THEN "stop" ELSE "register"

TakeSignal ==
    /\ phase = "select"
    /\ permit /\ ~signalled
    /\ permit' = FALSE /\ signalled' = TRUE
    /\ Drain
    /\ phase' = AfterDrain(batch')
    /\ UNCHANGED <<world, server, open, items, pool, stopped,
                   accepted, executed, before>>

(* An ItemState for every document, under its id.                          *)
RegisterBatch ==
    /\ phase = "register"
    /\ items' = [n \in Sources |->
                   LET docs == {k \in 1..Len(batch) : batch[k].src = n}
                       ids == {batch[k].id : k \in docs}
                       kept == {k \in docs :
                                  \A l \in docs : batch[l].id = batch[k].id => l <= k}
                   IN  {e \in items[n] : e.id \notin ids}
                         \cup {[req |-> batch[k].req, id |-> batch[k].id] : k \in kept}]
    /\ phase' = "execute"
    /\ UNCHANGED <<world, adapters, permit, signalled, batch, pool, stopped, history>>

(* Every batch of the schedule over active_items, and a checkpoint; an     *)
(* item's failure or a store error ends run_push_sources.                  *)
MutLoopAgain == "select"
AfterBatch == IF signalled THEN "stop" ELSE "select"

ExecuteBatches ==
    /\ phase = "execute"
    /\ executed' = executed \cup pool
    /\ batch' = <<>>
    /\ phase' \in {AfterBatch, "failed"}
    /\ UNCHANGED <<world, adapters, permit, signalled, items, pool, stopped,
                   accepted, taken, before>>

(* shutdown() of one adapter after the other: it waits for the server.     *)
ShutDownAdapter ==
    /\ phase = "stop"
    /\ stopped < Len(PushOrder)
    /\ server' = [server EXCEPT ![PushOrder[stopped + 1]] = "down"]
    /\ stopped' = stopped + 1
    /\ UNCHANGED <<world, chan, open, phase, permit, signalled, batch, items, pool,
                   history>>

Finish ==
    /\ phase = "stop"
    /\ stopped = Len(PushOrder)
    /\ phase' = "done"
    /\ UNCHANGED <<world, adapters, permit, signalled, batch, items, pool, stopped,
                   history>>

-----------------------------------------------------------------------------
RunnerStep ==
    \/ StartSources
    \/ Receive \/ AllClosed \/ TakeSignal
    \/ RegisterBatch \/ ExecuteBatches
    \/ ShutDownAdapter \/ Finish

PushStep ==
    \/ RunnerStep
    \/ \E n \in Sources, r \in Requests : Webhook(n, r)
    \/ \E n \in Sources : ServerFails(n) \/ CloseChannel(n)
    \/ RequestShutdown
    \/ TimePasses

(* The runtime polls the runner.  Clients, servers and the person who asks *)
(* for a shutdown owe nothing.                                             *)
PushSpec == PushInit /\ [][PushStep]_pushVars /\ WF_pushVars(RunnerStep)

-----------------------------------------------------------------------------
(* Properties.                                                             *)

(* Every variable holds a value of its type.                               *)
PushTypeOK ==
    /\ now \in Ids
    /\ reply \in [Requests -> {"none", "ok", "busy", "error"}]
    /\ server \in [Sources -> {"off", "up", "down"}]
    /\ \A n \in Sources : chan[n] \in Seq(Doc) /\ Len(chan[n]) <= Capacity
    /\ open \in [Sources -> BOOLEAN]
    /\ phase \in {"start", "select", "register", "execute", "stop", "done", "failed"}
    /\ permit \in BOOLEAN /\ signalled \in BOOLEAN
    /\ batch \in Seq(Received)
    /\ items \in [Sources -> SUBSET Doc]
    /\ pool \subseteq Requests /\ executed \subseteq Requests
    /\ stopped \in 0..Len(PushOrder)
    /\ accepted \in [Sources -> Seq(Doc)]
    /\ taken \in [Sources -> Seq(Doc)]
    /\ before \in [Sources -> Nat]

(* A document whose sender was told 200 is in its channel until the runner *)
(* takes it, in the order of arrival: no round of the loop, drain          *)
(* included, drops or overtakes one (runner.rs:626-666).                   *)
AcceptedInOrder ==
    \A n \in Sources : accepted[n] = taken[n] \o chan[n]

(* What the runner took is registered before the loop goes on or ends: the *)
(* item states are those of the documents taken, the last one where two    *)
(* have one id (runner.rs:669-685).                                        *)
TakenIsRegistered ==
    phase \in {"select", "stop", "done"} =>
       \A n \in Sources :
          items[n] = {taken[n][k] : k \in
                        {k \in 1..Len(taken[n]) : \A l \in k + 1..Len(taken[n]) :
                                                    taken[n][l].id # taken[n][k].id}}

(* Everything acknowledged before the shutdown was asked for is taken      *)
(* before the loop ends, whichever branch select! picks (runner.rs:631).   *)
DrainedOnShutdown ==
    phase = "done" => \A n \in Sources : Len(taken[n]) >= before[n]

(* A shutdown ends the loop, even if it is asked for while a batch is      *)
(* being executed (runner.rs:697).                                         *)
ShutdownEnds == permit ~> (phase \in {"done", "failed"})

-----------------------------------------------------------------------------
(* What the repository says and the code does not do.                      *)

(* "feeds them through the stage pipeline" (runner.rs:598).  A document    *)
(* that is registered never enters active_items.                           *)
PushedDocumentsAreStaged ==
    phase \in {"stop", "done"} =>
       \A n \in Sources : \A e \in items[n] : e.req \in executed

=============================================================================
