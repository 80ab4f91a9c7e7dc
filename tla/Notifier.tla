-------------------------------- MODULE Notifier --------------------------------
(***************************************************************************)
(* Notifications to the clients of a server (fabryk-mcp-core: notifier.rs):*)
(* all clients, or those that subscribed to the resource, are told one     *)
(* after the other, and those that cannot be told any more are dropped.    *)
(* One resource; a client sends one subscription at a time.                *)
(***************************************************************************)
EXTENDS Naturals, Sequences, FiniteSets

CONSTANTS
    Peers,          \* clients that may connect
    Senders,        \* tasks that notify
    MaxSubscribed,  \* bound on the subscriptions at a time
    MaxSends        \* bound on the calls

Nobody == "nobody"

ASSUME NotifierAssumption ==
    MaxSubscribed \in Nat /\ MaxSends \in Nat /\ Nobody \notin Senders

VARIABLES
    conn,           \* whether a client is connected
    peers,          \* Notifier::peers
    subscribers,    \* Notifier::subscriptions of the resource, <<>> if it has no entry
    wanted,         \* history: how often a client subscribed since all were removed
    held,           \* who holds the write lock of peers, and of subscriptions
    send,           \* where each notifying call is
    sends           \* number of calls so far

notifierVars == <<conn, peers, subscribers, wanted, held, send, sends>>

IdleSend == [pc |-> "idle", list |-> <<>>, at |-> 0, failed |-> {}]
Send == [pc: {"idle", "tell", "prune_lock", "prune", "lock", "broadcast"},
         list: Seq(Peers), at: Nat, failed: SUBSET Nat]
Locks == {"peers", "subscriptions"}

In(p, list) == \E i \in 1..Len(list) : list[i] = p
Times(p, list) == Cardinality({i \in 1..Len(list) : list[i] = p})

NotifierInit ==
    /\ conn = [p \in Peers |-> "new"]
    /\ peers = <<>> /\ subscribers = <<>>
    /\ wanted = [p \in Peers |-> 0]
    /\ held = [l \in Locks |-> Nobody]
    /\ send = [s \in Senders |-> IdleSend]
    /\ sends = 0

Free(l) == held[l] = Nobody

(* on_initialized: the client is added once.                               *)
AddPeer(p) ==
    /\ conn[p] = "new" /\ Free("peers")
    /\ conn' = [conn EXCEPT ![p] = "up"]
    /\ peers' = Append(peers, p)
    /\ UNCHANGED <<subscribers, wanted, held, send, sends>>

Disconnect(p) ==
    /\ conn[p] = "up"
    /\ conn' = [conn EXCEPT ![p] = "down"]
    /\ UNCHANGED <<peers, subscribers, wanted, held, send, sends>>

(* A second subscription of the same client is a second entry.             *)
SubscribeResource(p) ==
    /\ conn[p] = "up" /\ Free("subscriptions")
    /\ Len(subscribers) < MaxSubscribed
    /\ subscribers' = Append(subscribers, p)
    /\ wanted' = [wanted EXCEPT ![p] = @ + 1]
    /\ UNCHANGED <<conn, peers, held, send, sends>>

(* Whoever unsubscribes removes everybody.                                 *)
UnsubscribeResource ==
    /\ subscribers # <<>> /\ Free("subscriptions")
    /\ subscribers' = <<>>
    /\ wanted' = [p \in Peers |-> 0]
    /\ UNCHANGED <<conn, peers, held, send, sends>>

(* resource_updated takes a copy of the subscribers, if there are any.     *)
ResourceUpdated(s) ==
    /\ send[s].pc = "idle" /\ sends < MaxSends /\ Free("subscriptions")
    /\ send' = [send EXCEPT ![s] =
         IF subscribers # <<>>
         THEN [IdleSend EXCEPT !.pc = "tell", !.list = subscribers, !.at = 1]
         ELSE [IdleSend EXCEPT !.pc = "lock"]]
    /\ sends' = sends + 1
    /\ UNCHANGED <<conn, peers, subscribers, wanted, held>>

(* log and resource_list_changed are for everybody.                        *)
Log(s) ==
    /\ send[s].pc = "idle" /\ sends < MaxSends
    /\ send' = [send EXCEPT ![s] = [IdleSend EXCEPT !.pc = "lock"]]
    /\ sends' = sends + 1
    /\ UNCHANGED <<conn, peers, subscribers, wanted, held>>

(* A notification fails if the connection of the client is gone.           *)
Fails(p) == conn[p] # "up"

TellSubscriber(s) ==
    /\ send[s].pc = "tell" /\ send[s].at <= Len(send[s].list)
    /\ send' = [send EXCEPT ![s] =
         [send[s] EXCEPT !.at = send[s].at + 1,
                         !.failed = IF Fails(send[s].list[send[s].at])
                                    THEN send[s].failed \cup {send[s].at}
                                    ELSE send[s].failed]]
    /\ UNCHANGED <<conn, peers, subscribers, wanted, held, sends>>

SubscribersTold(s) ==
    /\ send[s].pc = "tell" /\ send[s].at > Len(send[s].list)
    /\ send' = [send EXCEPT ![s] =
         IF send[s].failed = {} THEN IdleSend ELSE [IdleSend EXCEPT !.pc = "prune_lock"]]
    /\ UNCHANGED <<conn, peers, subscribers, wanted, held, sends>>

(* With a failure, the subscribers of now are told again, under the lock.  *)
StartPrune(s) ==
    /\ send[s].pc = "prune_lock" /\ Free("subscriptions")
    /\ held' = [held EXCEPT !["subscriptions"] = s]
    /\ send' = [send EXCEPT ![s] = [IdleSend EXCEPT !.pc = "prune", !.at = 1]]
    /\ UNCHANGED <<conn, peers, subscribers, wanted, sends>>

(* Vec::swap_remove: the last entry takes the place of the i-th.           *)
SwapRemove(list, i) ==
    LET n == Len(list)
    IN  [k \in 1..(n - 1) |-> IF k = i THEN list[n] ELSE list[k]]

MutKeepsDead(s) ==
    /\ send[s].pc = "prune" /\ send[s].at <= Len(subscribers)
    /\ send' = [send EXCEPT ![s].at = IF Fails(subscribers[@]) THEN @ ELSE @ + 1]
    /\ UNCHANGED <<conn, peers, subscribers, wanted, held, sends>>
MutPruneNext(s) ==
    /\ send[s].pc = "prune" /\ send[s].at <= Len(subscribers)
    /\ send' = [send EXCEPT ![s].at = @ + 1]
    /\ subscribers' = IF Fails(subscribers[send[s].at])
                      THEN SubSeq(subscribers, 1, send[s].at - 1)
                      ELSE subscribers
    /\ UNCHANGED <<conn, peers, wanted, held, sends>>
PruneNext(s) ==
    /\ send[s].pc = "prune" /\ send[s].at <= Len(subscribers)
    /\ IF Fails(subscribers[send[s].at])
       THEN subscribers' = SwapRemove(subscribers, send[s].at) /\ UNCHANGED send
       ELSE send' = [send EXCEPT ![s].at = @ + 1] /\ UNCHANGED subscribers
    /\ UNCHANGED <<conn, peers, wanted, held, sends>>

EndPrune(s) ==
    /\ send[s].pc = "prune" /\ send[s].at > Len(subscribers)
    /\ held' = [held EXCEPT !["subscriptions"] = Nobody]
    /\ send' = [send EXCEPT ![s] = IdleSend]
    /\ UNCHANGED <<conn, peers, subscribers, wanted, sends>>

(* Everybody is told under the write lock of the peers.                    *)
StartBroadcast(s) ==
    /\ send[s].pc = "lock" /\ Free("peers")
    /\ held' = [held EXCEPT !["peers"] = s]
    /\ send' = [send EXCEPT ![s] = [IdleSend EXCEPT !.pc = "broadcast", !.at = 1]]
    /\ UNCHANGED <<conn, peers, subscribers, wanted, sends>>

TellPeer(s) ==
    /\ send[s].pc = "broadcast" /\ send[s].at <= Len(peers)
    /\ send' = [send EXCEPT ![s] =
         [send[s] EXCEPT !.at = send[s].at + 1,
                         !.failed = IF Fails(peers[send[s].at])
                                    THEN send[s].failed \cup {send[s].at}
                                    ELSE send[s].failed]]
    /\ UNCHANGED <<conn, peers, subscribers, wanted, held, sends>>

(* The failed indices are removed from the last to the first.              *)
Without(list, failed) ==
    LET downTo[n \in 1..(Len(list) + 1)] ==
          IF n = Len(list) + 1 THEN list
          ELSE IF n \in failed THEN SwapRemove(downTo[n + 1], n) ELSE downTo[n + 1]
    IN  downTo[1]

EndBroadcast(s) ==
    /\ send[s].pc = "broadcast" /\ send[s].at > Len(peers)
    /\ peers' = Without(peers, send[s].failed)
    /\ held' = [held EXCEPT !["peers"] = Nobody]
    /\ send' = [send EXCEPT ![s] = IdleSend]
    /\ UNCHANGED <<conn, subscribers, wanted, sends>>

SenderStep(s) ==
    \/ TellSubscriber(s) \/ SubscribersTold(s) \/ StartPrune(s) \/ PruneNext(s)
    \/ EndPrune(s) \/ StartBroadcast(s) \/ TellPeer(s) \/ EndBroadcast(s)
NotifierStep ==
    \/ \E p \in Peers : AddPeer(p) \/ Disconnect(p) \/ SubscribeResource(p)
    \/ UnsubscribeResource
    \/ \E s \in Senders : ResourceUpdated(s) \/ Log(s) \/ SenderStep(s)
NotifierFairness == \A s \in Senders : SF_notifierVars(SenderStep(s))
NotifierSpec == NotifierInit /\ [][NotifierStep]_notifierVars /\ NotifierFairness
-----------------------------------------------------------------------------
NotifierTypeOK ==
    /\ conn \in [Peers -> {"new", "up", "down"}]
    /\ peers \in Seq(Peers) /\ subscribers \in Seq(Peers)
    /\ wanted \in [Peers -> Nat]
    /\ held \in [Locks -> {Nobody} \cup Senders]
    /\ send \in [Senders -> Send]
    /\ sends \in 0..MaxSends

(* Whatever is dropped while others connect, subscribe and notify: a       *)
(* client that is connected is in the list of peers once, and keeps every  *)
(* subscription it made since the last unsubscription of anybody.          *)
LivePeersKept ==
    \A p \in Peers :
        conn[p] = "up" => /\ Times(p, peers) = 1
                          /\ Times(p, subscribers) = wanted[p]

(* Every call returns, if every notification does: no order of the two     *)
(* locks makes callers wait for each other.                                *)
NotifyReturns == \A s \in Senders : []<>(send[s].pc = "idle")
=============================================================================
