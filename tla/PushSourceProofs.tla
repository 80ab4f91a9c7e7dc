---------------------------- MODULE PushSourceProofs ----------------------------
(***************************************************************************)
(* What is acknowledged is not lost and what is taken is registered, for   *)
(* any sources, requests, capacity and batch limit: theorems about the     *)
(* channels of PushSource and the loop that empties them.                  *)
(***************************************************************************)
EXTENDS PushSource, Iteration, SequenceTheorems, TLAPS

ChannelTypeOK ==
    /\ now \in Ids
    /\ chan \in [Sources -> Seq(Doc)]
    /\ accepted \in [Sources -> Seq(Doc)]
    /\ taken \in [Sources -> Seq(Doc)]
    /\ server \in [Sources -> {"off", "up", "down"}]
    /\ open \in [Sources -> BOOLEAN]
    /\ before \in [Sources -> Nat]

(* A channel closes only after its server, and no server runs before the   *)
(* loop does.                                                              *)
ClosedIsDown ==
    /\ \A n \in Sources : ~open[n] => server[n] = "down"
    /\ phase = "start" => \A n \in Sources : server[n] = "off"

(* A loop that ends without a signal has seen every channel closed.        *)
StoppedIsEmpty ==
    phase \in {"stop", "done"} /\ ~signalled =>
        \A n \in Sources : chan[n] = <<>> /\ ~open[n]

(* What the shutdown found accepted was accepted, and has been taken when  *)
(* the signal has.                                                         *)
BeforeOK ==
    /\ \A n \in Sources : before[n] <= Len(accepted[n])
    /\ signalled => \A n \in Sources : before[n] <= Len(taken[n])

PushInv ==
    ChannelTypeOK /\ AcceptedInOrder /\ ClosedIsDown /\ StoppedIsEmpty /\ BeforeOK

LEMMA PushInitOK == ASSUME PushInit PROVE PushInv
<1>1. ChannelTypeOK
  BY PushAssumption DEF PushInit, ChannelTypeOK, Ids
<1>2. AcceptedInOrder
  BY DEF PushInit, AcceptedInOrder
<1>3. ClosedIsDown /\ StoppedIsEmpty /\ BeforeOK
  BY DEF PushInit, ClosedIsDown, StoppedIsEmpty, BeforeOK
<1> QED BY <1>1, <1>2, <1>3 DEF PushInv

(* Steps that leave the channels and what went through them alone.         *)
LEMMA ChannelFrame ==
    ASSUME PushInv, now' \in Ids, chan' = chan, accepted' = accepted, taken' = taken,
           server' \in [Sources -> {"off", "up", "down"}],
           open' \in [Sources -> BOOLEAN], before' = before, signalled' = signalled,
           ClosedIsDown', StoppedIsEmpty'
    PROVE  PushInv'
BY DEF PushInv, ChannelTypeOK, AcceptedInOrder, BeforeOK

LEMMA DocsAssociative ==
    \A s, t, u \in Seq(Doc) : (s \o t) \o u = s \o (t \o u)
BY ConcatAssociative

LEMMA WebhookOK ==
    ASSUME PushInv, NEW n \in Sources, NEW r \in Requests, Webhook(n, r)
    PROVE  PushInv'
<1> DEFINE doc == [req |-> r, id |-> now]
<1>1. /\ now' = now /\ server' = server /\ open' = open /\ taken' = taken
      /\ before' = before /\ signalled' = signalled /\ phase' = phase
      /\ server[n] = "up"
  BY DEF Webhook, runner
<1>2. CASE chan' = chan /\ accepted' = accepted
  BY <1>1, <1>2 DEF PushInv, ChannelTypeOK, AcceptedInOrder, ClosedIsDown,
     StoppedIsEmpty, BeforeOK
<1>3. CASE /\ ReceiverAlive
           /\ chan' = [chan EXCEPT ![n] = Append(chan[n], doc)]
           /\ accepted' = [accepted EXCEPT ![n] = Append(accepted[n], doc)]
  <2>1. doc \in Doc
    BY DEF PushInv, ChannelTypeOK, Doc
  <2> HIDE DEF doc
  <2>2. \A m \in Sources : chan[m] \in Seq(Doc) /\ accepted[m] \in Seq(Doc) /\ taken[m] \in Seq(Doc)
    BY DEF PushInv, ChannelTypeOK
  <2>3. Append(chan[n], doc) \in Seq(Doc) /\ Append(accepted[n], doc) \in Seq(Doc)
    BY <2>1, <2>2
  <2>4. ChannelTypeOK'
    BY <1>1, <1>3, <2>3 DEF PushInv, ChannelTypeOK
  <2>5. \A m \in Sources : m # n => chan'[m] = chan[m] /\ accepted'[m] = accepted[m]
    BY <1>3 DEF PushInv, ChannelTypeOK
  <2>6. chan'[n] = Append(chan[n], doc) /\ accepted'[n] = Append(accepted[n], doc)
    BY <1>3 DEF PushInv, ChannelTypeOK
  <2>7. AcceptedInOrder'
    <3>1. Append(taken[n] \o chan[n], doc) = taken[n] \o Append(chan[n], doc)
      <4>1. <<doc>> \in Seq(Doc) /\ taken[n] \o chan[n] \in Seq(Doc)
        BY <2>1, <2>2, ConcatProperties
      <4>2. /\ Append(taken[n] \o chan[n], doc) = (taken[n] \o chan[n]) \o <<doc>>
            /\ Append(chan[n], doc) = chan[n] \o <<doc>>
        BY <2>1, <2>2, <4>1, AppendIsConcat
      <4>3. (taken[n] \o chan[n]) \o <<doc>> = taken[n] \o (chan[n] \o <<doc>>)
        <5>1. taken[n] \in Seq(Doc) /\ chan[n] \in Seq(Doc) /\ <<doc>> \in Seq(Doc)
          BY <2>2, <4>1
        <5> QED BY ONLY <5>1, DocsAssociative
      <4> QED BY <4>2, <4>3
    <3>2. accepted'[n] = taken'[n] \o chan'[n]
      BY <1>1, <2>6, <3>1 DEF PushInv, AcceptedInOrder
    <3> QED BY <1>1, <2>5, <3>2 DEF PushInv, AcceptedInOrder
  <2>8. ClosedIsDown'
    BY <1>1 DEF PushInv, ClosedIsDown
  <2>9. StoppedIsEmpty'
    <3>1. ~(phase \in {"stop", "done"} /\ ~signalled)
      BY <1>1 DEF PushInv, StoppedIsEmpty, ClosedIsDown
    <3> QED BY <1>1, <3>1 DEF StoppedIsEmpty
  <2>10. \A m \in Sources : Len(accepted[m]) <= Len(accepted'[m])
    <3>1. Len(accepted'[n]) = Len(accepted[n]) + 1 /\ Len(accepted[n]) \in Nat
      BY <2>1, <2>2, <2>6
    <3>2. \A m \in Sources : Len(accepted[m]) \in Nat
      BY <2>2
    <3> QED BY <2>5, <3>1, <3>2
  <2>11. BeforeOK'
    <3>1. \A m \in Sources : Len(accepted[m]) \in Nat /\ Len(accepted'[m]) \in Nat /\ before[m] \in Nat
      BY <2>4, <2>2 DEF PushInv, ChannelTypeOK
    <3> QED BY <1>1, <2>10, <3>1 DEF PushInv, BeforeOK
  <2> QED BY <2>4, <2>7, <2>8, <2>9, <2>11 DEF PushInv
<1> QED BY <1>2, <1>3 DEF Webhook

(* What is taken is the first part of the channel, and the rest stays.     *)
LEMMA TakingKeeps ==
    ASSUME NEW docs \in Seq(Doc), NEW count \in 0..Len(docs)
    PROVE  /\ SubSeq(docs, 1, count) \in Seq(Doc)
           /\ SubSeq(docs, count + 1, Len(docs)) \in Seq(Doc)
           /\ SubSeq(docs, 1, count) \o SubSeq(docs, count + 1, Len(docs)) = docs
<1>1. /\ Len(docs) \in Nat /\ 1 \in 1..(Len(docs) + 1) /\ count \in 0..Len(docs)
      /\ Len(docs) \in count..Len(docs) /\ count \in (1 - 1)..Len(docs)
  OBVIOUS
<1>2. SubSeq(docs, 1, count) \o SubSeq(docs, count + 1, Len(docs)) = SubSeq(docs, 1, Len(docs))
  BY <1>1, ConcatAdjacentSubSeq
<1>3. SubSeq(docs, 1, Len(docs)) = docs
  BY SubSeqFull
<1>4. /\ \A i \in 1..count : docs[i] \in Doc
      /\ \A i \in (count + 1)..Len(docs) : docs[i] \in Doc
      /\ 1 \in Int /\ count \in Int /\ count + 1 \in Int /\ Len(docs) \in Int
  OBVIOUS
<1>5. SubSeq(docs, 1, count) \in Seq(Doc) /\ SubSeq(docs, count + 1, Len(docs)) \in Seq(Doc)
  BY <1>4, SubSeqProperties
<1> QED BY <1>2, <1>3, <1>5

LEMMA ReceiveOK == ASSUME PushInv, Receive PROVE PushInv'
<1>1. /\ now' = now /\ server' = server /\ open' = open /\ accepted' = accepted
      /\ before' = before /\ signalled' = signalled /\ phase = "select" /\ phase' = "register"
  BY DEF Receive, world
<1>2. PICK i \in 1..Len(PushOrder) : TakeFrom(PushOrder[i])
  BY DEF Receive
<1> DEFINE n == PushOrder[i]
           count == IF Len(chan[n]) < BatchLimit THEN Len(chan[n]) ELSE BatchLimit
           taking == SubSeq(chan[n], 1, count)
           rest == SubSeq(chan[n], count + 1, Len(chan[n]))
<1>3. n \in Sources
  BY DEF Sources
<1>4. /\ chan' = [chan EXCEPT ![n] = rest]
      /\ taken' = [taken EXCEPT ![n] = taken[n] \o taking]
  BY <1>2 DEF TakeFrom
<1>5. \A m \in Sources : chan[m] \in Seq(Doc) /\ accepted[m] \in Seq(Doc) /\ taken[m] \in Seq(Doc)
  BY DEF PushInv, ChannelTypeOK
<1>6. count \in 0..Len(chan[n])
  BY <1>3, <1>5, PushAssumption
<1>7. taking \in Seq(Doc) /\ rest \in Seq(Doc) /\ taking \o rest = chan[n]
  BY <1>3, <1>5, <1>6, TakingKeeps
<1> HIDE DEF n, count, taking, rest
<1>8. taken[n] \o taking \in Seq(Doc) /\ Len(taken[n]) <= Len(taken[n] \o taking)
  <2>1. /\ taken[n] \o taking \in Seq(Doc)
        /\ Len(taken[n] \o taking) = Len(taken[n]) + Len(taking)
    BY <1>3, <1>5, <1>7, ConcatProperties
  <2>2. Len(taken[n]) \in Nat /\ Len(taking) \in Nat
    BY <1>3, <1>5, <1>7
  <2> QED BY <2>1, <2>2
<1>9. /\ chan'[n] = rest /\ taken'[n] = taken[n] \o taking
      /\ \A m \in Sources : m # n => chan'[m] = chan[m] /\ taken'[m] = taken[m]
  BY <1>3, <1>4 DEF PushInv, ChannelTypeOK
<1>10. ChannelTypeOK'
  BY <1>1, <1>4, <1>7, <1>8 DEF PushInv, ChannelTypeOK
<1>11. AcceptedInOrder'
  <2>1. (taken[n] \o taking) \o rest = taken[n] \o (taking \o rest)
    <3>1. taken[n] \in Seq(Doc) /\ taking \in Seq(Doc) /\ rest \in Seq(Doc)
      BY <1>3, <1>5, <1>7
    <3> QED BY ONLY <3>1, DocsAssociative
  <2>2. accepted'[n] = taken'[n] \o chan'[n]
    BY <1>1, <1>3, <1>7, <1>9, <2>1 DEF PushInv, AcceptedInOrder
  <2> QED BY <1>1, <1>9, <2>2 DEF PushInv, AcceptedInOrder
<1>12. \A m \in Sources : Len(taken[m]) <= Len(taken'[m])
  <2> TAKE m \in Sources
  <2>1. Len(taken[m]) \in Nat /\ Len(taken[m]) <= Len(taken[m])
    BY <1>5
  <2>2. CASE m = n
    BY <1>8, <1>9, <2>2
  <2>3. CASE m # n
    <3>1. taken'[m] = taken[m]
      BY <1>9, <2>3
    <3> QED BY <2>1, <3>1
  <2> QED BY <2>2, <2>3
<1>13. BeforeOK'
  <2>1. \A m \in Sources : Len(taken[m]) \in Nat /\ Len(taken'[m]) \in Nat /\ before[m] \in Nat
    BY <1>5, <1>10 DEF PushInv, ChannelTypeOK
  <2> QED BY <1>1, <1>12, <2>1 DEF PushInv, BeforeOK
<1>14. ClosedIsDown' /\ StoppedIsEmpty'
  BY <1>1 DEF PushInv, ClosedIsDown, StoppedIsEmpty
<1> QED BY <1>10, <1>11, <1>13, <1>14 DEF PushInv

LEMMA TakeSignalOK == ASSUME PushInv, TakeSignal PROVE PushInv'
<1>1. /\ now' = now /\ server' = server /\ open' = open /\ accepted' = accepted
      /\ before' = before /\ signalled' = TRUE /\ phase' \in {"stop", "register"}
      /\ chan' = [n \in Sources |-> <<>>]
      /\ taken' = [n \in Sources |-> taken[n] \o chan[n]]
  BY DEF TakeSignal, Drain, AfterDrain, world
<1>2. \A n \in Sources : chan[n] \in Seq(Doc) /\ taken[n] \in Seq(Doc)
  BY DEF PushInv, ChannelTypeOK
<1>3. \A n \in Sources : taken'[n] = accepted[n] /\ chan'[n] = <<>>
  BY <1>1 DEF PushInv, AcceptedInOrder
<1>4. chan' \in [Sources -> Seq(Doc)] /\ taken' \in [Sources -> Seq(Doc)]
  BY <1>1, <1>2
<1>5. ChannelTypeOK'
  BY <1>1, <1>4 DEF PushInv, ChannelTypeOK
<1>6. \A n \in Sources : accepted[n] \in Seq(Doc)
  BY DEF PushInv, ChannelTypeOK
<1>7. AcceptedInOrder'
  <2>1. \A n \in Sources : accepted[n] \o <<>> = accepted[n]
    BY <1>6, ConcatEmptySeq
  <2> QED BY <1>1, <1>3, <2>1 DEF AcceptedInOrder
<1>8. BeforeOK'
  BY <1>1, <1>3 DEF PushInv, BeforeOK
<1>9. ClosedIsDown' /\ StoppedIsEmpty'
  BY <1>1 DEF PushInv, ClosedIsDown, StoppedIsEmpty
<1> QED BY <1>5, <1>7, <1>8, <1>9 DEF PushInv

LEMMA RequestShutdownOK == ASSUME PushInv, RequestShutdown PROVE PushInv'
<1>1. /\ now' = now /\ server' = server /\ open' = open /\ accepted' = accepted
      /\ taken' = taken /\ chan' = chan /\ phase' = phase
      /\ signalled' = signalled /\ ~signalled
      /\ before' = [n \in Sources |-> Len(accepted[n])]
  BY DEF RequestShutdown, world, adapters
<1>2. \A n \in Sources : Len(accepted[n]) \in Nat
  BY DEF PushInv, ChannelTypeOK
<1>3. ChannelTypeOK'
  BY <1>1, <1>2 DEF PushInv, ChannelTypeOK
<1>4. BeforeOK'
  BY <1>1, <1>2 DEF BeforeOK
<1>5. AcceptedInOrder' /\ ClosedIsDown' /\ StoppedIsEmpty'
  BY <1>1 DEF PushInv, AcceptedInOrder, ClosedIsDown, StoppedIsEmpty
<1> QED BY <1>3, <1>4, <1>5 DEF PushInv

LEMMA PushStepKeeps == ASSUME PushInv, [PushStep]_pushVars PROVE PushInv'
<1>1. /\ ClosedIsDown /\ StoppedIsEmpty
      /\ server \in [Sources -> {"off", "up", "down"}] /\ open \in [Sources -> BOOLEAN]
      /\ now \in Ids
  BY DEF PushInv, ChannelTypeOK
<1>2. CASE StartSources
  <2>1. /\ now' = now /\ chan' = chan /\ accepted' = accepted /\ taken' = taken
        /\ open' = open /\ before' = before /\ signalled' = signalled
        /\ phase = "start" /\ phase' \in {"select", "failed"}
        /\ server' \in [Sources -> {"off", "up", "down"}]
    BY <1>2 DEF StartSources, world, history
  <2>2. ClosedIsDown' /\ StoppedIsEmpty'
    BY <1>1, <2>1 DEF ClosedIsDown, StoppedIsEmpty
  <2> QED BY <1>1, <2>1, <2>2, ChannelFrame
<1>3. CASE AllClosed
  <2>1. /\ now' = now /\ chan' = chan /\ accepted' = accepted /\ taken' = taken
        /\ open' = open /\ before' = before /\ signalled' = signalled /\ server' = server
        /\ phase' = "stop" /\ \A n \in Sources : chan[n] = <<>> /\ ~open[n]
    BY <1>3 DEF AllClosed, Exhausted, world, adapters, history
  <2>2. ClosedIsDown' /\ StoppedIsEmpty'
    BY <1>1, <2>1 DEF ClosedIsDown, StoppedIsEmpty
  <2> QED BY <1>1, <2>1, <2>2, ChannelFrame
<1>4. CASE RegisterBatch
  <2>1. /\ now' = now /\ chan' = chan /\ accepted' = accepted /\ taken' = taken
        /\ open' = open /\ before' = before /\ signalled' = signalled /\ server' = server
        /\ phase' = "execute"
    BY <1>4 DEF RegisterBatch, world, adapters, history
  <2>2. ClosedIsDown' /\ StoppedIsEmpty'
    BY <1>1, <2>1 DEF ClosedIsDown, StoppedIsEmpty
  <2> QED BY <1>1, <2>1, <2>2, ChannelFrame
<1>5. CASE ExecuteBatches
  <2>1. /\ now' = now /\ chan' = chan /\ accepted' = accepted /\ taken' = taken
        /\ open' = open /\ before' = before /\ signalled' = signalled /\ server' = server
        /\ phase' \in {"stop", "select", "failed"} /\ (phase' = "stop" => signalled)
    BY <1>5 DEF ExecuteBatches, AfterBatch, world, adapters
  <2>2. ClosedIsDown' /\ StoppedIsEmpty'
    BY <1>1, <2>1 DEF ClosedIsDown, StoppedIsEmpty
  <2> QED BY <1>1, <2>1, <2>2, ChannelFrame
<1>6. CASE ShutDownAdapter
  <2>1. /\ now' = now /\ chan' = chan /\ accepted' = accepted /\ taken' = taken
        /\ open' = open /\ before' = before /\ signalled' = signalled
        /\ phase' = phase /\ phase = "stop"
        /\ server' = [server EXCEPT ![PushOrder[stopped + 1]] = "down"]
    BY <1>6 DEF ShutDownAdapter, world, history
  <2>2. server' \in [Sources -> {"off", "up", "down"}]
    BY <1>1, <2>1
  <2>3. \A n \in Sources : server[n] = "down" => server'[n] = "down"
    BY <1>1, <2>1
  <2>4. ClosedIsDown' /\ StoppedIsEmpty'
    BY <1>1, <2>1, <2>3 DEF ClosedIsDown, StoppedIsEmpty
  <2> QED BY <1>1, <2>1, <2>2, <2>4, ChannelFrame
<1>7. CASE Finish
  <2>1. /\ now' = now /\ chan' = chan /\ accepted' = accepted /\ taken' = taken
        /\ open' = open /\ before' = before /\ signalled' = signalled /\ server' = server
        /\ phase' = "done" /\ phase = "stop"
    BY <1>7 DEF Finish, world, adapters, history
  <2>2. ClosedIsDown' /\ StoppedIsEmpty'
    BY <1>1, <2>1 DEF ClosedIsDown, StoppedIsEmpty
  <2> QED BY <1>1, <2>1, <2>2, ChannelFrame
<1>8. ASSUME NEW n \in Sources, ServerFails(n) PROVE PushInv'
  <2>1. /\ now' = now /\ chan' = chan /\ accepted' = accepted /\ taken' = taken
        /\ open' = open /\ before' = before /\ signalled' = signalled /\ phase' = phase
        /\ server' = [server EXCEPT ![n] = "down"] /\ server[n] = "up"
    BY <1>8 DEF ServerFails, world, runner, history
  <2>2. /\ server' \in [Sources -> {"off", "up", "down"}]
        /\ \A m \in Sources : server[m] = "down" => server'[m] = "down"
        /\ phase # "start"
    BY <1>1, <2>1 DEF ClosedIsDown
  <2>3. ClosedIsDown' /\ StoppedIsEmpty'
    BY <1>1, <2>1, <2>2 DEF ClosedIsDown, StoppedIsEmpty
  <2> QED BY <1>1, <2>1, <2>2, <2>3, ChannelFrame
<1>9. ASSUME NEW n \in Sources, CloseChannel(n) PROVE PushInv'
  <2>1. /\ now' = now /\ chan' = chan /\ accepted' = accepted /\ taken' = taken
        /\ server' = server /\ before' = before /\ signalled' = signalled /\ phase' = phase
        /\ open' = [open EXCEPT ![n] = FALSE] /\ server[n] = "down"
    BY <1>9 DEF CloseChannel, world, runner, history
  <2>2. /\ open' \in [Sources -> BOOLEAN]
        /\ \A m \in Sources : open'[m] => open[m]
        /\ \A m \in Sources : m # n => open'[m] = open[m]
    BY <1>1, <2>1
  <2>3. ClosedIsDown' /\ StoppedIsEmpty'
    BY <1>1, <2>1, <2>2 DEF ClosedIsDown, StoppedIsEmpty
  <2> QED BY <1>1, <2>1, <2>2, <2>3, ChannelFrame
<1>10. CASE TimePasses
  <2>1. /\ chan' = chan /\ accepted' = accepted /\ taken' = taken
        /\ open' = open /\ before' = before /\ signalled' = signalled /\ server' = server
        /\ phase' = phase /\ now' = now + 1 /\ now < MaxClock
    BY <1>10 DEF TimePasses, adapters, runner, history
  <2>2. now' \in Ids
    BY <1>1, <2>1, PushAssumption DEF Ids
  <2>3. ClosedIsDown' /\ StoppedIsEmpty'
    BY <1>1, <2>1 DEF ClosedIsDown, StoppedIsEmpty
  <2> QED BY <1>1, <2>1, <2>2, <2>3, ChannelFrame
<1>11. CASE UNCHANGED pushVars
  BY <1>11 DEF pushVars, world, adapters, runner, history, PushInv, ChannelTypeOK,
     AcceptedInOrder, ClosedIsDown, StoppedIsEmpty, BeforeOK
<1> QED
  BY <1>2, <1>3, <1>4, <1>5, <1>6, <1>7, <1>8, <1>9, <1>10, <1>11,
     WebhookOK, ReceiveOK, TakeSignalOK, RequestShutdownOK
  DEF PushStep, RunnerStep

LEMMA PushAlways == PushSpec => []PushInv
BY PushInitOK, PushStepKeeps, PTL DEF PushSpec

(* No interleaving of the handlers with the loop, the drain and the        *)
(* shutdown drops or reorders what was answered with 200                   *)
(* (runner.rs:626-666; ecl-adapter-zapier).                                *)
THEOREM AcceptedAreKept == PushSpec => []AcceptedInOrder
<1>1. PushInv => AcceptedInOrder
  BY DEF PushInv
<1> QED BY <1>1, PushAlways, PTL

LEMMA DrainedAtEnd == ASSUME PushInv PROVE DrainedOnShutdown
<1> SUFFICES ASSUME phase = "done", NEW n \in Sources PROVE Len(taken[n]) >= before[n]
  BY DEF DrainedOnShutdown
<1>1. /\ Len(taken[n]) \in Nat /\ before[n] \in Nat
      /\ taken[n] \in Seq(Doc)
  BY DEF PushInv, ChannelTypeOK
<1>2. CASE signalled
  BY <1>1, <1>2 DEF PushInv, BeforeOK
<1>3. CASE ~signalled
  <2>1. chan[n] = <<>> /\ accepted[n] = taken[n] \o chan[n]
    BY <1>3 DEF PushInv, StoppedIsEmpty, AcceptedInOrder
  <2>2. accepted[n] = taken[n]
    BY <1>1, <2>1, ConcatEmptySeq
  <2> QED BY <1>1, <2>2 DEF PushInv, BeforeOK
<1> QED BY <1>2, <1>3

(* Whatever was accepted before the shutdown was asked for has been taken  *)
(* when the loop ends (runner.rs:631).                                     *)
THEOREM ShutdownDrains == PushSpec => []DrainedOnShutdown
BY DrainedAtEnd, PushAlways, PTL

-----------------------------------------------------------------------------
(* Batches.  A batch holds the documents taken from a source one after the *)
(* other, whatever it holds of others before and after them.               *)

Holds(docs, n, fresh) ==
    \E a \in Nat :
       /\ a + Len(fresh) <= Len(docs)
       /\ \A k \in 1..Len(docs) : docs[k].src = n <=> a < k /\ k <= a + Len(fresh)
       /\ \A k \in 1..Len(fresh) : docs[a + k].req = fresh[k].req /\ docs[a + k].id = fresh[k].id

LastOf(docs) ==
    {docs[k] : k \in {k \in 1..Len(docs) : \A l \in k + 1..Len(docs) : docs[l].id # docs[k].id}}

LEMMA TaggedTyped ==
    ASSUME NEW n \in Sources, NEW docs \in Seq(Doc)
    PROVE  /\ Tagged(n, docs) \in Seq(Received) /\ Len(Tagged(n, docs)) = Len(docs)
           /\ \A k \in 1..Len(docs) :
                 /\ Tagged(n, docs)[k].src = n
                 /\ Tagged(n, docs)[k].req = docs[k].req /\ Tagged(n, docs)[k].id = docs[k].id
<1>1. \A k \in 1..Len(docs) :
         [src |-> n, req |-> docs[k].req, id |-> docs[k].id] \in Received
  <2> TAKE k \in 1..Len(docs)
  <2>1. docs[k] \in Doc
    OBVIOUS
  <2> QED BY <2>1 DEF Doc, Received
<1>2. Tagged(n, docs) \in [1..Len(docs) -> Received] /\ Len(docs) \in Nat
  BY <1>1 DEF Tagged
<1>3. Tagged(n, docs) \in Seq(Received) /\ Len(Tagged(n, docs)) = Len(docs)
  BY <1>2
<1> QED BY <1>3 DEF Tagged

(* What a batch holds, when the documents of m are appended to it.         *)
LEMMA HoldsAfter ==
    ASSUME NEW b \in Seq(Received), NEW m \in Sources, NEW docs \in Seq(Doc),
           NEW n \in Sources
    PROVE  /\ b \o Tagged(m, docs) \in Seq(Received)
           /\ \A fresh \in Seq(Doc) :
                 n # m /\ Holds(b, n, fresh) => Holds(b \o Tagged(m, docs), n, fresh)
           /\ n = m /\ Holds(b, n, <<>>) => Holds(b \o Tagged(m, docs), n, docs)
<1> DEFINE t == Tagged(m, docs)
           c == b \o t
<1>1. /\ t \in Seq(Received) /\ Len(t) = Len(docs)
      /\ \A k \in 1..Len(docs) :
            t[k].src = m /\ t[k].req = docs[k].req /\ t[k].id = docs[k].id
  BY TaggedTyped
<1> HIDE DEF t
<1>2. /\ c \in Seq(Received) /\ Len(c) = Len(b) + Len(docs)
      /\ Len(b) \in Nat /\ Len(docs) \in Nat
      /\ \A k \in 1..Len(b) : c[k] = b[k]
      /\ \A k \in 1..Len(docs) : c[Len(b) + k] = t[k]
  BY <1>1
<1> HIDE DEF c
<1>3. ASSUME NEW fresh \in Seq(Doc), n # m, Holds(b, n, fresh) PROVE Holds(c, n, fresh)
  <2>1. PICK a \in Nat :
         /\ a + Len(fresh) <= Len(b)
         /\ \A k \in 1..Len(b) : b[k].src = n <=> a < k /\ k <= a + Len(fresh)
         /\ \A k \in 1..Len(fresh) : b[a + k].req = fresh[k].req /\ b[a + k].id = fresh[k].id
    BY <1>3 DEF Holds
  <2>2. Len(fresh) \in Nat
    OBVIOUS
  <2>3. ASSUME NEW k \in 1..Len(c)
        PROVE  c[k].src = n <=> a < k /\ k <= a + Len(fresh)
    <3>1. CASE k <= Len(b)
      BY <1>2, <2>1, <3>1
    <3>2. CASE k > Len(b)
      <4>1. k - Len(b) \in 1..Len(docs) /\ Len(b) + (k - Len(b)) = k
        BY <1>2, <3>2
      <4>2. c[k].src = m
        BY <1>1, <1>2, <4>1
      <4> QED BY <1>2, <1>3, <2>1, <2>2, <3>2, <4>2
    <3> QED BY <1>2, <3>1, <3>2
  <2>4. ASSUME NEW k \in 1..Len(fresh)
        PROVE  c[a + k].req = fresh[k].req /\ c[a + k].id = fresh[k].id
    <3>1. a + k \in 1..Len(b)
      BY <1>2, <2>1, <2>2
    <3> QED BY <1>2, <2>1, <3>1
  <2>5. a + Len(fresh) <= Len(c)
    BY <1>2, <2>1, <2>2
  <2> QED BY <2>3, <2>4, <2>5 DEF Holds
<1>4. ASSUME n = m, Holds(b, n, <<>>) PROVE Holds(c, n, docs)
  <2>1. PICK a \in Nat : \A k \in 1..Len(b) : b[k].src = n <=> a < k /\ k <= a + 0
    BY <1>4 DEF Holds
  <2>2. \A k \in 1..Len(b) : b[k].src # n
    BY <1>2, <2>1
  <2>3. ASSUME NEW k \in 1..Len(c)
        PROVE  c[k].src = n <=> Len(b) < k /\ k <= Len(b) + Len(docs)
    <3>1. CASE k <= Len(b)
      BY <1>2, <2>2, <3>1
    <3>2. CASE k > Len(b)
      <4>1. k - Len(b) \in 1..Len(docs) /\ Len(b) + (k - Len(b)) = k
        BY <1>2, <3>2
      <4>2. c[k].src = m
        BY <1>1, <1>2, <4>1
      <4> QED BY <1>2, <1>4, <3>2, <4>2
    <3> QED BY <1>2, <3>1, <3>2
  <2>4. \A k \in 1..Len(docs) : c[Len(b) + k].req = docs[k].req /\ c[Len(b) + k].id = docs[k].id
    BY <1>1, <1>2
  <2>5. Len(b) \in Nat /\ Len(b) + Len(docs) <= Len(c)
    BY <1>2
  <2> QED BY <2>3, <2>4, <2>5 DEF Holds
<1> QED BY <1>2, <1>3, <1>4 DEF c, t

LEMMA HoldsNone ==
    ASSUME NEW n
    PROVE  <<>> \in Seq(Received) /\ Holds(<<>>, n, <<>>)
<1>1. /\ 0 \in Nat /\ 0 + Len(<<>>) <= Len(<<>>)
      /\ \A k \in 1..Len(<<>>) : FALSE
  OBVIOUS
<1> QED BY <1>1 DEF Holds

(* A batch of one source.                                                  *)
LEMMA HoldsTagged ==
    ASSUME NEW m \in Sources, NEW docs \in Seq(Doc), NEW n \in Sources
    PROVE  Holds(Tagged(m, docs), n, IF n = m THEN docs ELSE <<>>)
<1>1. Tagged(m, docs) \in Seq(Received)
  BY TaggedTyped
<1>2. <<>> \o Tagged(m, docs) = Tagged(m, docs)
  BY <1>1, ConcatEmptySeq
<1>3. <<>> \in Seq(Received) /\ Holds(<<>>, n, <<>>) /\ <<>> \in Seq(Doc)
  BY HoldsNone
<1> QED BY <1>2, <1>3, HoldsAfter

-----------------------------------------------------------------------------
(* The drain: every channel after the other.                               *)

LEMMA DrainHolds ==
    ASSUME PushInv, Drain
    PROVE  batch' \in Seq(Received) /\ \A n \in Sources : Holds(batch', n, chan[n])
<1> DEFINE N == Len(PushOrder)
           T == [k \in 1..N |-> Tagged(PushOrder[k], chan[PushOrder[k]])]
           g == CHOOSE f : f = [k \in 0..N |-> IF k = 0 THEN <<>>
                                   ELSE f[k - 1] \o Tagged(PushOrder[k], chan[PushOrder[k]])]
<1>1. N \in Nat /\ \A k \in 1..N : PushOrder[k] \in Sources /\ chan[PushOrder[k]] \in Seq(Doc)
  BY PushAssumption DEF PushInv, ChannelTypeOK, Sources
<1>2. \A k \in 1..N : T[k] \in Seq(Received)
  BY <1>1, TaggedTyped
<1>3. g = [k \in 0..N |-> IF k = 0 THEN <<>>
                          ELSE g[k - 1] \o Tagged(PushOrder[k], chan[PushOrder[k]])]
  <2> DEFINE step == [k \in 1..N |-> [b \in Seq(Received) |-> b \o T[k]]]
  <2>1. step \in [1..N -> [Seq(Received) -> Seq(Received)]]
    <3>1. \A k \in 1..N, b \in Seq(Received) : b \o T[k] \in Seq(Received)
      BY <1>2
    <3> QED BY <3>1
  <2> HIDE DEF T
  <2>2. <<>> \in Seq(Received)
    OBVIOUS
  <2>3. \E f \in [0..N -> Seq(Received)] :
           f[0] = <<>> /\ \A k \in 1..N : f[k] = step[k][f[k - 1]]
    <3> HIDE DEF step, N
    <3>1. HasIteration(N, Seq(Received), <<>>, step)
      BY <1>1, <2>1, <2>2, IterationExists
    <3> QED BY <3>1 DEF HasIteration
  <2>4. PICK f \in [0..N -> Seq(Received)] :
           f[0] = <<>> /\ \A k \in 1..N : f[k] = step[k][f[k - 1]]
    BY <2>3
  <2>5. \A k \in 1..N : f[k] = f[k - 1] \o Tagged(PushOrder[k], chan[PushOrder[k]])
    <3> TAKE k \in 1..N
    <3>1. f[k - 1] \in Seq(Received)
      OBVIOUS
    <3>2. f[k] = f[k - 1] \o T[k]
      BY <2>4, <3>1
    <3> QED BY <3>2 DEF T
  <2>6. f = [k \in 0..N |-> IF k = 0 THEN <<>>
                            ELSE f[k - 1] \o Tagged(PushOrder[k], chan[PushOrder[k]])]
    <3>1. \A k \in 0..N : f[k] = IF k = 0 THEN <<>>
                            ELSE f[k - 1] \o Tagged(PushOrder[k], chan[PushOrder[k]])
      <4>1. \A k \in 0..N : k # 0 => k \in 1..N
        BY <1>1
      <4> QED BY <2>4, <2>5, <4>1
    <3> QED BY <2>4, <3>1
  <2> QED BY <2>6
<1>4. batch' = g[N]
  BY DEF Drain
<1> HIDE DEF g, T
<1>5. g[0] = <<>> /\ \A k \in 1..N : g[k] = g[k - 1] \o Tagged(PushOrder[k], chan[PushOrder[k]])
  <2>1. 0 \in 0..N /\ \A k \in 1..N : k \in 0..N /\ k # 0
    BY <1>1
  <2> QED BY <1>3, <2>1
<1> DEFINE Part(m) ==
       /\ g[m] \in Seq(Received)
       /\ \A i \in 1..N : Holds(g[m], PushOrder[i], IF i <= m THEN chan[PushOrder[i]] ELSE <<>>)
           S == {m \in Nat : m <= N => Part(m)}
<1>6. 0 \in S
  <2>1. Part(0)
    BY <1>5, HoldsNone
  <2> QED BY <2>1
<1>7. ASSUME NEW m \in Nat, m \in S PROVE m + 1 \in S
  <2> SUFFICES ASSUME m + 1 <= N PROVE Part(m + 1)
    OBVIOUS
  <2>1. Part(m) /\ m + 1 \in 1..N
    BY <1>1, <1>7
  <2>2. g[m + 1] = g[m] \o Tagged(PushOrder[m + 1], chan[PushOrder[m + 1]])
    <3>1. (m + 1) - 1 = m
      OBVIOUS
    <3> QED BY <1>5, <2>1, <3>1
  <2>3. g[m + 1] \in Seq(Received)
    BY <1>1, <2>1, <2>2, HoldsAfter
  <2>4. ASSUME NEW i \in 1..N
        PROVE  Holds(g[m + 1], PushOrder[i], IF i <= m + 1 THEN chan[PushOrder[i]] ELSE <<>>)
    <3>1. g[m] \in Seq(Received) /\ Holds(g[m], PushOrder[i], IF i <= m THEN chan[PushOrder[i]] ELSE <<>>)
      BY <2>1
    <3>2. /\ PushOrder[m + 1] \in Sources /\ chan[PushOrder[m + 1]] \in Seq(Doc)
          /\ PushOrder[i] \in Sources /\ chan[PushOrder[i]] \in Seq(Doc) /\ <<>> \in Seq(Doc)
      BY <1>1, <2>1
    <3>3. CASE i = m + 1
      <4>1. Holds(g[m], PushOrder[i], <<>>)
        BY <3>1, <3>3
      <4>2. Holds(g[m] \o Tagged(PushOrder[m + 1], chan[PushOrder[m + 1]]), PushOrder[i], chan[PushOrder[i]])
        BY <3>1, <3>2, <3>3, <4>1, HoldsAfter
      <4> QED BY <2>2, <3>3, <4>2
    <3>4. CASE i # m + 1
      <4>1. PushOrder[i] # PushOrder[m + 1]
        BY <2>1, <3>4, PushAssumption
      <4> DEFINE had == IF i <= m THEN chan[PushOrder[i]] ELSE <<>>
      <4>2. had = (IF i <= m + 1 THEN chan[PushOrder[i]] ELSE <<>>) /\ had \in Seq(Doc)
        BY <3>2, <3>4
      <4>3. Holds(g[m], PushOrder[i], had)
        BY <3>1
      <4> HIDE DEF had
      <4>4. Holds(g[m] \o Tagged(PushOrder[m + 1], chan[PushOrder[m + 1]]), PushOrder[i], had)
        BY <3>1, <3>2, <4>1, <4>2, <4>3, HoldsAfter
      <4> QED BY <2>2, <4>2, <4>4
    <3> QED BY <3>3, <3>4
  <2> QED BY <2>3, <2>4
<1>8. Part(N)
  <2> HIDE DEF Part
  <2>1. N \in S
    <3> HIDE DEF S
    <3> QED BY <1>1, <1>6, <1>7, SetInduction
  <2> QED BY <2>1
<1>9. \A n \in Sources : Holds(g[N], n, chan[n])
  <2> TAKE n \in Sources
  <2>1. PICK i \in 1..N : PushOrder[i] = n
    BY DEF Sources
  <2>2. i <= N
    BY <1>1
  <2> QED BY <1>8, <2>1, <2>2
<1> QED BY <1>4, <1>8, <1>9

-----------------------------------------------------------------------------
(* The registration: of the documents with one id, the last one taken.     *)

Updated(had, b, n) ==
    LET docs == {k \in 1..Len(b) : b[k].src = n}
        ids == {b[k].id : k \in docs}
        kept == {k \in docs : \A l \in docs : b[l].id = b[k].id => l <= k}
    IN  {e \in had : e.id \notin ids}
           \cup {[req |-> b[k].req, id |-> b[k].id] : k \in kept}

LEMMA RegisterAll ==
    ASSUME NEW old \in Seq(Doc), NEW fresh \in Seq(Doc), NEW b \in Seq(Received),
           NEW n \in Sources, Holds(b, n, fresh)
    PROVE  Updated(LastOf(old), b, n) = LastOf(old \o fresh)
<1> DEFINE docs == {k \in 1..Len(b) : b[k].src = n}
           ids == {b[k].id : k \in docs}
           kept == {k \in docs : \A l \in docs : b[l].id = b[k].id => l <= k}
           new == {[req |-> b[k].req, id |-> b[k].id] : k \in kept}
           s == old \o fresh
           L == Len(old)
           F == Len(fresh)
<1>1. PICK a \in Nat :
         /\ a + F <= Len(b)
         /\ \A k \in 1..Len(b) : b[k].src = n <=> a < k /\ k <= a + F
         /\ \A k \in 1..F : b[a + k].req = fresh[k].req /\ b[a + k].id = fresh[k].id
  BY DEF Holds
<1>2. /\ s \in Seq(Doc) /\ Len(s) = L + F /\ L \in Nat /\ F \in Nat /\ Len(b) \in Nat
      /\ \A k \in 1..L : s[k] = old[k]
      /\ \A k \in 1..F : s[L + k] = fresh[k]
  OBVIOUS
<1>3. \A k \in docs : k \in Nat /\ k - a \in 1..F /\ k = a + (k - a)
  BY <1>1, <1>2
<1>4. \A j \in 1..F : a + j \in docs
  BY <1>1, <1>2
<1>5. \A k \in 1..F : fresh[k] \in Doc /\ fresh[k] = [req |-> fresh[k].req, id |-> fresh[k].id]
  <2>1. \A k \in 1..F : fresh[k] \in Doc
    OBVIOUS
  <2>2. \A d \in Doc : d = [req |-> d.req, id |-> d.id]
    BY DEF Doc
  <2> QED BY <2>1, <2>2
<1>6. \A j \in 1..F : b[a + j].req = fresh[j].req /\ b[a + j].id = fresh[j].id
  BY <1>1
<1> HIDE DEF docs, s
<1>7. \A x \in ids : \E j \in 1..F : x = fresh[j].id
  BY <1>3, <1>6
<1>8. \A j \in 1..F : fresh[j].id \in ids
  BY <1>4, <1>6
<1> HIDE DEF ids
<1>9. ASSUME NEW e \in LastOf(s) PROVE e \in {x \in LastOf(old) : x.id \notin ids} \cup new
  <2>1. PICK k \in 1..Len(s) : e = s[k] /\ \A l \in k + 1..Len(s) : s[l].id # s[k].id
    BY DEF LastOf
  <2>2. CASE k <= L
    <3>1. k \in 1..L /\ e = old[k]
      BY <1>2, <2>1, <2>2
    <3>2. \A l \in k + 1..L : old[l].id # old[k].id
      <4> TAKE l \in k + 1..L
      <4>1. l \in k + 1..Len(s) /\ l \in 1..L
        BY <1>2
      <4> QED BY <1>2, <2>1, <3>1, <4>1
    <3>3. e \in LastOf(old)
      BY <3>1, <3>2 DEF LastOf
    <3>4. \A j \in 1..F : fresh[j].id # e.id
      <4> TAKE j \in 1..F
      <4>1. L + j \in k + 1..Len(s)
        BY <1>2, <2>2
      <4> QED BY <1>2, <2>1, <4>1
    <3> QED BY <1>7, <3>3, <3>4
  <2>3. CASE k > L
    <3> DEFINE j == k - L
    <3>1. j \in 1..F /\ k = L + j /\ e = fresh[j]
      BY <1>2, <2>1, <2>3
    <3> HIDE DEF j
    <3>2. a + j \in docs
      BY <1>4, <3>1
    <3>3. ASSUME NEW l \in docs, b[l].id = b[a + j].id PROVE l <= a + j
      <4> SUFFICES ASSUME l > a + j PROVE FALSE
        BY <1>1, <1>2, <1>3, <3>1
      <4> DEFINE i == l - a
      <4>1. i \in 1..F /\ l = a + i /\ i > j
        BY <1>1, <1>3, <3>1
      <4> HIDE DEF i
      <4>2. fresh[i].id = fresh[j].id
        BY <1>6, <3>1, <3>3, <4>1
      <4>3. L + i \in k + 1..Len(s)
        BY <1>2, <3>1, <4>1
      <4>4. s[L + i].id # s[k].id
        BY <2>1, <4>3
      <4> QED BY <1>2, <2>1, <3>1, <4>1, <4>2, <4>4
    <3>4. a + j \in kept
      BY <3>2, <3>3
    <3>5. e = [req |-> b[a + j].req, id |-> b[a + j].id]
      BY <1>5, <1>6, <3>1
    <3> QED BY <3>4, <3>5
  <2> QED BY <1>2, <2>2, <2>3
<1>10. ASSUME NEW e \in LastOf(old), e.id \notin ids PROVE e \in LastOf(s)
  <2>1. PICK k \in 1..L : e = old[k] /\ \A l \in k + 1..L : old[l].id # old[k].id
    BY DEF LastOf
  <2>2. k \in 1..Len(s) /\ e = s[k]
    BY <1>2, <2>1
  <2>3. ASSUME NEW l \in k + 1..Len(s) PROVE s[l].id # s[k].id
    <3>1. CASE l <= L
      <4>1. l \in 1..L /\ l \in k + 1..L
        BY <1>2, <2>1, <3>1
      <4> QED BY <1>2, <2>1, <2>2, <4>1
    <3>2. CASE l > L
      <4>1. l - L \in 1..F /\ l = L + (l - L)
        BY <1>2, <2>1, <3>2
      <4>2. s[l] = fresh[l - L]
        BY <1>2, <4>1
      <4> QED BY <1>8, <1>10, <2>2, <4>1, <4>2
    <3> QED BY <1>2, <2>1, <3>1, <3>2
  <2> QED BY <2>2, <2>3 DEF LastOf
<1>11. ASSUME NEW e \in new PROVE e \in LastOf(s)
  <2>1. PICK k \in kept : e = [req |-> b[k].req, id |-> b[k].id]
    OBVIOUS
  <2> DEFINE j == k - a
  <2>2. k \in docs /\ j \in 1..F /\ k = a + j
    BY <1>3
  <2> HIDE DEF j
  <2>3. e = fresh[j]
    BY <1>5, <1>6, <2>1, <2>2
  <2>4. L + j \in 1..Len(s) /\ s[L + j] = e
    BY <1>2, <2>2, <2>3
  <2>5. ASSUME NEW l \in (L + j) + 1..Len(s) PROVE s[l].id # s[L + j].id
    <3> SUFFICES ASSUME s[l].id = s[L + j].id PROVE FALSE
      OBVIOUS
    <3> DEFINE i == l - L
    <3>1. i \in 1..F /\ l = L + i /\ i > j
      BY <1>2, <2>2
    <3> HIDE DEF i
    <3>2. b[a + i].id = b[a + j].id
      BY <1>2, <1>6, <2>2, <2>3, <2>4, <3>1
    <3>3. a + i \in docs
      BY <1>4, <3>1
    <3>4. a + i <= k
      BY <2>2, <3>2, <3>3
    <3> QED BY <1>1, <2>2, <3>1, <3>4
  <2> QED BY <2>4, <2>5 DEF LastOf
<1>12. {e \in LastOf(old) : e.id \notin ids} \cup new = LastOf(s)
  <2> HIDE DEF new
  <2> QED BY <1>9, <1>10, <1>11
<1> QED BY <1>12 DEF Updated, ids, docs, s

-----------------------------------------------------------------------------
RunnerTypeOK ==
    /\ reply \in [Requests -> {"none", "ok", "busy", "error"}]
    /\ \A n \in Sources : Len(chan[n]) <= Capacity
    /\ phase \in {"start", "select", "register", "execute", "stop", "done", "failed"}
    /\ permit \in BOOLEAN /\ signalled \in BOOLEAN
    /\ batch \in Seq(Received)
    /\ items \in [Sources -> SUBSET Doc]
    /\ pool \subseteq Requests /\ executed \subseteq Requests
    /\ stopped \in 0..Len(PushOrder)

(* What was taken is registered, but for what the batch still holds.       *)
Fresh(n, old, fresh) ==
    taken[n] = old \o fresh /\ items[n] = LastOf(old) /\ Holds(batch, n, fresh)
RegisteredInv ==
    /\ phase # "register" => \A n \in Sources : items[n] = LastOf(taken[n])
    /\ phase = "register" =>
          \A n \in Sources : \E old \in Seq(Doc), fresh \in Seq(Doc) : Fresh(n, old, fresh)

LEMMA LastOfTyped == ASSUME NEW docs \in Seq(Doc) PROVE LastOf(docs) \subseteq Doc
BY DEF LastOf

LEMMA RegisterBatchKeeps ==
    ASSUME PushInv, RunnerTypeOK, RegisteredInv, RegisterBatch
    PROVE  items' \in [Sources -> SUBSET Doc] /\ \A n \in Sources : items'[n] = LastOf(taken[n])
<1>1. ASSUME NEW n \in Sources PROVE items'[n] = LastOf(taken[n]) /\ LastOf(taken[n]) \subseteq Doc
  <2>1. PICK old \in Seq(Doc), fresh \in Seq(Doc) : Fresh(n, old, fresh)
    BY DEF RegisterBatch, RegisteredInv
  <2>2. batch \in Seq(Received) /\ items[n] = LastOf(old) /\ taken[n] = old \o fresh
        /\ Holds(batch, n, fresh)
    BY <2>1 DEF RunnerTypeOK, Fresh
  <2>3. items'[n] = Updated(items[n], batch, n)
    BY DEF RegisterBatch, Updated
  <2>4. Updated(LastOf(old), batch, n) = LastOf(old \o fresh)
    BY <2>2, RegisterAll
  <2>5. taken[n] \in Seq(Doc)
    BY DEF PushInv, ChannelTypeOK
  <2> QED BY <2>2, <2>3, <2>4, <2>5, LastOfTyped
<1>2. DOMAIN items' = Sources /\ items' = [n \in Sources |-> items'[n]]
  BY DEF RegisterBatch
<1> QED BY <1>1, <1>2

(* A batch taken from the channels is what is still to be registered.      *)
LEMMA TakenIsHeld ==
    ASSUME PushInv, RunnerTypeOK, RegisteredInv, phase # "register", items' = items,
           NEW n \in Sources, NEW fresh \in Seq(Doc), taken'[n] = taken[n] \o fresh,
           Holds(batch', n, fresh)
    PROVE  \E old \in Seq(Doc), f \in Seq(Doc) : Fresh(n, old, f)'
<1>1. taken[n] \in Seq(Doc) /\ items'[n] = LastOf(taken[n])
  BY DEF PushInv, ChannelTypeOK, RegisteredInv
<1> QED BY <1>1 DEF Fresh

LEMMA RegisteredFrame ==
    ASSUME RegisteredInv, items' = items, taken' = taken,
           \/ phase # "register" /\ phase' # "register"
           \/ phase' = phase /\ batch' = batch
    PROVE  RegisteredInv'
<1>1. CASE phase # "register" /\ phase' # "register"
  BY <1>1 DEF RegisteredInv
<1>2. CASE phase' = phase /\ batch' = batch
  BY <1>2 DEF RegisteredInv, Fresh
<1> QED BY <1>1, <1>2

LEMMA WebhookTyped ==
    ASSUME PushInv, RunnerTypeOK, NEW n \in Sources, NEW r \in Requests, Webhook(n, r)
    PROVE  RunnerTypeOK'
<1>1. /\ phase' = phase /\ permit' = permit /\ signalled' = signalled /\ batch' = batch
      /\ items' = items /\ pool' = pool /\ stopped' = stopped /\ executed' = executed
  BY DEF Webhook, runner
<1>2. \E answer \in {"ok", "busy", "error"} : reply' = [reply EXCEPT ![r] = answer]
  BY DEF Webhook
<1>3. reply' \in [Requests -> {"none", "ok", "busy", "error"}]
  BY <1>2 DEF RunnerTypeOK
<1>4. \A m \in Sources : Len(chan'[m]) <= Capacity
  <2> TAKE m \in Sources
  <2> DEFINE doc == [req |-> r, id |-> now]
  <2>1. \/ chan' = chan
        \/ Len(chan[n]) < Capacity /\ chan' = [chan EXCEPT ![n] = Append(chan[n], doc)]
    BY DEF Webhook
  <2>2. doc \in Doc /\ chan[n] \in Seq(Doc) /\ chan \in [Sources -> Seq(Doc)]
        /\ Capacity \in Nat /\ Len(chan[m]) <= Capacity
    BY PushAssumption DEF PushInv, ChannelTypeOK, Doc, RunnerTypeOK
  <2> HIDE DEF doc
  <2>3. Len(chan[n]) \in Nat /\ Len(Append(chan[n], doc)) = Len(chan[n]) + 1
    BY <2>2
  <2>4. CASE chan' = chan
    BY <2>2, <2>4
  <2>5. CASE Len(chan[n]) < Capacity /\ chan' = [chan EXCEPT ![n] = Append(chan[n], doc)]
    <3>1. chan'[m] = IF m = n THEN Append(chan[n], doc) ELSE chan[m]
      BY <2>2, <2>5
    <3> QED BY <2>2, <2>3, <2>5, <3>1
  <2> QED BY <2>1, <2>4, <2>5
<1> QED BY <1>1, <1>3, <1>4 DEF RunnerTypeOK

LEMMA ReceiveKeeps ==
    ASSUME PushInv, RunnerTypeOK, RegisteredInv, Receive
    PROVE  RunnerTypeOK' /\ RegisteredInv'
<1>1. /\ reply' = reply /\ permit' = permit /\ signalled' = signalled /\ items' = items
      /\ pool' = pool /\ stopped' = stopped /\ executed' = executed
      /\ phase = "select" /\ phase' = "register"
  BY DEF Receive, world
<1>2. PICK i \in 1..Len(PushOrder) : TakeFrom(PushOrder[i])
  BY DEF Receive
<1> DEFINE n == PushOrder[i]
           count == IF Len(chan[n]) < BatchLimit THEN Len(chan[n]) ELSE BatchLimit
           taking == SubSeq(chan[n], 1, count)
           rest == SubSeq(chan[n], count + 1, Len(chan[n]))
<1>3. n \in Sources
  BY DEF Sources
<1>4. /\ batch' = Tagged(n, taking)
      /\ chan' = [chan EXCEPT ![n] = rest]
      /\ taken' = [taken EXCEPT ![n] = taken[n] \o taking]
  BY <1>2 DEF TakeFrom
<1>5. /\ chan \in [Sources -> Seq(Doc)] /\ taken \in [Sources -> Seq(Doc)]
      /\ \A m \in Sources : Len(chan[m]) <= Capacity
      /\ Capacity \in Nat /\ BatchLimit \in Nat
  BY PushAssumption DEF PushInv, ChannelTypeOK, RunnerTypeOK
<1>6. count \in 0..Len(chan[n]) /\ chan[n] \in Seq(Doc)
  BY <1>3, <1>5
<1>7. taking \in Seq(Doc) /\ rest \in Seq(Doc)
  BY <1>6, TakingKeeps
<1>8. Len(rest) <= Len(chan[n]) /\ Len(rest) \in Nat
  <2>1. Len(rest) = IF count + 1 <= Len(chan[n]) THEN Len(chan[n]) - count ELSE 0
    BY <1>6
  <2> QED BY <1>6, <2>1
<1> HIDE DEF n, count, taking, rest
<1>9. \A m \in Sources : Len(chan'[m]) <= Capacity
  <2> TAKE m \in Sources
  <2>1. CASE m = n
    <3>1. chan'[m] = rest /\ Len(chan[n]) <= Capacity /\ Len(chan[n]) \in Nat
      BY <1>3, <1>4, <1>5, <1>6, <2>1
    <3> QED BY <1>5, <1>8, <3>1
  <2>2. CASE m # n
    BY <1>4, <1>5, <2>2
  <2> QED BY <2>1, <2>2
<1>10. batch' \in Seq(Received)
  BY <1>3, <1>4, <1>7, TaggedTyped
<1>11. RunnerTypeOK'
  BY <1>1, <1>9, <1>10 DEF RunnerTypeOK
<1>12. ASSUME NEW m \in Sources
       PROVE  \E old \in Seq(Doc), f \in Seq(Doc) : Fresh(m, old, f)'
  <2> DEFINE f == IF m = n THEN taking ELSE <<>>
  <2>1. f \in Seq(Doc) /\ Holds(batch', m, f)
    BY <1>3, <1>4, <1>7, HoldsTagged
  <2>2. taken'[m] = taken[m] \o f
    <3>1. CASE m = n
      BY <1>3, <1>4, <1>5, <3>1
    <3>2. CASE m # n
      <4>1. taken'[m] = taken[m] /\ taken[m] \in Seq(Doc)
        BY <1>4, <1>5, <3>2
      <4> QED BY <3>2, <4>1, ConcatEmptySeq
    <3> QED BY <3>1, <3>2
  <2> HIDE DEF f
  <2> QED BY <1>1, <2>1, <2>2, TakenIsHeld
<1> QED BY <1>1, <1>11, <1>12 DEF RegisteredInv

LEMMA TakeSignalKeeps ==
    ASSUME PushInv, RunnerTypeOK, RegisteredInv, TakeSignal
    PROVE  RunnerTypeOK' /\ RegisteredInv'
<1>1. /\ reply' = reply /\ permit' \in BOOLEAN /\ signalled' \in BOOLEAN /\ items' = items
      /\ pool' = pool /\ stopped' = stopped /\ executed' = executed
      /\ phase = "select" /\ phase' = (IF batch' = <<>> THEN "stop" ELSE "register")
      /\ Drain
  BY DEF TakeSignal, AfterDrain, world
<1>2. batch' \in Seq(Received) /\ \A n \in Sources : Holds(batch', n, chan[n])
  BY <1>1, DrainHolds
<1>3. /\ chan' = [n \in Sources |-> <<>>]
      /\ \A n \in Sources : taken'[n] = taken[n] \o chan[n]
  BY <1>1 DEF Drain
<1>4. \A n \in Sources : chan[n] \in Seq(Doc) /\ taken[n] \in Seq(Doc)
  BY DEF PushInv, ChannelTypeOK
<1>5. \A n \in Sources : Len(chan'[n]) <= Capacity
  BY <1>3, PushAssumption
<1>6. RunnerTypeOK'
  BY <1>1, <1>2, <1>5 DEF RunnerTypeOK
<1>7. CASE batch' = <<>>
  <2>1. ASSUME NEW n \in Sources PROVE items'[n] = LastOf(taken'[n])
    <3>1. chan[n] = <<>>
      <4>1. PICK a \in Nat : a + Len(chan[n]) <= Len(batch')
        BY <1>2 DEF Holds
      <4>2. Len(chan[n]) \in Nat /\ Len(batch') = 0
        BY <1>4, <1>7
      <4>3. Len(chan[n]) = 0
        BY <4>1, <4>2
      <4> QED BY <1>4, <4>3, EmptySeq
    <3>2. taken'[n] = taken[n]
      BY <1>3, <1>4, <3>1, ConcatEmptySeq
    <3> QED BY <1>1, <3>2 DEF RegisteredInv
  <2>2. phase' = "stop"
    BY <1>1, <1>7
  <2> QED BY <1>6, <2>1, <2>2 DEF RegisteredInv
<1>8. CASE batch' # <<>>
  <2>1. \A n \in Sources : \E old \in Seq(Doc), f \in Seq(Doc) : Fresh(n, old, f)'
    BY <1>1, <1>2, <1>3, <1>4, TakenIsHeld
  <2>2. phase' = "register"
    BY <1>1, <1>8
  <2> QED BY <1>6, <2>1, <2>2 DEF RegisteredInv
<1> QED BY <1>6, <1>7, <1>8

RunInv == PushInv /\ RunnerTypeOK /\ RegisteredInv

LEMMA RunStep == ASSUME RunInv, [PushStep]_pushVars PROVE RunInv'
<1>0. PushInv' /\ PushInv /\ RunnerTypeOK /\ RegisteredInv
  BY PushStepKeeps DEF RunInv
<1> SUFFICES RunnerTypeOK' /\ RegisteredInv'
  BY <1>0 DEF RunInv
<1> USE <1>0
<1>1. CASE StartSources
  <2>1. RunnerTypeOK'
    BY <1>1 DEF StartSources, RunnerTypeOK, world, history
  <2>2. phase # "register" /\ phase' # "register" /\ items' = items /\ taken' = taken
    BY <1>1 DEF StartSources, history
  <2> QED BY <2>1, <2>2, RegisteredFrame
<1>2. CASE Receive
  BY <1>2, ReceiveKeeps
<1>3. CASE AllClosed
  <2>1. RunnerTypeOK'
    BY <1>3 DEF AllClosed, RunnerTypeOK, world, adapters, history
  <2>2. phase # "register" /\ phase' # "register" /\ items' = items /\ taken' = taken
    BY <1>3 DEF AllClosed, history
  <2> QED BY <2>1, <2>2, RegisteredFrame
<1>4. CASE TakeSignal
  BY <1>4, TakeSignalKeeps
<1>5. CASE RegisterBatch
  <2>1. /\ items' \in [Sources -> SUBSET Doc]
        /\ \A n \in Sources : items'[n] = LastOf(taken[n])
    BY <1>5, RegisterBatchKeeps
  <2>2. phase' = "execute" /\ taken' = taken
    BY <1>5 DEF RegisterBatch, history
  <2>3. RunnerTypeOK'
    BY <1>5, <2>1 DEF RegisterBatch, RunnerTypeOK, world, adapters, history
  <2> QED BY <2>1, <2>2, <2>3 DEF RegisteredInv
<1>6. CASE ExecuteBatches
  <2>1. phase' \in {"stop", "select", "failed"} /\ phase = "execute"
        /\ items' = items /\ taken' = taken
    BY <1>6 DEF ExecuteBatches, AfterBatch
  <2>2. <<>> \in Seq(Received)
    OBVIOUS
  <2>3. RunnerTypeOK'
    BY <1>6, <2>1, <2>2 DEF ExecuteBatches, RunnerTypeOK, world, adapters
  <2> QED BY <2>1, <2>3, RegisteredFrame
<1>7. CASE ShutDownAdapter
  <2>1. stopped' \in 0..Len(PushOrder)
    BY <1>7, PushAssumption DEF ShutDownAdapter, RunnerTypeOK
  <2>2. /\ phase' = phase /\ batch' = batch /\ items' = items /\ taken' = taken
        /\ reply' = reply /\ chan' = chan /\ permit' = permit /\ signalled' = signalled
        /\ pool' = pool /\ executed' = executed
    BY <1>7 DEF ShutDownAdapter, world, history
  <2>3. RunnerTypeOK'
    BY <2>1, <2>2 DEF RunnerTypeOK
  <2> QED BY <2>2, <2>3, RegisteredFrame
<1>8. CASE Finish
  <2>1. RunnerTypeOK'
    BY <1>8 DEF Finish, RunnerTypeOK, world, adapters, history
  <2>2. phase # "register" /\ phase' # "register" /\ items' = items /\ taken' = taken
    BY <1>8 DEF Finish, history
  <2> QED BY <2>1, <2>2, RegisteredFrame
<1>9. ASSUME NEW n \in Sources, NEW r \in Requests, Webhook(n, r)
      PROVE  RunnerTypeOK' /\ RegisteredInv'
  <2>1. phase' = phase /\ batch' = batch /\ items' = items /\ taken' = taken
    BY <1>9 DEF Webhook, runner
  <2> QED BY <1>9, <2>1, WebhookTyped, RegisteredFrame
<1>10. CASE \/ \E n \in Sources : ServerFails(n) \/ CloseChannel(n)
            \/ RequestShutdown \/ TimePasses
  <2>1. /\ phase' = phase /\ batch' = batch /\ items' = items /\ taken' = taken
        /\ reply' = reply /\ chan' = chan /\ signalled' = signalled
        /\ pool' = pool /\ executed' = executed /\ stopped' = stopped
        /\ permit' \in {permit, TRUE}
    BY <1>10 DEF ServerFails, CloseChannel, RequestShutdown, TimePasses, world, adapters,
       runner, history
  <2>2. RunnerTypeOK'
    BY <2>1 DEF RunnerTypeOK
  <2> QED BY <2>1, <2>2, RegisteredFrame
<1>11. CASE UNCHANGED pushVars
  <2>1. /\ phase' = phase /\ batch' = batch /\ items' = items /\ taken' = taken
        /\ reply' = reply /\ chan' = chan /\ signalled' = signalled
        /\ pool' = pool /\ executed' = executed /\ stopped' = stopped
        /\ permit' = permit
    BY <1>11 DEF pushVars, world, adapters, runner, history
  <2>2. RunnerTypeOK'
    BY <2>1 DEF RunnerTypeOK
  <2> QED BY <2>1, <2>2, RegisteredFrame
<1> QED
  BY <1>1, <1>2, <1>3, <1>4, <1>5, <1>6, <1>7, <1>8, <1>9, <1>10, <1>11
  DEF PushStep, RunnerStep

LEMMA RunStarts == ASSUME PushInit PROVE RunInv
<1>1. PushInv
  BY PushInitOK
<1>2. <<>> \in Seq(Received) /\ Len(<<>>) = 0 /\ 0 <= Capacity /\ 0 \in 0..Len(PushOrder)
  BY PushAssumption
<1>3. RunnerTypeOK
  BY <1>2 DEF PushInit, RunnerTypeOK
<1>4. LastOf(<<>>) = {}
  BY DEF LastOf
<1> QED BY <1>1, <1>3, <1>4 DEF PushInit, RunInv, RegisteredInv

LEMMA RunAlways == PushSpec => []RunInv
BY RunStarts, RunStep, PTL DEF PushSpec

LEMMA RunPromises ==
    ASSUME RunInv
    PROVE  PushTypeOK /\ AcceptedInOrder /\ TakenIsRegistered /\ DrainedOnShutdown
<1>1. PushTypeOK /\ AcceptedInOrder
  BY DEF RunInv, PushInv, ChannelTypeOK, RunnerTypeOK, PushTypeOK
<1>2. TakenIsRegistered
  <2> SUFFICES ASSUME phase \in {"select", "stop", "done"}, NEW n \in Sources
               PROVE  items[n] = LastOf(taken[n])
    BY DEF TakenIsRegistered, LastOf
  <2> QED BY DEF RunInv, RegisteredInv
<1> QED BY <1>1, <1>2, DrainedAtEnd DEF RunInv

(* Types, and with them the bound on a channel: try_send refuses what a    *)
(* full one has no room for, in every interleaving of the handlers with    *)
(* the loop (ecl-adapter-zapier/src/lib.rs).                               *)
THEOREM PushTypeCorrect == PushSpec => []PushTypeOK
BY RunPromises, RunAlways, PTL

(* For any number of sources and documents, in every batch that the loop   *)
(* or the drain takes: all it took is registered before it goes on, each   *)
(* id with the last document that has it (runner.rs:626-685).              *)
THEOREM TakenAreRegistered == PushSpec => []TakenIsRegistered
BY RunPromises, RunAlways, PTL
=============================================================================
