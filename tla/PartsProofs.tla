------------------------------ MODULE PartsProofs ------------------------------
(***************************************************************************)
(* Theorems about the parts around the runner: the tokens of the Google    *)
(* adapters, the objects that the lifecycle manager moves, the schedule,   *)
(* the sinks, the drafts of a workflow, and the enumeration of a source.   *)
(***************************************************************************)
EXTENDS MCPipelineParts, BatchExecProofs, PushSourceProofs

-----------------------------------------------------------------------------
(* Tokens.  What an expiry says too much is the time its answer took.      *)

Dated(token) == token \in Token /\ token.expires = token.arrived + Lifetime

LiveOrLate(call) ==
    \/ call.at < call.token.issued + Lifetime
    \/ call.token.arrived - call.token.issued > Margin
    \/ call.at - call.asked >= Lifetime

AskerOK(c) ==
    /\ asker[c].pc = "request" => asker[c].asked <= clock
    /\ asker[c].pc \in {"issued", "received"} =>
          asker[c].token \in Token /\ asker[c].asked <= asker[c].token.issued
    /\ asker[c].pc = "received" => Dated(asker[c].token)
    /\ asker[c].pc = "idle" /\ asker[c].token # NoToken => LiveOrLate(asker[c])

TokenInv ==
    /\ TokenTypeOK
    /\ cached # NoToken => Dated(cached)
    /\ \A c \in Askers : AskerOK(c)

(* A step of one call leaves the others alone.                             *)
LEMMA OtherAskers ==
    ASSUME TokenInv, NEW c \in Askers, clock' = clock, NEW call \in Call,
           asker' = [asker EXCEPT ![c] = call], AskerOK(c)'
    PROVE  asker' \in [Askers -> Call] /\ (\A d \in Askers : AskerOK(d))'
<1>1. asker' \in [Askers -> Call]
  BY DEF TokenInv, TokenTypeOK
<1>2. ASSUME NEW d \in Askers, d # c PROVE AskerOK(d)'
  <2>1. asker'[d] = asker[d]
    BY <1>2 DEF TokenInv, TokenTypeOK
  <2>2. AskerOK(d)
    BY DEF TokenInv
  <2> QED BY <2>1, <2>2 DEF AskerOK
<1> QED BY <1>1, <1>2

LEMMA HandOK ==
    ASSUME TokenInv, NEW c \in Askers, clock' = clock, NEW token \in Token,
           NEW asked \in 0..MaxTime, Hand(c, token, asked),
           LiveOrLate([pc |-> "idle", token |-> token, asked |-> asked, at |-> clock])
    PROVE  asker' \in [Askers -> Call] /\ (\A d \in Askers : AskerOK(d))'
<1> DEFINE call == [pc |-> "idle", token |-> token, asked |-> asked, at |-> clock]
<1>1. call \in Call
  BY DEF TokenInv, TokenTypeOK, Call
<1>2. asker' = [asker EXCEPT ![c] = call]
  BY DEF Hand
<1>3. asker'[c] = call
  BY <1>2 DEF TokenInv, TokenTypeOK
<1>4. AskerOK(c)'
  BY <1>3 DEF AskerOK
<1> HIDE DEF call
<1> QED BY <1>1, <1>2, <1>4, OtherAskers

LEMMA TokenStepOK ==
    ASSUME TokenInv, [TokenStep]_tokenVars
    PROVE  TokenInv'
<1> USE TokenAssumption
<1>1. ASSUME NEW c \in Askers, TakeCached(c) PROVE TokenInv'
  <2>1. Dated(cached) /\ clock \in 0..MaxTime /\ clock + Margin < cached.expires
    BY <1>1 DEF TakeCached, Usable, TokenInv, TokenTypeOK, Dated, Token
  <2>2. LiveOrLate([pc |-> "idle", token |-> cached, asked |-> clock, at |-> clock])
    BY <2>1 DEF LiveOrLate, Dated, Token
  <2>3. asker' \in [Askers -> Call] /\ (\A d \in Askers : AskerOK(d))'
    BY <1>1, <2>1, <2>2, HandOK DEF TakeCached, Dated
  <2> QED BY <1>1, <2>3 DEF TakeCached, TokenInv, TokenTypeOK, Dated
<1>2. ASSUME NEW c \in Askers, SendRequest(c) PROVE TokenInv'
  <2> DEFINE call == [pc |-> "request", token |-> NoToken, asked |-> clock, at |-> 0]
  <2>1. call \in Call
    BY DEF TokenInv, TokenTypeOK, Call
  <2>2. asker' = [asker EXCEPT ![c] = call] /\ clock' = clock /\ cached' = cached
    BY <1>2 DEF SendRequest
  <2>3. asker'[c] = call /\ clock \in 0..MaxTime
    BY <2>2 DEF TokenInv, TokenTypeOK
  <2>4. AskerOK(c)'
    BY <2>2, <2>3 DEF AskerOK
  <2> HIDE DEF call
  <2>5. asker' \in [Askers -> Call] /\ (\A d \in Askers : AskerOK(d))'
    BY <2>1, <2>2, <2>4, OtherAskers
  <2> QED BY <2>2, <2>5 DEF TokenInv, TokenTypeOK, Dated
<1>3. ASSUME NEW c \in Askers, IssueToken(c) PROVE TokenInv'
  <2> DEFINE token == [issued |-> clock, arrived |-> 0, expires |-> 0]
             call == [asker[c] EXCEPT !.pc = "issued", !.token = token]
  <2>1. token \in Token
    BY DEF TokenInv, TokenTypeOK, Token
  <2>2. asker[c] \in Call /\ asker[c].asked <= clock
    BY <1>3 DEF IssueToken, TokenInv, TokenTypeOK, AskerOK
  <2>3. call \in Call /\ call.pc = "issued" /\ call.token = token /\ call.asked = asker[c].asked
    BY <2>1, <2>2 DEF Call
  <2>4. asker' = [asker EXCEPT ![c] = call] /\ clock' = clock /\ cached' = cached
    BY <1>3 DEF IssueToken, TokenInv, TokenTypeOK
  <2> HIDE DEF call
  <2>5. asker'[c] = call
    BY <2>4 DEF TokenInv, TokenTypeOK
  <2>6. AskerOK(c)'
    BY <2>1, <2>2, <2>3, <2>5 DEF AskerOK
  <2>7. asker' \in [Askers -> Call] /\ (\A d \in Askers : AskerOK(d))'
    BY <2>3, <2>4, <2>6, OtherAskers
  <2> QED BY <2>4, <2>7 DEF TokenInv, TokenTypeOK, Dated
<1>4. ASSUME NEW c \in Askers, ReceiveToken(c) PROVE TokenInv'
  <2> DEFINE token == [issued |-> asker[c].token.issued, arrived |-> clock,
                       expires |-> clock + Lifetime]
             call == [asker[c] EXCEPT !.pc = "received", !.token = token]
  <2>1. /\ asker[c].token \in Token /\ asker[c].asked <= asker[c].token.issued
        /\ clock \in 0..MaxTime /\ asker[c] \in Call
    BY <1>4 DEF ReceiveToken, TokenInv, TokenTypeOK, AskerOK
  <2>2. Dated(token) /\ token.issued = asker[c].token.issued
    <3>1. clock + Lifetime \in 0..(MaxTime + Lifetime) /\ asker[c].token.issued \in 0..MaxTime
      BY <2>1 DEF Token
    <3>2. token \in Token
      BY <2>1, <3>1 DEF Token
    <3> QED BY <3>2 DEF Dated
  <2>3. asker' = [asker EXCEPT ![c] = call] /\ clock' = clock /\ cached' = cached
    BY <1>4 DEF ReceiveToken, TokenInv, TokenTypeOK
  <2> HIDE DEF token
  <2>4. call \in Call /\ call.pc = "received" /\ call.token = token /\ call.asked = asker[c].asked
    BY <2>1, <2>2 DEF Call, Dated
  <2> HIDE DEF call
  <2>5. asker'[c] = call
    BY <2>3 DEF TokenInv, TokenTypeOK
  <2>6. AskerOK(c)'
    BY <2>1, <2>2, <2>4, <2>5 DEF AskerOK, Dated
  <2>7. asker' \in [Askers -> Call] /\ (\A d \in Askers : AskerOK(d))'
    BY <2>3, <2>4, <2>6, OtherAskers
  <2> QED BY <2>3, <2>7 DEF TokenInv, TokenTypeOK, Dated
<1>5. ASSUME NEW c \in Askers, StoreToken(c) PROVE TokenInv'
  <2>1. /\ Dated(asker[c].token) /\ asker[c].asked <= asker[c].token.issued
        /\ clock \in 0..MaxTime /\ asker[c].asked \in 0..MaxTime
    BY <1>5 DEF StoreToken, TokenInv, TokenTypeOK, AskerOK, Call
  <2>2. LiveOrLate([pc |-> "idle", token |-> asker[c].token, asked |-> asker[c].asked, at |-> clock])
    BY <2>1 DEF LiveOrLate, Dated, Token
  <2>3. asker' \in [Askers -> Call] /\ (\A d \in Askers : AskerOK(d))'
    BY <1>5, <2>1, <2>2, HandOK DEF StoreToken, Dated
  <2> QED BY <1>5, <2>1, <2>3 DEF StoreToken, TokenInv, TokenTypeOK, Dated
<1>6. ASSUME NEW c \in Askers, RefreshFails(c) PROVE TokenInv'
  <2> DEFINE call == [pc |-> "idle", token |-> NoToken, asked |-> 0, at |-> 0]
  <2>1. call \in Call
    BY DEF Call
  <2>2. asker' = [asker EXCEPT ![c] = call] /\ clock' = clock /\ cached' = cached
    BY <1>6 DEF RefreshFails
  <2>3. asker'[c] = call
    BY <2>2 DEF TokenInv, TokenTypeOK
  <2>4. AskerOK(c)'
    BY <2>3 DEF AskerOK
  <2> HIDE DEF call
  <2>5. asker' \in [Askers -> Call] /\ (\A d \in Askers : AskerOK(d))'
    BY <2>1, <2>2, <2>4, OtherAskers
  <2> QED BY <2>2, <2>5 DEF TokenInv, TokenTypeOK, Dated
<1>7. CASE Tick
  <2>1. /\ clock' \in 0..MaxTime /\ clock' = clock + 1
        /\ cached' = cached /\ asker' = asker
    BY <1>7 DEF Tick, TokenInv, TokenTypeOK
  <2>2. ASSUME NEW c \in Askers PROVE AskerOK(c)'
    <3>1. AskerOK(c) /\ clock \in Nat /\ asker[c] \in Call
      BY DEF TokenInv, TokenTypeOK
    <3> QED BY <2>1, <3>1 DEF AskerOK, Dated, LiveOrLate, Call
  <2> QED BY <2>1, <2>2 DEF TokenInv, TokenTypeOK, Dated
<1>8. CASE UNCHANGED tokenVars
  BY <1>8 DEF tokenVars, TokenInv, TokenTypeOK, AskerOK, Dated, LiveOrLate
<1> QED
  BY <1>1, <1>2, <1>3, <1>4, <1>5, <1>6, <1>7, <1>8 DEF TokenStep, AskerStep

(* get_token hands out a token past its end only if the exchange it came   *)
(* from took longer than the margin, or this call longer than a token      *)
(* lives: for every lifetime and margin, answers that take any time, and   *)
(* any number of tasks (ecl-gcp-auth: auth.rs:97-114).                     *)
THEOREM DeadTokensAreLate == TokenSpec => [](TokenTypeOK /\ OnlyLateTokensAreDead)
<1>1. TokenInit => TokenInv
  BY TokenAssumption DEF TokenInit, TokenInv, TokenTypeOK, AskerOK, Token, NoToken, Call
<1>2. TokenInv => TokenTypeOK /\ OnlyLateTokensAreDead
  BY DEF TokenInv, AskerOK, LiveOrLate, OnlyLateTokensAreDead
<1> QED BY <1>1, <1>2, TokenStepOK, PTL DEF TokenSpec

-----------------------------------------------------------------------------
(* Moving objects.                                                         *)

Moving == mover.pc # "idle"

(* Only the newest version is staged; a call has removed what it is past,  *)
(* and what it is about to delete it has copied.                           *)
StagedNewest == \A o \in Objects : staged[o] \in {0, uploads[o]}
MoverOK ==
    /\ Moving => mover.at \in 1..Len(Order)
    /\ mover.pc = "copy" => onEnd = "move"
    /\ Moving => onEnd # "none"
GoneBefore ==
    Moving => \A k \in 1..Len(Order) :
                k < mover.at /\ uploads[Order[k]] = 1 => staged[Order[k]] = 0
CopiedBefore ==
    mover.pc = "delete" /\ onEnd = "move" =>
        \/ filed[BaseOf[Current]] = <<Current, uploads[Current]>>
        \/ <<Current, uploads[Current]>> \in late

LifecycleInv ==
    /\ LifecycleTypeOK /\ StagedNewest /\ MoverOK
    /\ GoneBefore /\ CopiedBefore /\ NewestKept /\ GoneInOrder

LEMMA OrderAt ==
    ASSUME NEW k \in 1..Len(Order)
    PROVE  Order[k] \in Objects /\ BaseOf[Order[k]] \in Bases
BY LifecycleAssumption

LEMMA LifecycleInitOK ==
    ASSUME LifecycleInit PROVE LifecycleInv
<1>1. LifecycleTypeOK
  BY LifecycleAssumption
  DEF LifecycleInit, LifecycleTypeOK, Version, Copied, Idle, Nothing
<1>2. \A k \in 1..Len(Order) : Order[k] \in Objects
  BY OrderAt
<1>3. StagedNewest /\ MoverOK /\ GoneBefore /\ CopiedBefore
  BY DEF LifecycleInit, StagedNewest, MoverOK, GoneBefore, CopiedBefore, Moving, Idle
<1>4. NewestKept
  BY DEF LifecycleInit, NewestKept
<1>5. GoneInOrder
  BY <1>2 DEF LifecycleInit, GoneInOrder
<1> QED BY <1>1, <1>3, <1>4, <1>5 DEF LifecycleInv

LEMMA UploadOK ==
    ASSUME LifecycleInv, NEW o \in Objects, Upload(o) PROVE LifecycleInv'
<1> USE DEF LifecycleInv
<1>1. /\ uploads' = [uploads EXCEPT ![o] = uploads[o] + 1]
      /\ staged' = [staged EXCEPT ![o] = uploads[o] + 1]
      /\ onEnd' = onEnd /\ filed' = filed /\ mover' = mover /\ moves' = moves
      /\ uploads[o] < MaxUploads
  BY DEF Upload
<1>2. uploads[o] \in Nat /\ uploads[o] + 1 \in Version /\ uploads[o] + 1 # 1
  BY <1>1, LifecycleAssumption DEF LifecycleTypeOK, Version
<1>3. /\ uploads' \in [Objects -> Version] /\ staged' \in [Objects -> 0..MaxUploads]
      /\ uploads'[o] = uploads[o] + 1 /\ staged'[o] = uploads[o] + 1
      /\ \A p \in Objects : p # o => uploads'[p] = uploads[p] /\ staged'[p] = staged[p]
  BY <1>1, <1>2, LifecycleAssumption DEF LifecycleTypeOK, Version
<1>4. late \subseteq late' /\ late' \subseteq Copied
  BY <1>2 DEF Upload, LifecycleTypeOK, Copied
<1>5. LifecycleTypeOK'
  BY <1>1, <1>3, <1>4 DEF LifecycleTypeOK
<1>6. StagedNewest'
  BY <1>3 DEF StagedNewest
<1>7. MoverOK'
  BY <1>1 DEF MoverOK, Moving
<1>8. \A k \in 1..Len(Order) : Order[k] \in Objects
  BY OrderAt
<1>9. GoneBefore'
  BY <1>1, <1>2, <1>3, <1>8 DEF GoneBefore, Moving
<1>10. CopiedBefore'
  <2> SUFFICES ASSUME mover.pc = "delete", onEnd = "move"
               PROVE  \/ filed[BaseOf[Current]] = <<Current, uploads'[Current]>>
                      \/ <<Current, uploads'[Current]>> \in late'
    BY <1>1 DEF CopiedBefore, Current
  <2>1. At("delete") /\ Current \in Objects
    BY <1>8 DEF At, MoverOK, Moving, Current
  <2>2. CASE Current = o
    BY <1>3, <2>1, <2>2 DEF Upload
  <2>3. CASE Current # o
    BY <1>3, <1>4, <2>1, <2>3 DEF CopiedBefore
  <2> QED BY <2>2, <2>3
<1>11. NewestKept'
  BY <1>1, <1>3, <1>4 DEF NewestKept, Rivals
<1>12. GoneInOrder'
  <2> SUFFICES ASSUME NEW i \in 1..Len(Order), NEW j \in 1..Len(Order), i < j,
                      staged'[Order[j]] = 0, uploads'[Order[i]] = 1
               PROVE  staged'[Order[i]] = 0
    BY DEF GoneInOrder
  <2>1. Order[i] \in Objects /\ Order[j] \in Objects
    BY <1>8
  <2>2. uploads[o] + 1 # 0
    BY <1>2
  <2>3. Order[i] # o /\ Order[j] # o
    BY <1>2, <1>3, <2>2
  <2>4. staged[Order[j]] = 0 /\ uploads[Order[i]] = 1
    BY <1>3, <2>1, <2>3
  <2> QED BY <1>3, <2>1, <2>3, <2>4 DEF GoneInOrder
<1> QED BY <1>5, <1>6, <1>7, <1>9, <1>10, <1>11, <1>12

LEMMA StartMoveOK ==
    ASSUME LifecycleInv, StartMove PROVE LifecycleInv'
<1> USE DEF LifecycleInv
<1>1. /\ onEnd' = onEnd /\ filed' = filed /\ staged' = staged
      /\ uploads' = uploads /\ late' = late /\ onEnd # "none"
      /\ mover' = [pc |-> IF onEnd = "move" THEN "copy" ELSE "delete", at |-> 1]
  BY DEF StartMove
<1>2. 1 \in 1..Len(Order) /\ 1 \in 0..Len(Order)
  BY LifecycleAssumption DEF StartMove
<1>3. LifecycleTypeOK'
  BY <1>1, <1>2, LifecycleAssumption DEF LifecycleTypeOK, StartMove
<1>4. MoverOK' /\ GoneBefore'
  BY <1>1, <1>2 DEF MoverOK, Moving, GoneBefore
<1>5. CopiedBefore'
  BY <1>1 DEF CopiedBefore
<1>6. StagedNewest' /\ NewestKept' /\ GoneInOrder'
  BY <1>1 DEF StagedNewest, NewestKept, Rivals, GoneInOrder
<1> QED BY <1>3, <1>4, <1>5, <1>6

(* A copy may replace what another object left under its base name.        *)
LEMMA CopyKeeps ==
    ASSUME LifecycleInv, At("copy"), staged' = staged, uploads' = uploads,
           late' = late, onEnd' = onEnd, moves' = moves,
           filed' = filed \/ (staged[Current] # 0 /\ filed' = CopyDone)
    PROVE  /\ Current \in Objects /\ mover.at \in 1..Len(Order)
           /\ filed' \in [Bases -> {Nothing} \cup Copied]
           /\ StagedNewest' /\ NewestKept' /\ GoneInOrder'
<1> USE DEF LifecycleInv
<1>1. mover.at \in 1..Len(Order)
  BY DEF At, MoverOK, Moving
<1>2. Current \in Objects /\ BaseOf[Current] \in Bases
  BY <1>1, OrderAt DEF Current
<1>3. ASSUME staged[Current] # 0, filed' = CopyDone
      PROVE  /\ filed' \in [Bases -> {Nothing} \cup Copied]
             /\ \A b \in Bases : b # BaseOf[Current] => filed'[b] = filed[b]
  <2>1. staged[Current] \in Version
    BY <1>2, <1>3, LifecycleAssumption DEF LifecycleTypeOK, Version
  <2>2. <<Current, staged[Current]>> \in Copied
    BY <1>2, <2>1 DEF Copied
  <2> QED BY <1>2, <1>3, <2>2 DEF CopyDone, LifecycleTypeOK
<1>4. filed' \in [Bases -> {Nothing} \cup Copied]
  BY <1>3 DEF LifecycleTypeOK
<1>5. ASSUME NEW o \in Objects, onEnd # "delete"
      PROVE  \/ Rivals(o) # {}
             \/ <<o, uploads[o]>> \in late
             \/ staged[o] = uploads[o]
             \/ filed'[BaseOf[o]] = <<o, uploads[o]>>
  <2>1. CASE filed' = filed
    BY <1>5, <2>1 DEF NewestKept
  <2>2. CASE staged[Current] # 0 /\ filed' = CopyDone
    <3>1. CASE o = Current
      BY <2>2, <3>1 DEF StagedNewest
    <3>2. CASE o # Current /\ BaseOf[o] = BaseOf[Current]
      BY <1>2, <3>2 DEF Rivals
    <3>3. CASE BaseOf[o] # BaseOf[Current]
      <4>1. BaseOf[o] \in Bases
        BY LifecycleAssumption
      <4>2. filed'[BaseOf[o]] = filed[BaseOf[o]]
        BY <1>3, <2>2, <3>3, <4>1
      <4> QED BY <1>5, <4>2 DEF NewestKept
    <3> QED BY <3>1, <3>2, <3>3
  <2> QED BY <2>1, <2>2
<1>6. NewestKept'
  BY <1>5 DEF NewestKept, Rivals
<1>7. StagedNewest' /\ GoneInOrder'
  BY DEF StagedNewest, GoneInOrder
<1> QED BY <1>1, <1>2, <1>4, <1>6, <1>7

LEMMA CopyObjectOK ==
    ASSUME LifecycleInv, CopyObject PROVE LifecycleInv'
<1> USE DEF LifecycleInv
<1>1. /\ At("copy") /\ staged[Current] # 0 /\ filed' = CopyDone
      /\ staged' = staged /\ uploads' = uploads /\ late' = late
      /\ onEnd' = onEnd /\ moves' = moves /\ mover' = [mover EXCEPT !.pc = "delete"]
  BY DEF CopyObject
<1>2. /\ Current \in Objects /\ mover.at \in 1..Len(Order)
      /\ filed' \in [Bases -> {Nothing} \cup Copied]
      /\ StagedNewest' /\ NewestKept' /\ GoneInOrder'
  BY <1>1, CopyKeeps
<1>3. mover' \in [pc: {"idle", "copy", "delete"}, at: 0..Len(Order)]
      /\ mover'.pc = "delete" /\ mover'.at = mover.at /\ mover.pc = "copy"
  BY <1>1 DEF LifecycleTypeOK, At
<1>4. LifecycleTypeOK'
  BY <1>1, <1>2, <1>3 DEF LifecycleTypeOK
<1>5. MoverOK' /\ GoneBefore'
  BY <1>1, <1>2, <1>3 DEF MoverOK, Moving, GoneBefore
<1>6. CopiedBefore'
  <2>1. Current' = Current
    BY <1>3 DEF Current
  <2>2. staged[Current] = uploads[Current]
    BY <1>1, <1>2 DEF StagedNewest
  <2>3. BaseOf[Current] \in Bases
    BY <1>2, LifecycleAssumption
  <2>4. filed'[BaseOf[Current]] = <<Current, uploads[Current]>>
    BY <1>1, <2>2, <2>3 DEF CopyDone, LifecycleTypeOK
  <2> QED BY <1>1, <2>1, <2>4 DEF CopiedBefore
<1> QED BY <1>2, <1>4, <1>5, <1>6

LEMMA CopyFailsOK ==
    ASSUME LifecycleInv, CopyFails PROVE LifecycleInv'
<1> USE DEF LifecycleInv
<1>1. /\ At("copy") /\ (filed' = filed \/ (staged[Current] # 0 /\ filed' = CopyDone))
      /\ staged' = staged /\ uploads' = uploads /\ late' = late
      /\ onEnd' = onEnd /\ moves' = moves /\ mover' = Idle
  BY DEF CopyFails
<1>2. /\ filed' \in [Bases -> {Nothing} \cup Copied]
      /\ StagedNewest' /\ NewestKept' /\ GoneInOrder'
  BY <1>1, CopyKeeps
<1>3. mover' \in [pc: {"idle", "copy", "delete"}, at: 0..Len(Order)]
      /\ mover'.pc = "idle"
  BY <1>1, LifecycleAssumption DEF Idle
<1>4. LifecycleTypeOK'
  BY <1>1, <1>2, <1>3 DEF LifecycleTypeOK
<1>5. MoverOK' /\ GoneBefore' /\ CopiedBefore'
  BY <1>3 DEF MoverOK, Moving, GoneBefore, CopiedBefore
<1> QED BY <1>2, <1>4, <1>5

(* What is deleted has been copied, and what is before it is gone.         *)
LEMMA DeleteKeeps ==
    ASSUME LifecycleInv, At("delete"), filed' = filed, uploads' = uploads,
           late' = late, onEnd' = onEnd, moves' = moves,
           staged' = staged \/ staged' = [staged EXCEPT ![Current] = 0]
    PROVE  /\ Current \in Objects /\ mover.at \in 1..Len(Order)
           /\ staged' \in [Objects -> 0..MaxUploads]
           /\ StagedNewest' /\ NewestKept' /\ GoneInOrder'
<1> USE DEF LifecycleInv
<1>1. mover.at \in 1..Len(Order) /\ Moving
  BY DEF At, MoverOK, Moving
<1>2. Current \in Objects
  BY <1>1, OrderAt DEF Current
<1>3. CASE staged' = staged
  BY <1>1, <1>2, <1>3
  DEF LifecycleTypeOK, StagedNewest, NewestKept, Rivals, GoneInOrder
<1>4. CASE staged' = [staged EXCEPT ![Current] = 0]
  <2>1. /\ staged' \in [Objects -> 0..MaxUploads] /\ staged'[Current] = 0
        /\ \A o \in Objects : o # Current => staged'[o] = staged[o]
    BY <1>2, <1>4, LifecycleAssumption DEF LifecycleTypeOK
  <2>2. StagedNewest'
    BY <2>1 DEF StagedNewest
  <2>3. ASSUME NEW o \in Objects, onEnd # "delete"
        PROVE  \/ Rivals(o) # {}
               \/ <<o, uploads[o]>> \in late
               \/ staged'[o] = uploads[o]
               \/ filed[BaseOf[o]] = <<o, uploads[o]>>
    <3>1. CASE o = Current
      <4>1. onEnd = "move"
        BY <1>1, <2>3 DEF MoverOK, LifecycleTypeOK, LifecycleAction
      <4> QED BY <3>1, <4>1 DEF CopiedBefore, At
    <3>2. CASE o # Current
      BY <2>1, <2>3, <3>2 DEF NewestKept
    <3> QED BY <3>1, <3>2
  <2>4. NewestKept'
    BY <2>3 DEF NewestKept, Rivals
  <2>5. ASSUME NEW i \in 1..Len(Order), NEW j \in 1..Len(Order), i < j,
               staged'[Order[j]] = 0, uploads[Order[i]] = 1
        PROVE  staged'[Order[i]] = 0
    <3>1. Order[i] \in Objects /\ Order[j] \in Objects
      BY OrderAt
    <3>2. CASE Order[i] = Current
      BY <2>1, <3>2
    <3>3. CASE Order[i] # Current /\ Order[j] = Current
      <4>1. j = mover.at
        BY <1>1, <3>3, LifecycleAssumption DEF Current
      <4>2. staged[Order[i]] = 0
        BY <1>1, <2>5, <4>1 DEF GoneBefore
      <4> QED BY <2>1, <3>1, <3>3, <4>2
    <3>4. CASE Order[i] # Current /\ Order[j] # Current
      BY <2>1, <2>5, <3>1, <3>4 DEF GoneInOrder
    <3> QED BY <3>2, <3>3, <3>4
  <2>6. GoneInOrder'
    BY <2>5 DEF GoneInOrder
  <2> QED BY <1>1, <1>2, <2>1, <2>2, <2>4, <2>6
<1> QED BY <1>3, <1>4

LEMMA DeleteObjectOK ==
    ASSUME LifecycleInv, DeleteObject PROVE LifecycleInv'
<1> USE DEF LifecycleInv
<1>1. /\ At("delete") /\ staged' = [staged EXCEPT ![Current] = 0]
      /\ filed' = filed /\ uploads' = uploads /\ late' = late
      /\ onEnd' = onEnd /\ moves' = moves /\ mover' = NextObject
  BY DEF DeleteObject
<1>2. /\ Current \in Objects /\ mover.at \in 1..Len(Order)
      /\ staged' \in [Objects -> 0..MaxUploads]
      /\ StagedNewest' /\ NewestKept' /\ GoneInOrder'
  BY <1>1, DeleteKeeps
<1>3. CASE mover.at = Len(Order)
  <2>1. mover' = [pc |-> "idle", at |-> 0]
    BY <1>1, <1>3 DEF NextObject, Idle
  <2>2. LifecycleTypeOK'
    BY <1>1, <1>2, <2>1, LifecycleAssumption DEF LifecycleTypeOK
  <2> QED BY <1>2, <2>1, <2>2 DEF MoverOK, Moving, GoneBefore, CopiedBefore
<1>4. CASE mover.at # Len(Order)
  <2>1. mover' = [pc |-> IF onEnd = "move" THEN "copy" ELSE "delete", at |-> mover.at + 1]
    BY <1>1, <1>4 DEF NextObject
  <2>2. mover.at + 1 \in 1..Len(Order) /\ mover.at + 1 \in 0..Len(Order)
    BY <1>2, <1>4, LifecycleAssumption
  <2>3. LifecycleTypeOK'
    BY <1>1, <1>2, <2>1, <2>2 DEF LifecycleTypeOK
  <2>4. MoverOK' /\ CopiedBefore'
    BY <1>1, <2>1, <2>2 DEF MoverOK, Moving, CopiedBefore, At
  <2>5. ASSUME NEW k \in 1..Len(Order), k < mover.at + 1, uploads[Order[k]] = 1
        PROVE  staged'[Order[k]] = 0
    <3>1. Order[k] \in Objects
      BY OrderAt
    <3>2. CASE k = mover.at
      BY <1>1, <1>2, <3>2 DEF Current, LifecycleTypeOK
    <3>3. CASE k # mover.at
      <4>1. staged[Order[k]] = 0
        BY <1>1, <1>2, <2>5, <3>3 DEF GoneBefore, Moving, At
      <4> QED BY <1>1, <1>2, <3>1, <4>1 DEF LifecycleTypeOK
    <3> QED BY <3>2, <3>3
  <2>6. GoneBefore'
    BY <1>1, <2>1, <2>5 DEF GoneBefore
  <2> QED BY <1>2, <2>3, <2>4, <2>6
<1> QED BY <1>3, <1>4

LEMMA DeleteFailsOK ==
    ASSUME LifecycleInv, DeleteFails PROVE LifecycleInv'
<1> USE DEF LifecycleInv
<1>1. /\ At("delete")
      /\ staged' = staged \/ staged' = [staged EXCEPT ![Current] = 0]
      /\ filed' = filed /\ uploads' = uploads /\ late' = late
      /\ onEnd' = onEnd /\ moves' = moves /\ mover' = Idle
  BY DEF DeleteFails
<1>2. /\ staged' \in [Objects -> 0..MaxUploads]
      /\ StagedNewest' /\ NewestKept' /\ GoneInOrder'
  BY <1>1, DeleteKeeps
<1>3. mover' \in [pc: {"idle", "copy", "delete"}, at: 0..Len(Order)]
      /\ mover'.pc = "idle"
  BY <1>1, LifecycleAssumption DEF Idle
<1>4. LifecycleTypeOK'
  BY <1>1, <1>2, <1>3 DEF LifecycleTypeOK
<1>5. MoverOK' /\ GoneBefore' /\ CopiedBefore'
  BY <1>3 DEF MoverOK, Moving, GoneBefore, CopiedBefore
<1> QED BY <1>2, <1>4, <1>5

(* For every list of objects, any failures of the requests and any uploads *)
(* meanwhile: no newest version is lost to a move, and objects go in the   *)
(* order of the list (lifecycle.rs:64-219).                                *)
THEOREM MovesKeepObjects == LifecycleSpec => [](LifecycleTypeOK /\ MovesAreSafe)
<1>1. LifecycleInit => LifecycleInv
  BY LifecycleInitOK
<1>2. LifecycleInv /\ [LifecycleStep]_lifecycleVars => LifecycleInv'
  <2> SUFFICES ASSUME LifecycleInv, [LifecycleStep]_lifecycleVars PROVE LifecycleInv'
    OBVIOUS
  <2>1. CASE UNCHANGED lifecycleVars
    BY <2>1 DEF lifecycleVars, LifecycleInv, LifecycleTypeOK, StagedNewest, MoverOK,
       Moving, GoneBefore, CopiedBefore, Current, NewestKept, Rivals, GoneInOrder
  <2> QED
    BY <2>1, UploadOK, StartMoveOK, CopyObjectOK, CopyFailsOK, DeleteObjectOK,
       DeleteFailsOK
    DEF LifecycleStep
<1>3. LifecycleInv => LifecycleTypeOK /\ MovesAreSafe
  BY DEF LifecycleInv, MovesAreSafe
<1> QED BY <1>1, <1>2, <1>3, PTL DEF LifecycleSpec

-----------------------------------------------------------------------------
(* The schedule.                                                           *)

(* The stages that s still waits for.                                      *)
WaitedFor(s) == Before(s) \ processed

DegreesOK == \A s \in Stages : degree[s] = Cardinality(WaitedFor(s))
QueueOK == queue = {s \in Stages \ processed : WaitedFor(s) = {}}
ProcessedOK == \A s \in processed : Before(s) \subseteq processed
DeeperOK == \A a \in processed, b \in Stages : a \in Before(b) => depth[a] < depth[b]
EarliestOK ==
    \A b \in Stages : depth[b] > 0 =>
        \E a \in Before(b) \cap processed : depth[b] = depth[a] + 1
(* No stage of a circle is ever taken from the queue.                      *)
CirclesOK == \A S \in SUBSET Stages : Circle(S) => S \cap processed = {}

SortInv ==
    DegreesOK /\ QueueOK /\ ProcessedOK /\ DeeperOK /\ EarliestOK /\ CirclesOK

ScheduleInv ==
    /\ ScheduleTypeOK
    /\ schedule = "build" => processed = {} /\ depth = [s \in Stages |-> 0]
    /\ schedule \in {"sort", "cycle", "batches"} => SortInv
    /\ schedule = "cycle" => queue = {} /\ processed # Stages
    /\ schedule = "batches" => queue = {} /\ processed = Stages

LEMMA FiniteBefore ==
    ASSUME NEW s \in Stages, NEW P
    PROVE  /\ Before(s) \subseteq Stages
           /\ IsFiniteSet(Before(s) \ P) /\ Cardinality(Before(s) \ P) \in Nat
           /\ Cardinality(Before(s) \ P) = 0 <=> Before(s) \ P = {}
<1>1. Before(s) \subseteq Stages
  BY DEF Before
<1>2. IsFiniteSet(Before(s) \ P)
  BY <1>1, FS_Subset, ScheduleAssumption
<1> QED BY <1>1, <1>2, FS_EmptySet, FS_CardinalityType

(* Nothing waits in a circle for what has been taken.                      *)
LEMMA StuckCircle ==
    ASSUME ScheduleTypeOK, SortInv, queue = {}, processed # Stages
    PROVE  Circle(Stuck)
<1>1. Stuck = Stages \ processed
  <2>1. ASSUME NEW s \in Stages, s \in processed PROVE degree[s] = 0
    <3>1. WaitedFor(s) = {} /\ degree[s] = Cardinality(WaitedFor(s))
      BY <2>1 DEF SortInv, DegreesOK, ProcessedOK, WaitedFor
    <3> QED BY <3>1, FS_EmptySet
  <2>2. ASSUME NEW s \in Stages, s \notin processed PROVE degree[s] > 0
    <3>1. WaitedFor(s) # {} /\ degree[s] = Cardinality(WaitedFor(s))
      BY <2>2 DEF SortInv, QueueOK, DegreesOK
    <3>2. Cardinality(WaitedFor(s)) \in Nat /\ Cardinality(WaitedFor(s)) # 0
      BY <3>1, FiniteBefore DEF WaitedFor
    <3> QED BY <3>1, <3>2
  <2> QED BY <2>1, <2>2 DEF Stuck
<1>2. ASSUME NEW b \in Stages \ processed PROVE Before(b) \cap Stuck # {}
  <2>1. WaitedFor(b) # {}
    BY <1>2 DEF SortInv, QueueOK
  <2> QED BY <1>1, <2>1, FiniteBefore DEF WaitedFor
<1> QED BY <1>1, <1>2 DEF Circle, ScheduleTypeOK

LEMMA SortFrame ==
    ASSUME SortInv, declared' = declared, queue' = queue, processed' = processed,
           degree' = degree, depth' = depth
    PROVE  SortInv'
<1>1. \A s \in Stages : Before(s)' = Before(s) /\ WaitedFor(s)' = WaitedFor(s)
  BY DEF Before, Edges, WaitedFor
<1>2. \A S \in SUBSET Stages : Circle(S)' => Circle(S)
  BY <1>1 DEF Circle
<1>3. DegreesOK' /\ QueueOK'
  BY <1>1 DEF SortInv, DegreesOK, QueueOK
<1>4. ProcessedOK'
  BY DEF SortInv, ProcessedOK, Before, Edges
<1>5. DeeperOK' /\ EarliestOK'
  BY <1>1 DEF SortInv, DeeperOK, EarliestOK
<1>6. CirclesOK'
  BY <1>2 DEF SortInv, CirclesOK
<1> QED BY <1>3, <1>4, <1>5, <1>6 DEF SortInv

LEMMA BuildGraphOK ==
    ASSUME ScheduleInv, BuildGraph PROVE ScheduleInv'
<1>1. /\ schedule' = "sort" /\ degree' = [s \in Stages |-> InDegree(s)]
      /\ queue' = {s \in Stages : degree'[s] = 0}
      /\ declared' = declared /\ processed' = processed /\ depth' = depth
      /\ processed = {} /\ depth = [s \in Stages |-> 0]
  BY DEF BuildGraph, ScheduleInv
<1>2. \A s \in Stages : Before(s)' = Before(s)
  BY <1>1 DEF Before, Edges
<1>3. \A s \in Stages : InDegree(s) = Cardinality(Before(s) \ {}) /\ InDegree(s) \in Int
  <2> TAKE s \in Stages
  <2>1. Before(s) \ {} = Before(s)
    OBVIOUS
  <2>2. Cardinality(Before(s) \ {}) \in Nat
    BY FiniteBefore
  <2> QED BY <2>1, <2>2 DEF InDegree
<1>4. ScheduleTypeOK'
  BY <1>1, <1>3 DEF ScheduleInv, ScheduleTypeOK
<1>5. \A s \in Stages : WaitedFor(s)' = Before(s) \ {}
  BY <1>1, <1>2 DEF WaitedFor
<1>6. DegreesOK'
  BY <1>1, <1>3, <1>5 DEF DegreesOK
<1>7. QueueOK'
  BY <1>1, <1>3, <1>5, FiniteBefore DEF QueueOK
<1>8. ProcessedOK' /\ DeeperOK' /\ EarliestOK' /\ CirclesOK'
  BY <1>1 DEF ProcessedOK, DeeperOK, EarliestOK, CirclesOK
<1> QED BY <1>1, <1>4, <1>6, <1>7, <1>8 DEF ScheduleInv, SortInv

LEMMA PopStageOK ==
    ASSUME ScheduleInv, NEW s \in Stages, PopStage(s) PROVE ScheduleInv'
<1>1. /\ schedule = "sort" /\ schedule' = "sort" /\ s \in queue
      /\ declared' = declared /\ processed' = processed \cup {s}
      /\ depth' = [b \in Stages |-> IF b \in After(s) /\ depth[b] <= depth[s]
                                    THEN depth[s] + 1 ELSE depth[b]]
      /\ degree' = [b \in Stages |-> IF b \in After(s) THEN degree[b] - 1 ELSE degree[b]]
      /\ queue' = (queue \ {s}) \cup {b \in After(s) : degree'[b] = 0}
  BY DEF PopStage
<1>2. ScheduleTypeOK /\ SortInv
  BY <1>1 DEF ScheduleInv
<1>3. s \notin processed /\ Before(s) \subseteq processed
  BY <1>1, <1>2 DEF SortInv, QueueOK, WaitedFor
<1>4. \A b \in Stages : Before(b)' = Before(b)
  BY <1>1 DEF Before, Edges
<1>5. \A b \in Stages : b \in After(s) <=> s \in Before(b)
  BY DEF After, Before
<1>6. s \notin After(s)
  BY <1>3, <1>5
<1>7. After(s) \subseteq Stages
  BY DEF After
<1>8. \A b \in Stages : WaitedFor(b)' = WaitedFor(b) \ {s}
  BY <1>1, <1>4 DEF WaitedFor
<1>9. \A b \in Stages : depth[b] \in Nat /\ degree[b] \in Int
  BY <1>2 DEF ScheduleTypeOK
<1>10. ScheduleTypeOK'
  <2>1. depth' \in [Stages -> Nat] /\ degree' \in [Stages -> Int]
    BY <1>1, <1>9
  <2>2. queue' \in SUBSET Stages /\ processed' \in SUBSET Stages
    BY <1>1, <1>2, <1>7 DEF ScheduleTypeOK
  <2> QED BY <1>1, <1>2, <2>1, <2>2 DEF ScheduleTypeOK
<1>11. DegreesOK'
  <2>1. ASSUME NEW b \in Stages PROVE degree'[b] = Cardinality(WaitedFor(b)')
    <3>1. degree[b] = Cardinality(WaitedFor(b)) /\ IsFiniteSet(WaitedFor(b))
      BY <1>2, FiniteBefore DEF SortInv, DegreesOK, WaitedFor
    <3>2. CASE b \in After(s)
      <4>1. s \in WaitedFor(b)
        BY <1>3, <1>5, <3>2 DEF WaitedFor
      <4>2. Cardinality(WaitedFor(b) \ {s}) = Cardinality(WaitedFor(b)) - 1
        BY <3>1, <4>1, FS_RemoveElement
      <4> QED BY <1>1, <1>8, <3>1, <3>2, <4>2
    <3>3. CASE b \notin After(s)
      <4>1. WaitedFor(b) \ {s} = WaitedFor(b)
        BY <1>5, <3>3 DEF WaitedFor
      <4> QED BY <1>1, <1>8, <3>1, <3>3, <4>1
    <3> QED BY <3>2, <3>3
  <2> QED BY <2>1 DEF DegreesOK
<1>12. QueueOK'
  <2>1. ASSUME NEW b \in Stages
        PROVE  b \in queue' <=> b \notin processed' /\ WaitedFor(b)' = {}
    <3>1. degree'[b] = 0 <=> WaitedFor(b)' = {}
      <4>1. Cardinality(Before(b) \ processed') = 0 <=> Before(b) \ processed' = {}
        BY FiniteBefore
      <4> QED BY <1>4, <1>11, <4>1 DEF DegreesOK, WaitedFor
    <3>2. b \in queue <=> b \notin processed /\ WaitedFor(b) = {}
      BY <1>2 DEF SortInv, QueueOK
    <3>3. CASE b = s
      BY <1>1, <1>6, <3>3
    <3>4. CASE b # s /\ b \in After(s)
      <4>1. s \in Before(b)
        BY <1>5, <3>4
      <4>2. b \notin processed
        BY <1>2, <1>3, <4>1 DEF SortInv, ProcessedOK
      <4>3. b \notin queue
        BY <1>3, <3>2, <4>1 DEF WaitedFor
      <4> QED BY <1>1, <3>1, <3>4, <4>2, <4>3
    <3>5. CASE b # s /\ b \notin After(s)
      <4>1. WaitedFor(b)' = WaitedFor(b)
        BY <1>5, <1>8, <3>5 DEF WaitedFor
      <4> QED BY <1>1, <3>2, <3>5, <4>1
    <3> QED BY <3>3, <3>4, <3>5
  <2>2. queue' \subseteq Stages
    BY <1>10 DEF ScheduleTypeOK
  <2> QED BY <2>1, <2>2 DEF QueueOK
<1>13. ProcessedOK'
  <2>1. ASSUME NEW b \in processed' PROVE Before(b) \subseteq processed'
    BY <1>1, <1>2, <1>3, <2>1 DEF SortInv, ProcessedOK
  <2>2. processed' \subseteq Stages
    BY <1>10 DEF ScheduleTypeOK
  <2> QED BY <1>4, <2>1, <2>2 DEF ProcessedOK
<1>14. \A a \in processed' : depth'[a] = depth[a] /\ a \in Stages
  <2>1. ASSUME NEW a \in processed' PROVE a \in Stages /\ a \notin After(s)
    BY <1>1, <1>2, <1>3, <1>5, <1>6, <2>1 DEF SortInv, ProcessedOK, ScheduleTypeOK
  <2> QED BY <1>1, <2>1
<1>15. DeeperOK'
  <2>1. ASSUME NEW a \in processed', NEW b \in Stages, a \in Before(b)
        PROVE  depth'[a] < depth'[b]
    <3>1. depth'[a] = depth[a] /\ depth[a] \in Nat /\ depth[b] \in Nat /\ depth[s] \in Nat
      BY <1>9, <1>14
    <3>2. depth'[b] = IF b \in After(s) /\ depth[b] <= depth[s]
                      THEN depth[s] + 1 ELSE depth[b]
      BY <1>1
    <3>3. CASE a = s
      BY <1>5, <2>1, <3>1, <3>2, <3>3
    <3>4. CASE a \in processed
      <4>1. depth[a] < depth[b]
        BY <1>2, <2>1, <3>4 DEF SortInv, DeeperOK
      <4> QED BY <3>1, <3>2, <4>1
    <3> QED BY <1>1, <3>3, <3>4
  <2> QED BY <1>4, <2>1 DEF DeeperOK
<1>16. EarliestOK'
  <2>1. ASSUME NEW b \in Stages, depth'[b] > 0
        PROVE  \E a \in Before(b) \cap processed' : depth'[b] = depth'[a] + 1
    <3>1. CASE b \in After(s) /\ depth[b] <= depth[s]
      <4>1. s \in Before(b) \cap processed' /\ depth'[b] = depth[s] + 1 /\ depth'[s] = depth[s]
        BY <1>1, <1>5, <1>14, <3>1
      <4> QED BY <4>1
    <3>2. CASE ~(b \in After(s) /\ depth[b] <= depth[s])
      <4>1. depth'[b] = depth[b]
        BY <1>1, <3>2
      <4>2. PICK a \in Before(b) \cap processed : depth[b] = depth[a] + 1
        BY <1>2, <2>1, <4>1 DEF SortInv, EarliestOK
      <4>3. a \in Before(b) \cap processed' /\ depth'[a] = depth[a]
        BY <1>1, <1>14, <4>2
      <4> QED BY <4>1, <4>2, <4>3
    <3> QED BY <3>1, <3>2
  <2> QED BY <1>4, <2>1 DEF EarliestOK
<1>17. CirclesOK'
  <2>1. ASSUME NEW S \in SUBSET Stages, Circle(S)' PROVE S \cap processed' = {}
    <3>1. Circle(S)
      BY <1>4, <2>1 DEF Circle
    <3>2. S \cap processed = {}
      BY <1>2, <3>1 DEF SortInv, CirclesOK
    <3>3. s \notin S
      BY <1>3, <3>1, <3>2 DEF Circle
    <3> QED BY <1>1, <3>2, <3>3
  <2> QED BY <2>1 DEF CirclesOK
<1> QED
  BY <1>1, <1>10, <1>11, <1>12, <1>13, <1>15, <1>16, <1>17 DEF ScheduleInv, SortInv

LEMMA ScheduleAnswer == ASSUME ScheduleInv PROVE ScheduleIsRight
<1>1. ASSUME schedule = "batches" PROVE CreatorsFirst /\ EarliestBatch
  <2>1. SortInv /\ processed = Stages
    BY <1>1 DEF ScheduleInv
  <2>2. \A e \in Edges : e[1] \in Stages /\ e[2] \in Stages /\ e[1] \in Before(e[2])
    BY DEF Edges, Before
  <2>3. CreatorsFirst
    BY <2>1, <2>2 DEF CreatorsFirst, SortInv, DeeperOK
  <2>4. EarliestBatch
    BY <2>1 DEF EarliestBatch, SortInv, EarliestOK
  <2> QED BY <2>3, <2>4
<1>2. ASSUME schedule = "batches", NEW S \in SUBSET Stages PROVE ~Circle(S)
  BY <1>2 DEF ScheduleInv, SortInv, CirclesOK, Circle
<1>3. ASSUME schedule = "cycle" PROVE Circle(Stuck)
  BY <1>3, StuckCircle DEF ScheduleInv
<1> QED BY <1>1, <1>2, <1>3 DEF ScheduleIsRight

(* compute_schedule answers every finite set of declarations rightly:      *)
(* batches in the order of the dependencies, none of them later than       *)
(* needed, or an error that names a circle (schedule.rs:29-131).           *)
THEOREM ScheduleCorrect == ScheduleSpec => [](ScheduleTypeOK /\ ScheduleIsRight)
<1>1. ScheduleInit => ScheduleInv
  BY ScheduleAssumption DEF ScheduleInit, ScheduleInv, ScheduleTypeOK
<1>2. ScheduleInv /\ [ScheduleStep]_scheduleVars => ScheduleInv'
  <2> SUFFICES ASSUME ScheduleInv, [ScheduleStep]_scheduleVars PROVE ScheduleInv'
    OBVIOUS
  <2>1. CASE UNCHANGED scheduleVars
    BY <2>1, SortFrame DEF scheduleVars, ScheduleInv, ScheduleTypeOK
  <2>2. CASE DuplicateCreator
    BY <2>2 DEF DuplicateCreator, ScheduleInv, ScheduleTypeOK
  <2>3. CASE CycleDetected \/ GroupStages
    BY <2>3, SortFrame DEF CycleDetected, GroupStages, ScheduleInv, ScheduleTypeOK
  <2> QED BY <2>1, <2>2, <2>3, BuildGraphOK, PopStageOK DEF ScheduleStep
<1>3. ScheduleInv => ScheduleTypeOK /\ ScheduleIsRight
  BY ScheduleAnswer DEF ScheduleInv
<1> QED BY <1>1, <1>2, <1>3, PTL DEF ScheduleSpec

-----------------------------------------------------------------------------
(* Drafts.  Every request but the first is for a critique or a revision,   *)
(* and they alternate.                                                     *)

DraftInv ==
    /\ DraftTypeOK
    /\ revision_count <= settings.max_revisions
    /\ drafting = "generate" => revision_count = 0 /\ critiques = 0 /\ requests = 1
    /\ drafting = "critique" =>
         critiques = revision_count /\ requests = 2 * revision_count + 2
    /\ drafting = "revise" =>
         /\ critiques = revision_count + 1 /\ requests = 2 * revision_count + 3
         /\ revision_count < settings.max_revisions
    /\ drafting \in {"approved", "exceeded"} =>
         judged = revision_count /\ critiques = revision_count + 1
    /\ drafting = "exceeded" => revision_count = settings.max_revisions
    /\ requests <= 2 * settings.max_revisions + 2

LEMMA DraftStepOK ==
    ASSUME DraftInv, [DraftStep]_draftVars
    PROVE  DraftInv'
<1>0. /\ settings.max_revisions \in Nat /\ settings.max_attempts \in Nat
      /\ errors \in Nat /\ revision_count \in Nat /\ critiques \in Nat
      /\ judged \in Nat /\ requests \in Nat
  BY DraftAssumption DEF DraftInv, DraftTypeOK
<1>1. CASE RetryCall
  BY <1>0, <1>1 DEF RetryCall, DraftInv, DraftTypeOK
<1>2. CASE RequestFails
  BY <1>0, <1>2 DEF RequestFails, DraftInv, DraftTypeOK
<1>3. CASE Generated
  BY <1>0, <1>3 DEF Generated, Request, DraftInv, DraftTypeOK
<1>4. CASE Pass
  BY <1>0, <1>4 DEF Pass, Judge, DraftInv, DraftTypeOK
<1>5. CASE Revise
  BY <1>0, <1>5 DEF Revise, Judge, Request, DraftInv, DraftTypeOK
<1>6. CASE Revised
  BY <1>0, <1>6 DEF Revised, Request, DraftInv, DraftTypeOK
<1>7. CASE UNCHANGED draftVars
  BY <1>7 DEF draftVars, DraftInv, DraftTypeOK
<1> QED BY <1>1, <1>2, <1>3, <1>4, <1>5, <1>6, <1>7 DEF DraftStep

(* For any number of revisions and attempts allowed, only a draft that was *)
(* judged as it is now is returned, and the requests that it costs are     *)
(* bounded by the revisions (critique_loop.rs:67-160).                     *)
THEOREM DraftsAreJudged == DraftSpec => [](DraftTypeOK /\ DraftIsJudged)
<1>1. DraftInit => DraftInv
  <2> SUFFICES ASSUME DraftInit PROVE DraftInv
    OBVIOUS
  <2>1. settings.max_revisions \in Nat /\ settings.max_attempts \in Nat
    BY DraftAssumption DEF DraftInit
  <2> QED BY <2>1 DEF DraftInit, DraftInv, DraftTypeOK
<1>2. DraftInv /\ [DraftStep]_draftVars => DraftInv'
  BY DraftStepOK
<1>3. DraftInv => DraftTypeOK /\ DraftIsJudged
  BY DEF DraftInv, DraftIsJudged
<1> QED BY <1>1, <1>2, <1>3, PTL DEF DraftSpec

-----------------------------------------------------------------------------
(* Sinks.  What the topic and the bucket hold of an item, for each point   *)
(* of its process(): without a lost answer nothing before its end, and one *)
(* copy after it.                                                          *)

Mine(i) == {o \in objects : o[1] = i}
NoCopy(i) == messages[i] = 0 /\ Mine(i) = {}
OneCopy(i) ==
    \/ messages[i] = 1 /\ Mine(i) = {}
    \/ messages[i] = 0 /\ Mine(i) = {<<i, item[i].day>>}

SinkItemOK(i) ==
    /\ item[i].day <= day
    /\ item[i].pc \in {"start", "schema", "register", "token", "write"} =>
          item[i].attempts < SinkAttempts
    /\ item[i].pc # "ok" => messages[i] <= item[i].attempts
    /\ item[i].pc \in {"schema", "register", "token", "write"} => Wanted(i)
    /\ item[i].pc # "ok" /\ i \notin lost => NoCopy(i)
    /\ item[i].pc = "ok" /\ Wanted(i) => ~NoCopy(i)
    /\ item[i].pc = "ok" /\ Wanted(i) /\ i \notin lost => OneCopy(i)
    /\ ~NoCopy(i) => Wanted(i)

SinkInv ==
    /\ SinkTypeOK
    /\ kind = "kafka" => objects = {}
    /\ kind = "gcs" => \A i \in SinkItems : messages[i] = 0
    /\ \A o \in objects : o[2] <= day
    /\ \A i \in SinkItems : SinkItemOK(i)

(* A step of one item that writes nothing.                                 *)
LEMMA NothingWritten ==
    ASSUME SinkInv, NEW i \in SinkItems, NEW p \in Process,
           item' = [item EXCEPT ![i] = p], schema' \in {"unset", "registering", "set"},
           UNCHANGED <<kind, filter, messages, objects, day, lost>>,
           p.day <= day,
           p.pc \in {"start", "schema", "register", "token", "write"} =>
              p.attempts < SinkAttempts,
           p.pc # "ok" => p.attempts >= item[i].attempts,
           p.pc \in {"schema", "register", "token", "write"} => Wanted(i),
           p.pc = "ok" => ~Wanted(i),
           item[i].pc # "ok"
    PROVE  SinkInv'
<1>1. item' \in [SinkItems -> Process] /\ item'[i] = p
      /\ \A k \in SinkItems : k # i => item'[k] = item[k]
  BY DEF SinkInv, SinkTypeOK
<1>2. SinkTypeOK'
  BY <1>1 DEF SinkInv, SinkTypeOK
<1>3. ASSUME NEW k \in SinkItems, k # i PROVE SinkItemOK(k)'
  BY <1>1, <1>3 DEF SinkInv, SinkItemOK, NoCopy, OneCopy, Mine, Wanted
<1>4. SinkItemOK(i)'
  <2>1. p.attempts \in Nat /\ messages[i] \in Nat /\ item[i].attempts \in Nat
    BY SinkAssumption DEF Process, SinkInv, SinkTypeOK
  <2>2. SinkItemOK(i)
    BY DEF SinkInv
  <2>3. Wanted(i)' = Wanted(i) /\ NoCopy(i)' = NoCopy(i) /\ lost' = lost
    BY DEF Wanted, NoCopy, Mine
  <2>4. item'[i].pc # "ok" => messages'[i] <= item'[i].attempts
    BY <1>1, <2>1, <2>2 DEF SinkItemOK
  <2>5. item'[i].day <= day'
    BY <1>1
  <2> QED
    BY <1>1, <2>2, <2>3, <2>4, <2>5 DEF SinkItemOK
<1>5. \A k \in SinkItems : SinkItemOK(k)'
  BY <1>3, <1>4
<1> QED
  BY <1>2, <1>5 DEF SinkInv

LEMMA ProcessParts ==
    ASSUME SinkInv, NEW i \in SinkItems
    PROVE  /\ item[i] \in Process /\ item[i].attempts \in 0..SinkAttempts
           /\ item[i].day \in Days /\ SinkAttempts \in Nat /\ day \in Days
           /\ messages[i] \in 0..SinkAttempts /\ SinkItemOK(i)
BY SinkAssumption DEF SinkInv, SinkTypeOK, Process

(* The process of an item whose attempt failed.                            *)
LEMMA FailedProcess ==
    ASSUME SinkInv, NEW i \in SinkItems, Fail(i), item[i].attempts < SinkAttempts
    PROVE  \E p \in Process :
              /\ item' = [item EXCEPT ![i] = p]
              /\ p.day = item[i].day /\ p.attempts = item[i].attempts + 1
              /\ p.pc \in {"start", "failed"}
              /\ p.pc = "start" => p.attempts < SinkAttempts
<1> DEFINE pc == IF item[i].attempts + 1 < SinkAttempts THEN "start" ELSE "failed"
           p == [item[i] EXCEPT !.attempts = item[i].attempts + 1, !.pc = pc]
<1>1. item[i].attempts + 1 \in 0..SinkAttempts
  BY ProcessParts
<1>2. p \in Process /\ p.pc = pc /\ p.attempts = item[i].attempts + 1
      /\ p.day = item[i].day
  BY <1>1, ProcessParts DEF Process
<1>3. item' = [item EXCEPT ![i] = p]
  BY DEF Fail
<1> HIDE DEF p
<1> QED
  BY <1>2, <1>3

LEMMA FailKeeps ==
    ASSUME SinkInv, NEW i \in SinkItems, Fail(i),
           item[i].pc \in {"schema", "register", "token", "write"},
           schema' \in {"unset", "registering", "set"},
           UNCHANGED <<kind, filter, messages, objects, day, lost>>
    PROVE  SinkInv'
<1>1. item[i].attempts < SinkAttempts /\ item[i].day <= day
  BY ProcessParts DEF SinkItemOK
<1>2. PICK p \in Process :
              /\ item' = [item EXCEPT ![i] = p]
              /\ p.day = item[i].day /\ p.attempts = item[i].attempts + 1
              /\ p.pc \in {"start", "failed"}
              /\ p.pc = "start" => p.attempts < SinkAttempts
  BY <1>1, FailedProcess
<1>3. p.attempts >= item[i].attempts
  BY <1>2, ProcessParts
<1> QED
  BY <1>1, <1>2, <1>3, NothingWritten

LEMMA GotoKeeps ==
    ASSUME SinkInv, NEW i \in SinkItems,
           NEW pc \in {"schema", "register", "token", "write", "ok"}, Goto(i, pc),
           item[i].pc \in {"start", "schema", "register"},
           pc = "ok" <=> ~Wanted(i),
           schema' \in {"unset", "registering", "set"},
           UNCHANGED <<kind, filter, messages, objects, day, lost>>
    PROVE  SinkInv'
<1>1. item[i].attempts < SinkAttempts /\ item[i].day <= day
  BY ProcessParts DEF SinkItemOK
<1> DEFINE p == [item[i] EXCEPT !.pc = pc]
<1>2. p \in Process /\ p.pc = pc /\ p.attempts = item[i].attempts /\ p.day = item[i].day
  BY ProcessParts DEF Process
<1>3. item' = [item EXCEPT ![i] = p]
  BY DEF Goto
<1>4. p.attempts >= item[i].attempts
  BY <1>2, ProcessParts
<1> HIDE DEF p
<1> QED
  BY <1>1, <1>2, <1>3, <1>4, NothingWritten

(* What a write adds.                                                      *)
LEMMA WrittenKeeps ==
    ASSUME SinkInv, NEW i \in SinkItems, Written(i), item[i].pc = "write"
    PROVE  /\ messages' \in [SinkItems -> 0..SinkAttempts]
           /\ messages'[i] <= item[i].attempts + 1
           /\ objects' \subseteq SinkItems \X Days
           /\ kind = "kafka" => objects' = {}
           /\ kind = "gcs" => \A k \in SinkItems : messages'[k] = 0
           /\ \A o \in objects' : o[2] <= day
           /\ ~NoCopy(i)' /\ Wanted(i)
           /\ i \notin lost =>
                 \/ messages'[i] = 1 /\ Mine(i)' = {}
                 \/ messages'[i] = 0 /\ Mine(i)' = {<<i, item[i].day>>}
           /\ \A k \in SinkItems : k # i =>
                 messages'[k] = messages[k] /\ Mine(k)' = Mine(k)
<1>1. /\ item[i].attempts < SinkAttempts /\ item[i].day <= day /\ Wanted(i)
      /\ messages[i] <= item[i].attempts
      /\ i \notin lost => messages[i] = 0 /\ Mine(i) = {}
  BY ProcessParts DEF SinkItemOK, NoCopy
<1>2. /\ messages \in [SinkItems -> 0..SinkAttempts] /\ objects \subseteq SinkItems \X Days
      /\ kind \in {"kafka", "gcs"}
      /\ \A o \in objects : o[2] <= day
  BY SinkAssumption DEF SinkInv, SinkTypeOK
<1>3. CASE kind = "kafka"
  <2>1. objects' = objects /\ objects = {}
        /\ messages' = [messages EXCEPT ![i] = messages[i] + 1]
    BY <1>3 DEF Written, SinkInv
  <2>2. messages[i] + 1 \in 0..SinkAttempts /\ messages[i] + 1 <= item[i].attempts + 1
        /\ messages[i] + 1 # 0 /\ (messages[i] = 0 => messages[i] + 1 = 1)
    BY <1>1, ProcessParts
  <2>3. /\ messages' \in [SinkItems -> 0..SinkAttempts]
        /\ messages'[i] = messages[i] + 1
        /\ \A k \in SinkItems : k # i => messages'[k] = messages[k]
    BY <1>2, <2>1, <2>2
  <2>4. \A k \in SinkItems : Mine(k)' = {} /\ Mine(k) = {}
    BY <2>1 DEF Mine
  <2> QED
    BY <1>1, <1>2, <1>3, <2>1, <2>2, <2>3, <2>4 DEF NoCopy
<1>4. CASE kind = "gcs"
  <2> DEFINE new == <<i, item[i].day>>
  <2>1. objects' = objects \cup {new} /\ messages' = messages
    BY <1>4 DEF Written
  <2>2. new \in SinkItems \X Days /\ new[1] = i /\ new[2] <= day
    BY <1>1, ProcessParts
  <2>3. messages[i] = 0 /\ \A k \in SinkItems : messages[k] = 0
    BY <1>4 DEF SinkInv
  <2>4. Mine(i)' = Mine(i) \cup {new} /\ \A k \in SinkItems : k # i => Mine(k)' = Mine(k)
    BY <2>1, <2>2 DEF Mine
  <2>5. 0 <= item[i].attempts + 1
    BY ProcessParts
  <2> HIDE DEF new
  <2>6. ~NoCopy(i)'
    BY <2>4 DEF NoCopy
  <2>7. i \notin lost => Mine(i)' = {new}
    BY <1>1, <2>4
  <2>8. kind # "kafka"
    BY <1>4
  <2> QED
    BY <1>1, <1>2, <2>1, <2>2, <2>3, <2>4, <2>5, <2>6, <2>7, <2>8 DEF new
<1> QED
  BY <1>2, <1>3, <1>4

LEMMA WriteKeeps == ASSUME SinkInv, NEW i \in SinkItems, Write(i) PROVE SinkInv'
<1> DEFINE p == [item[i] EXCEPT !.pc = "ok"]
<1>1. /\ item[i].pc = "write" /\ Written(i) /\ item' = [item EXCEPT ![i] = p]
      /\ UNCHANGED <<kind, filter, schema, day, lost>>
  BY DEF Write, Goto
<1>2. p \in Process /\ p.pc = "ok" /\ p.day = item[i].day
  BY ProcessParts DEF Process
<1> HIDE DEF p
<1>3. item' \in [SinkItems -> Process] /\ item'[i] = p
      /\ \A k \in SinkItems : k # i => item'[k] = item[k]
  BY <1>1, <1>2 DEF SinkInv, SinkTypeOK
<1>4. SinkTypeOK'
  BY <1>1, <1>3, WrittenKeeps DEF SinkInv, SinkTypeOK
<1>5. ASSUME NEW k \in SinkItems, k # i PROVE SinkItemOK(k)'
  <2>1. messages'[k] = messages[k] /\ Mine(k)' = Mine(k) /\ item'[k] = item[k]
    BY <1>1, <1>3, <1>5, WrittenKeeps
  <2>2. Wanted(k)' = Wanted(k)
    BY <1>1 DEF Wanted
  <2> QED
    BY <1>1, <2>1, <2>2, ProcessParts DEF SinkItemOK, NoCopy, OneCopy
<1>6. SinkItemOK(i)'
  <2>1. Wanted(i)'
    BY <1>1, WrittenKeeps DEF Wanted
  <2>2. item'[i].day <= day'
    BY <1>1, <1>2, <1>3, ProcessParts DEF SinkItemOK
  <2>3. i \notin lost' => OneCopy(i)'
    BY <1>1, <1>2, <1>3, WrittenKeeps DEF OneCopy
  <2>4. ~NoCopy(i)'
    BY <1>1, WrittenKeeps
  <2> QED
    BY <1>2, <1>3, <2>1, <2>2, <2>3, <2>4 DEF SinkItemOK
<1>7. \A k \in SinkItems : SinkItemOK(k)'
  BY <1>5, <1>6
<1> QED
  BY <1>1, <1>4, <1>7, WrittenKeeps DEF SinkInv

LEMMA WriteFailsKeeps ==
    ASSUME SinkInv, NEW i \in SinkItems, WriteFails(i) PROVE SinkInv'
<1>1. item[i].pc = "write" /\ Fail(i) /\ UNCHANGED <<kind, filter, schema, day>>
      /\ item[i].attempts < SinkAttempts
  BY ProcessParts DEF WriteFails, SinkItemOK
<1>2. CASE UNCHANGED <<messages, objects, lost>>
  BY <1>1, <1>2, FailKeeps DEF SinkInv, SinkTypeOK
<1>3. CASE Written(i) /\ lost' = lost \cup {i}
  <2>1. PICK p \in Process :
              /\ item' = [item EXCEPT ![i] = p]
              /\ p.day = item[i].day /\ p.attempts = item[i].attempts + 1
              /\ p.pc \in {"start", "failed"}
              /\ p.pc = "start" => p.attempts < SinkAttempts
    BY <1>1, FailedProcess
  <2>2. item' \in [SinkItems -> Process] /\ item'[i] = p
        /\ \A k \in SinkItems : k # i => item'[k] = item[k]
    BY <2>1 DEF SinkInv, SinkTypeOK
  <2>3. SinkTypeOK'
    BY <1>1, <1>3, <2>2, WrittenKeeps DEF SinkInv, SinkTypeOK
  <2>4. ASSUME NEW k \in SinkItems, k # i PROVE SinkItemOK(k)'
    <3>1. messages'[k] = messages[k] /\ Mine(k)' = Mine(k) /\ item'[k] = item[k]
      BY <1>1, <1>3, <2>2, <2>4, WrittenKeeps
    <3>2. Wanted(k)' = Wanted(k) /\ (k \in lost' <=> k \in lost)
      BY <1>1, <1>3, <2>4 DEF Wanted
    <3> QED
      BY <1>1, <3>1, <3>2, ProcessParts DEF SinkItemOK, NoCopy, OneCopy
  <2>5. SinkItemOK(i)'
    <3>1. Wanted(i)' /\ i \in lost'
      BY <1>1, <1>3, WrittenKeeps DEF Wanted
    <3>2. item'[i].day <= day'
      BY <1>1, <2>1, <2>2, ProcessParts DEF SinkItemOK
    <3>3. messages'[i] <= item'[i].attempts
      BY <1>1, <1>3, <2>1, <2>2, WrittenKeeps
    <3> QED
      BY <2>1, <2>2, <3>1, <3>2, <3>3 DEF SinkItemOK
  <2>6. \A k \in SinkItems : SinkItemOK(k)'
    BY <2>4, <2>5
  <2> QED
    BY <1>1, <1>3, <2>3, <2>6, WrittenKeeps DEF SinkInv
<1> QED
  BY <1>2, <1>3 DEF WriteFails

LEMMA NameObjectKeeps ==
    ASSUME SinkInv, NEW i \in SinkItems, NameObject(i) PROVE SinkInv'
<1>1. CASE Fail(i)
  BY <1>1, FailKeeps DEF NameObject, SinkInv, SinkTypeOK
<1>2. CASE item' = [item EXCEPT ![i] = [@ EXCEPT !.pc = "write", !.day = day]]
  <2> DEFINE p == [item[i] EXCEPT !.pc = "write", !.day = day]
  <2>1. item' = [item EXCEPT ![i] = p]
    BY <1>2
  <2>2. p \in Process /\ p.pc = "write" /\ p.day = day /\ p.attempts = item[i].attempts
    BY ProcessParts DEF Process
  <2> HIDE DEF p
  <2>3. /\ p.day <= day /\ p.attempts < SinkAttempts /\ p.attempts >= item[i].attempts
        /\ Wanted(i)
    BY <2>2, ProcessParts DEF NameObject, SinkItemOK, Days
  <2> QED
    BY <2>1, <2>2, <2>3, NothingWritten DEF NameObject, SinkInv, SinkTypeOK
<1> QED
  BY <1>1, <1>2 DEF NameObject

LEMMA MidnightKeeps == ASSUME SinkInv, Midnight PROVE SinkInv'
<1>1. day' \in Days /\ day <= day' /\ day' \in Nat /\ day \in Nat
  BY SinkAssumption DEF Midnight, SinkInv, SinkTypeOK, Days
<1>2. ASSUME NEW i \in SinkItems PROVE SinkItemOK(i)'
  <2>1. item[i].day <= day' /\ item'[i].day = item[i].day
    BY <1>1, ProcessParts DEF Midnight, SinkItemOK, Days
  <2> QED
    BY <2>1, ProcessParts
       DEF Midnight, SinkItemOK, NoCopy, OneCopy, Mine, Wanted
<1>3. \A o \in objects' : o[2] <= day'
  <2>1. \A o \in objects : o[2] \in Nat
    BY SinkAssumption DEF SinkInv, SinkTypeOK, Days
  <2> QED
    BY <1>1, <2>1 DEF Midnight, SinkInv
<1> QED
  BY <1>1, <1>2, <1>3 DEF Midnight, SinkInv, SinkTypeOK

LEMMA SinkStepKeeps == SinkInv /\ [SinkStep]_sinkVars => SinkInv'
<1> SUFFICES ASSUME SinkInv, [SinkStep]_sinkVars PROVE SinkInv'
  OBVIOUS
<1>1. CASE Midnight
  BY <1>1, MidnightKeeps
<1>2. ASSUME NEW i \in SinkItems, SinkItemStep(i) PROVE SinkInv'
  <2>1. CASE Begin(i)
    BY <2>1, GotoKeeps DEF Begin, SinkInv, SinkTypeOK
  <2>2. CASE Register(i)
    <3>1. Wanted(i)
      BY <2>2, ProcessParts DEF Register, SinkItemOK
    <3> QED
      BY <2>2, <3>1, GotoKeeps DEF Register
  <2>3. CASE Registered(i)
    <3>1. Wanted(i)
      BY <2>3, ProcessParts DEF Registered, SinkItemOK
    <3> QED
      BY <2>3, <3>1, GotoKeeps DEF Registered
  <2>4. CASE RegisterFails(i)
    BY <2>4, FailKeeps DEF RegisterFails
  <2>5. CASE Serialize(i)
    <3>1. Wanted(i) /\ schema' \in {"unset", "registering", "set"}
      BY <2>5, ProcessParts DEF Serialize, SinkItemOK, SinkInv, SinkTypeOK
    <3>2. CASE i \in Recordless
      BY <2>5, <3>1, <3>2, FailKeeps DEF Serialize
    <3>3. CASE i \notin Recordless
      BY <2>5, <3>1, <3>3, GotoKeeps DEF Serialize
    <3> QED
      BY <3>2, <3>3
  <2>6. CASE NameObject(i)
    BY <2>6, NameObjectKeeps
  <2>7. CASE Write(i)
    BY <2>7, WriteKeeps
  <2>8. CASE WriteFails(i)
    BY <2>8, WriteFailsKeeps
  <2> QED
    BY <1>2, <2>1, <2>2, <2>3, <2>4, <2>5, <2>6, <2>7, <2>8 DEF SinkItemStep
<1>3. CASE UNCHANGED sinkVars
  BY <1>3 DEF sinkVars, SinkInv, SinkTypeOK, SinkItemOK, NoCopy, OneCopy, Mine, Wanted
<1> QED
  BY <1>1, <1>2, <1>3 DEF SinkStep

(* An item's objects are one for a day, and no day is still to come.       *)
LEMMA ObjectsPerDay ==
    ASSUME SinkInv, NEW i \in SinkItems
    PROVE  IsFiniteSet(Mine(i)) /\ Cardinality(Mine(i)) <= day + 1
<1>1. day \in Nat /\ \A o \in Mine(i) : o = <<i, o[2]>> /\ o[2] \in 0..day
  BY SinkAssumption DEF SinkInv, SinkTypeOK, Days, Mine
<1>2. IsFiniteSet(0..day) /\ Cardinality(0..day) = day + 1
  BY <1>1, FS_Interval
<1> DEFINE f == [o \in Mine(i) |-> o[2]]
<1>3. f \in Injection(Mine(i), 0..day)
  BY <1>1 DEF Injection, IsInjective
<1> HIDE DEF f
<1> QED
  BY <1>2, <1>3, FS_Injection

LEMMA CopiesCounted ==
    ASSUME SinkInv, NEW i \in SinkItems
    PROVE  /\ Copies(i) > 0 <=> ~NoCopy(i)
           /\ OneCopy(i) => Copies(i) = 1
           /\ kind = "gcs" => Copies(i) <= day + 1
<1>1. IsFiniteSet(Mine(i)) /\ Cardinality(Mine(i)) <= day + 1
  BY ObjectsPerDay
<1>2. Cardinality(Mine(i)) \in Nat /\ messages[i] \in Nat
  BY <1>1, FS_CardinalityType, ProcessParts
<1>3. Cardinality(Mine(i)) = 0 <=> Mine(i) = {}
  BY <1>1, FS_EmptySet
<1>4. Copies(i) = messages[i] + Cardinality(Mine(i))
  BY DEF Copies, Mine
<1>5. Copies(i) > 0 <=> ~NoCopy(i)
  BY <1>2, <1>3, <1>4 DEF NoCopy
<1>6. ASSUME OneCopy(i) PROVE Copies(i) = 1
  <2>1. CASE messages[i] = 1 /\ Mine(i) = {}
    BY <1>2, <1>3, <1>4, <2>1
  <2>2. CASE messages[i] = 0 /\ Mine(i) = {<<i, item[i].day>>}
    <3>1. Cardinality(Mine(i)) = 1
      BY <2>2, FS_Singleton
    <3> QED
      BY <1>4, <2>2, <3>1
  <2> QED
    BY <1>6, <2>1, <2>2 DEF OneCopy
<1>7. ASSUME kind = "gcs" PROVE Copies(i) <= day + 1
  <2>1. messages[i] = 0 /\ Copies(i) = Cardinality(Mine(i))
    BY <1>2, <1>4, <1>7 DEF SinkInv
  <2> QED
    BY <1>1, <2>1
<1> QED
  BY <1>5, <1>6, <1>7

(* For any items, attempts and days, with either sink: what is reported    *)
(* written is, once, unless an answer was lost; and then the bucket holds  *)
(* at most one object for each day (ecl-sink-kafka/src/lib.rs:244-300,     *)
(* ecl-sink-gcs/src/lib.rs:232, batch.rs:260).                             *)
THEOREM SinksWriteAsReported == SinkSpec => [](SinkTypeOK /\ WrittenAsReported)
<1>1. SinkInit => SinkInv
  <2> SUFFICES ASSUME SinkInit PROVE SinkInv
    OBVIOUS
  <2> DEFINE p == [pc |-> "start", attempts |-> 0, day |-> 0]
  <2>1. 0 \in 0..SinkAttempts /\ 0 \in Days /\ 0 < SinkAttempts /\ 0 <= 0
    BY SinkAssumption DEF Days
  <2>2. p \in Process /\ p.pc = "start" /\ p.attempts = 0 /\ p.day = 0
    BY <2>1 DEF Process
  <2> HIDE DEF p
  <2>3. item = [i \in SinkItems |-> p]
    BY DEF SinkInit, p
  <2>4. SinkTypeOK
    BY <2>1, <2>2, <2>3 DEF SinkInit, SinkTypeOK
  <2>5. \A i \in SinkItems : item[i] = p /\ NoCopy(i)
    BY <2>3 DEF SinkInit, NoCopy, Mine
  <2>6. \A i \in SinkItems : SinkItemOK(i)
    BY <2>1, <2>2, <2>5 DEF SinkInit, SinkItemOK, NoCopy
  <2> QED
    BY <2>4, <2>6 DEF SinkInv, SinkInit
<1>2. SinkInv => SinkTypeOK /\ WrittenAsReported
  <2> SUFFICES ASSUME SinkInv PROVE WrittenAsReported
    BY DEF SinkInv
  <2> SUFFICES ASSUME NEW i \in SinkItems
               PROVE  /\ item[i].pc = "ok" /\ Wanted(i) => Copies(i) > 0
                      /\ Copies(i) > 0 => Wanted(i)
                      /\ Copies(i) > 1 => i \in lost
                      /\ kind = "gcs" => Copies(i) <= day + 1
    BY DEF WrittenAsReported
  <2>1. Copies(i) > 1 => Copies(i) > 0 /\ Copies(i) # 1
    <3>1. Cardinality(Mine(i)) \in Nat /\ messages[i] \in Nat
      BY ObjectsPerDay, FS_CardinalityType, ProcessParts
    <3>2. Copies(i) \in Nat
      BY <3>1 DEF Copies, Mine
    <3> QED
      BY <3>2
  <2>2. i \notin lost => ~(Copies(i) > 1)
    BY <2>1, CopiesCounted, ProcessParts DEF SinkItemOK
  <2> QED
    BY <2>2, CopiesCounted, ProcessParts DEF SinkItemOK
<1> QED
  BY <1>1, <1>2, SinkStepKeeps, PTL DEF SinkSpec
-----------------------------------------------------------------------------
(* The enumeration.  First the tree: an entry's chain, and what moving     *)
(* another entry leaves of it.                                             *)

LEMMA ChainIs ==
    ASSUME NEW e \in Entries, place \in [Entries -> Folders \cup {Nowhere}]
    PROVE  /\ e \in Chain(e) /\ Chain(e) \subseteq Entries
           /\ \A x \in Chain(e) : place[x] # Nowhere => place[x] \in Chain(e)
           /\ \A S : e \in S /\ (\A x \in S \cap Entries : place[x] \in S \cup {Nowhere})
                       => Chain(e) \subseteq S
<1>1. Nowhere \notin Entries
  BY WalkAssumption DEF Entries
<1>2. ASSUME NEW x \in Chain(e), place[x] # Nowhere PROVE place[x] \in Chain(e)
  <2>1. place[x] \in Entries
    BY <1>2 DEF Chain, Entries
  <2>2. ASSUME NEW S \in SUBSET Entries, e \in S, Closed(S) PROVE place[x] \in S
    BY <1>2, <2>2 DEF Chain, Closed
  <2> QED BY <2>1, <2>2 DEF Chain
<1>3. ASSUME NEW S, e \in S, \A x \in S \cap Entries : place[x] \in S \cup {Nowhere}
      PROVE  Chain(e) \subseteq S
  <2>1. place[e] \in Entries \cup {Nowhere} /\ \A x \in Entries : place[x] \in Entries \cup {Nowhere}
    BY DEF Entries
  <2>2. S \cap Entries \in SUBSET Entries /\ e \in S \cap Entries /\ Closed(S \cap Entries)
    BY <1>3, <2>1 DEF Closed
  <2> QED BY <2>2 DEF Chain
<1> QED BY <1>2, <1>3 DEF Chain

(* A chain begins with its entry and goes on with the chain of the folder  *)
(* that is in, and only folders are above.                                 *)
LEMMA ChainSteps ==
    ASSUME NEW e \in Entries, place \in [Entries -> Folders \cup {Nowhere}]
    PROVE  /\ place[e] \in Folders => Chain(e) = {e} \cup Chain(place[e])
           /\ place[e] \notin Folders => Chain(e) = {e}
           /\ Chain(e) \subseteq {e} \cup Folders
<1>0. Nowhere \notin Entries /\ Folders \subseteq Entries
  BY WalkAssumption DEF Entries
<1>1. CASE place[e] \in Folders
  <2> DEFINE d == place[e]
  <2>1. d \in Entries /\ d # Nowhere
    BY <1>0, <1>1
  <2>2. /\ d \in Chain(d) /\ Chain(d) \subseteq Entries
        /\ \A x \in Chain(d) : place[x] # Nowhere => place[x] \in Chain(d)
        /\ \A S : d \in S /\ (\A x \in S \cap Entries : place[x] \in S \cup {Nowhere})
                    => Chain(d) \subseteq S
    BY <2>1, ChainIs
  <2>3. /\ e \in Chain(e) /\ Chain(e) \subseteq Entries
        /\ \A x \in Chain(e) : place[x] # Nowhere => place[x] \in Chain(e)
        /\ \A S : e \in S /\ (\A x \in S \cap Entries : place[x] \in S \cup {Nowhere})
                    => Chain(e) \subseteq S
    BY ChainIs
  <2>4. Chain(e) \subseteq {e} \cup Chain(d)
    <3> DEFINE S == {e} \cup Chain(d)
    <3>1. e \in S /\ \A x \in S \cap Entries : place[x] \in S \cup {Nowhere}
      BY <2>2
    <3> HIDE DEF S
    <3>2. Chain(e) \subseteq S
      BY <2>3, <3>1
    <3> QED BY <3>2 DEF S
  <2>5. Chain(d) \subseteq Chain(e)
    <3>1. d \in Chain(e) /\ \A x \in Chain(e) \cap Entries : place[x] \in Chain(e) \cup {Nowhere}
      BY <2>1, <2>3
    <3> QED BY <2>2, <3>1
  <2>6. Chain(e) \subseteq {e} \cup Folders
    <3> DEFINE S == {e} \cup Folders
    <3>1. e \in S /\ \A x \in S \cap Entries : place[x] \in S \cup {Nowhere}
      OBVIOUS
    <3> HIDE DEF S
    <3>2. Chain(e) \subseteq S
      BY <2>3, <3>1
    <3> QED BY <3>2 DEF S
  <2> QED BY <1>1, <2>3, <2>4, <2>5, <2>6
<1>2. CASE place[e] \notin Folders
  <2>1. place[e] = Nowhere
    BY <1>2
  <2> DEFINE S == {e}
  <2>2. e \in S /\ \A x \in S \cap Entries : place[x] \in S \cup {Nowhere}
    BY <2>1
  <2> HIDE DEF S
  <2>3. e \in Chain(e) /\ Chain(e) \subseteq S
    BY <2>2, ChainIs
  <2> QED BY <1>2, <2>3 DEF S
<1> QED BY <1>1, <1>2

LEMMA ChainInside ==
    ASSUME NEW e \in Entries, place \in [Entries -> Folders \cup {Nowhere}],
           NEW x \in Chain(e)
    PROVE  Chain(x) \subseteq Chain(e)
<1>1. x \in Entries /\ \A y \in Chain(e) \cap Entries : place[y] \in Chain(e) \cup {Nowhere}
  BY ChainIs
<1>2. \A S : x \in S /\ (\A y \in S \cap Entries : place[y] \in S \cup {Nowhere})
               => Chain(x) \subseteq S
  BY <1>1, ChainIs
<1> QED BY <1>1, <1>2

(* Of two entries of a chain, one lies above the other.                    *)
LEMMA ChainIsLinear ==
    ASSUME NEW e \in Entries, place \in [Entries -> Folders \cup {Nowhere}],
           NEW x \in Chain(e), NEW y \in Chain(e)
    PROVE  x \in Chain(y) \/ y \in Chain(x)
<1> DEFINE S == {z \in Chain(e) : \A w \in Chain(e) : z \in Chain(w) \/ w \in Chain(z)}
<1>1. e \in Chain(e) /\ Chain(e) \subseteq Entries
  BY ChainIs
<1>2. e \in S
  BY <1>1
<1>3. ASSUME NEW z \in S, place[z] # Nowhere PROVE place[z] \in S
  <2>1. z \in Chain(e) /\ z \in Entries /\ place[z] \in Folders /\ place[z] \in Chain(e)
    <3>1. z \in Chain(e) /\ z \in Entries
      BY <1>1
    <3> QED BY <1>3, <3>1, ChainIs
  <2>2. Chain(z) = {z} \cup Chain(place[z])
    BY <2>1, ChainSteps
  <2>3. ASSUME NEW w \in Chain(e) PROVE place[z] \in Chain(w) \/ w \in Chain(place[z])
    <3>1. w \in Entries
      BY <1>1
    <3>2. \A v \in Chain(w) : place[v] # Nowhere => place[v] \in Chain(w)
      BY <3>1, ChainIs
    <3>3. w \in Chain(w)
      BY <3>1, ChainIs
    <3>4. z \in Chain(w) \/ w \in Chain(z)
      OBVIOUS
    <3> QED BY <1>3, <2>2, <3>2, <3>3, <3>4
  <2> QED BY <2>1, <2>3
<1>4. \A z \in S \cap Entries : place[z] \in S \cup {Nowhere}
  BY <1>3
<1> HIDE DEF S
<1>5. Chain(e) \subseteq S
  BY <1>2, <1>4, ChainIs
<1> QED BY <1>5 DEF S

(* In a tree, nobody is above itself, and a folder of a chain has one      *)
(* entry of the chain in it.                                               *)
LEMMA OneBelow ==
    ASSUME place \in [Entries -> Folders \cup {Nowhere}], Tree,
           NEW e \in Entries, NEW x \in Chain(e), NEW y \in Chain(e),
           place[x] = place[y], place[x] # Nowhere
    PROVE  x = y
<1>0. Folders \subseteq Entries
  BY DEF Entries
<1>1. x \in Entries /\ y \in Entries /\ place[x] \in Folders
  <2>1. x \in Entries /\ y \in Entries
    BY ChainIs
  <2> QED BY <2>1
<1>2. ASSUME NEW v \in Entries, NEW w \in Entries, place[v] = place[w],
             place[v] \in Folders, v # w, w \in Chain(v)
      PROVE  FALSE
  <2>1. w \in Chain(place[v])
    BY <1>2, ChainSteps
  <2>2. Chain(place[v]) \subseteq Folders
    BY <1>0, <1>2, ChainSteps
  <2>3. w \in Folders /\ place[w] # Nowhere /\ w \in Chain(place[w])
    BY <1>2, <2>1, <2>2, WalkAssumption
  <2> QED BY <2>3 DEF Tree
<1>3. x \in Chain(y) \/ y \in Chain(x)
  BY ChainIsLinear
<1> QED BY <1>1, <1>2, <1>3

(* The same of the chain after a step.                                     *)
LEMMA ChainAfter ==
    ASSUME NEW x \in Entries, place' \in [Entries -> Folders \cup {Nowhere}]
    PROVE  /\ x \in Chain(x)' /\ Chain(x)' \subseteq Entries
           /\ \A y \in Chain(x)' : place'[y] # Nowhere => place'[y] \in Chain(x)'
           /\ \A S : x \in S /\ (\A y \in S \cap Entries : place'[y] \in S \cup {Nowhere})
                       => Chain(x)' \subseteq S
<1>1. \A S \in SUBSET Entries : Closed(S)' <=> \A y \in S : place'[y] \in S \cup {Nowhere}
  BY DEF Closed
<1>2. Chain(x)' = {y \in Entries : \A S \in SUBSET Entries :
                      x \in S /\ (\A z \in S : place'[z] \in S \cup {Nowhere}) => y \in S}
  BY <1>1 DEF Chain
<1>3. x \in Chain(x)' /\ Chain(x)' \subseteq Entries
  BY <1>2
<1>4. ASSUME NEW y \in Chain(x)', place'[y] # Nowhere PROVE place'[y] \in Chain(x)'
  <2>1. y \in Entries /\ place'[y] \in Entries
    BY <1>3, <1>4 DEF Entries
  <2> QED BY <1>2, <1>4, <2>1
<1>5. ASSUME NEW S, x \in S, \A y \in S \cap Entries : place'[y] \in S \cup {Nowhere}
      PROVE  Chain(x)' \subseteq S
  <2>1. \A y \in Entries : place'[y] \in Entries \cup {Nowhere}
    BY DEF Entries
  <2>2. S \cap Entries \in SUBSET Entries /\ x \in S \cap Entries
        /\ \A y \in S \cap Entries : place'[y] \in (S \cap Entries) \cup {Nowhere}
    BY <1>5, <2>1
  <2> QED BY <1>2, <2>2
<1> QED BY <1>3, <1>4, <1>5

(* Another place for an entry that is not in the chain leaves it alone.    *)
LEMMA MovedBeside ==
    ASSUME NEW e \in Entries, NEW x \in Entries, NEW d \in Folders \cup {Nowhere},
           place \in [Entries -> Folders \cup {Nowhere}],
           place' = [place EXCEPT ![e] = d]
    PROVE  /\ e \notin Chain(x) => Chain(x)' = Chain(x)
           /\ e \notin Chain(x)' => Chain(x)' = Chain(x)
<1>1. /\ x \in Chain(x) /\ Chain(x) \subseteq Entries
      /\ \A y \in Chain(x) : place[y] # Nowhere => place[y] \in Chain(x)
      /\ \A S : x \in S /\ (\A y \in S \cap Entries : place[y] \in S \cup {Nowhere})
                  => Chain(x) \subseteq S
  BY ChainIs
<1>2. place' \in [Entries -> Folders \cup {Nowhere}]
  OBVIOUS
<1>3. /\ x \in Chain(x)' /\ Chain(x)' \subseteq Entries
      /\ \A y \in Chain(x)' : place'[y] # Nowhere => place'[y] \in Chain(x)'
      /\ \A S : x \in S /\ (\A y \in S \cap Entries : place'[y] \in S \cup {Nowhere})
                  => Chain(x)' \subseteq S
  BY <1>2, ChainAfter
<1>4. \A y \in Entries : y # e => place'[y] = place[y]
  OBVIOUS
<1>5. ASSUME e \notin Chain(x) PROVE Chain(x)' = Chain(x)
  <2>1. Chain(x)' \subseteq Chain(x)
    <3>1. \A y \in Chain(x) \cap Entries : place'[y] \in Chain(x) \cup {Nowhere}
      BY <1>1, <1>4, <1>5
    <3> QED BY <1>1, <1>3, <3>1
  <2>2. Chain(x) \subseteq Chain(x)'
    <3>1. \A y \in Chain(x)' \cap Entries : place[y] \in Chain(x)' \cup {Nowhere}
      BY <1>3, <1>4, <1>5, <2>1
    <3> QED BY <1>1, <1>3, <3>1
  <2> QED BY <2>1, <2>2
<1>6. ASSUME e \notin Chain(x)' PROVE Chain(x)' = Chain(x)
  <2>1. \A y \in Chain(x)' \cap Entries : place[y] \in Chain(x)' \cup {Nowhere}
    BY <1>3, <1>4, <1>6
  <2>2. Chain(x) \subseteq Chain(x)'
    BY <1>1, <1>3, <2>1
  <2> QED BY <1>5, <1>6, <2>2
<1> QED BY <1>5, <1>6

LEMMA TreeStays ==
    ASSUME NEW e \in Entries, NEW d \in Folders \cup {Nowhere},
           place \in [Entries -> Folders \cup {Nowhere}], Tree,
           d \in Folders => e \notin Chain(d),
           place' = [place EXCEPT ![e] = d]
    PROVE  Tree'
<1>0. Folders \subseteq Entries /\ Nowhere \notin Entries
  BY WalkAssumption DEF Entries
<1> SUFFICES ASSUME NEW x \in Folders, NEW y \in Folders, y = place'[x], x \in Chain(y)'
             PROVE  FALSE
  <2> SUFFICES ASSUME NEW x \in Folders, place'[x] # Nowhere PROVE x \notin Chain(place[x])'
    BY DEF Tree
  <2>1. PICK y \in Folders : y = place'[x]
    BY <1>0
  <2>2. x \notin Chain(y)'
    BY <2>1
  <2> QED BY <2>1, <2>2 DEF Chain, Closed
<1>1. CASE x = e
  <2>1. y = d /\ d \in Folders /\ d \in Entries
    BY <1>0, <1>1
  <2>2. Chain(y)' = Chain(y)
    BY <1>1, <2>1, MovedBeside
  <2> QED BY <1>1, <2>1, <2>2
<1>2. CASE x # e
  <2>1. place[x] = y /\ y \in Entries /\ x \in Entries
    BY <1>0, <1>2
  <2>2. x \notin Chain(y)
    BY <1>0, <2>1 DEF Tree
  <2>3. CASE e \notin Chain(y)
    BY <2>1, <2>2, <2>3, MovedBeside
  <2>4. CASE e \in Chain(y)
    <3> DEFINE S == {z \in Chain(y) : e \in Chain(z)} \cup (IF d \in Folders THEN Chain(d) ELSE {})
    <3>1. /\ y \in Chain(y) /\ Chain(y) \subseteq Entries
          /\ \A z \in Chain(y) : place[z] # Nowhere => place[z] \in Chain(y)
      BY <2>1, ChainIs
    <3>2. d \in Folders => /\ d \in Chain(d) /\ Chain(d) \subseteq Entries
                           /\ \A z \in Chain(d) : place[z] # Nowhere => place[z] \in Chain(d)
      BY <1>0, ChainIs
    <3>3. y \in S
      BY <2>4, <3>1
    <3>4. ASSUME NEW z \in S PROVE place'[z] \in S \cup {Nowhere}
      <4>1. CASE z = e
        BY <3>2, <4>1
      <4>2. CASE z # e /\ d \in Folders /\ z \in Chain(d)
        BY <3>2, <4>2
      <4>3. CASE z # e /\ z \in Chain(y) /\ e \in Chain(z)
        <5>1. z \in Entries /\ place'[z] = place[z]
          BY <3>1, <4>3
        <5>2. place[z] \in Folders
          BY <4>3, <5>1, ChainSteps
        <5>3. e \in Chain(place[z]) /\ place[z] \in Chain(y)
          BY <1>0, <3>1, <4>3, <5>1, <5>2, ChainSteps
        <5> QED BY <5>1, <5>3
      <4> QED BY <4>1, <4>2, <4>3
    <3>5. Chain(y)' \subseteq S
      <4>1. place' \in [Entries -> Folders \cup {Nowhere}]
        OBVIOUS
      <4>2. \A v \in S \cap Entries : place'[v] \in S \cup {Nowhere}
        BY <3>4
      <4> HIDE DEF S
      <4> QED BY <2>1, <3>3, <4>1, <4>2, ChainAfter
    <3>6. x \in Chain(d) /\ d \in Folders
      BY <2>1, <2>2, <3>5
    <3>7. y \in Chain(d)
      BY <1>0, <2>1, <3>2, <3>6
    <3>8. Chain(y) \subseteq Chain(d)
      BY <1>0, <3>6, <3>7, ChainInside
    <3> QED BY <2>4, <3>6, <3>8
  <2> QED BY <2>3, <2>4
<1> QED BY <1>1, <1>2

-----------------------------------------------------------------------------
(* The queue, as a set: the folders to come with their repetitions.        *)
Tokens(D, coming) == {t \in Folders \X Nat : t[1] \in D /\ t[2] \in 1..coming[t[1]]}

LEMMA TokensLess ==
    ASSUME NEW D \in SUBSET Folders, NEW coming \in [Folders -> Nat],
           NEW later \in [Folders -> Nat], NEW d \in Folders, coming[d] > 0,
           later = [coming EXCEPT ![d] = coming[d] - 1],
           IsFiniteSet(Tokens(D, coming))
    PROVE  /\ IsFiniteSet(Tokens(D, later))
           /\ Cardinality(Tokens(D, coming)) \in Nat
           /\ Cardinality(Tokens(D, later)) \in Nat
           /\ Cardinality(Tokens(D, coming)) =
                Cardinality(Tokens(D, later)) + (IF d \in D THEN 1 ELSE 0)
<1>1. later[d] = coming[d] - 1 /\ \A x \in Folders : x # d => later[x] = coming[x]
  OBVIOUS
<1>2. coming[d] \in Nat /\ \A x \in Folders : coming[x] \in Nat
  OBVIOUS
<1> DEFINE last == <<d, coming[d]>>
<1>3. ASSUME NEW x \in Folders, NEW n \in Nat
      PROVE  n \in 1..later[x] <=> n \in 1..coming[x] /\ <<x, n>> # last
  <2>1. CASE x = d
    BY <1>1, <1>2, <2>1
  <2>2. CASE x # d
    BY <1>1, <1>2, <2>2
  <2> QED BY <2>1, <2>2
<1>4. Tokens(D, later) = Tokens(D, coming) \ {last}
  BY <1>3 DEF Tokens
<1>5. last \in Tokens(D, coming) <=> d \in D
  BY <1>2 DEF Tokens
<1> HIDE DEF last
<1> DEFINE T == Tokens(D, coming)
<1>6. /\ IsFiniteSet(T \ {last}) /\ Cardinality(T) \in Nat
      /\ Cardinality(T \ {last}) = IF last \in T THEN Cardinality(T) - 1 ELSE Cardinality(T)
  BY FS_RemoveElement, FS_CardinalityType
<1>7. Cardinality(T \ {last}) \in Nat
  BY <1>6, FS_CardinalityType
<1>8. Tokens(D, later) = T \ {last}
  BY <1>4
<1>9. IF d \in D THEN last \in T ELSE last \notin T
  BY <1>5
<1> HIDE DEF T
<1>10. Cardinality(T) =
         Cardinality(T \ {last}) + (IF d \in D THEN 1 ELSE 0)
  BY <1>6, <1>7, <1>9
<1>11. T = Tokens(D, coming)
  BY DEF T
<1> QED BY <1>6, <1>7, <1>8, <1>10, <1>11

LEMMA TokensMore ==
    ASSUME NEW D \in SUBSET Folders, NEW coming \in [Folders -> Nat],
           NEW later \in [Folders -> Nat], NEW c \in D,
           \A x \in D : later[x] = coming[x] + (IF x = c THEN 1 ELSE 0),
           IsFiniteSet(Tokens(D, coming))
    PROVE  /\ IsFiniteSet(Tokens(D, later))
           /\ Cardinality(Tokens(D, coming)) \in Nat
           /\ Cardinality(Tokens(D, later)) = Cardinality(Tokens(D, coming)) + 1
<1>1. c \in Folders /\ coming[c] \in Nat /\ \A x \in Folders : coming[x] \in Nat
  OBVIOUS
<1> DEFINE last == <<c, coming[c] + 1>>
<1>2. ASSUME NEW x \in D, NEW n \in Nat
      PROVE  n \in 1..later[x] <=> n \in 1..coming[x] \/ <<x, n>> = last
  <2>1. CASE x = c
    BY <1>1, <2>1
  <2>2. CASE x # c
    BY <1>1, <2>2
  <2> QED BY <2>1, <2>2
<1>3. Tokens(D, later) = Tokens(D, coming) \cup {last}
  BY <1>1, <1>2 DEF Tokens
<1>4. last \notin Tokens(D, coming)
  BY <1>1 DEF Tokens
<1> HIDE DEF last
<1> QED BY <1>3, <1>4, FS_AddElement, FS_CardinalityType

LEMMA TokensSame ==
    ASSUME NEW D \in SUBSET Folders, NEW coming, NEW later,
           \A x \in D : later[x] = coming[x]
    PROVE  Tokens(D, later) = Tokens(D, coming)
BY DEF Tokens

(* At the start there is a token for each configured folder.               *)
LEMMA TokensAtStart ==
    ASSUME NEW D \in SUBSET Folders, NEW coming,
           coming = [d \in Folders |-> TimesRoot(d)]
    PROVE  /\ IsFiniteSet(Tokens(D, coming))
           /\ Cardinality(Tokens(D, coming)) = Cardinality({i \in RootSet : Roots[i] \in D})
<1> DEFINE RootsAt(d) == {i \in RootSet : Roots[i] = d}
           R == {i \in RootSet : Roots[i] \in D}
<1>1. IsFiniteSet(RootSet) /\ \A i \in RootSet : Roots[i] \in Folders
  <2>1. Roots \in Seq(Folders) /\ Len(Roots) \in Nat /\ Len(Roots) >= 1
    BY WalkAssumption
  <2>2. IsFiniteSet(1..Len(Roots))
    BY <2>1, FS_Interval
  <2>3. IsFiniteSet({1})
    BY FS_Singleton
  <2> QED BY <2>1, <2>2, <2>3 DEF RootSet
<1>2. IsFiniteSet(R)
  <2>1. R \subseteq RootSet
    OBVIOUS
  <2> HIDE DEF R
  <2> QED BY <1>1, <2>1, FS_Subset
<1>3. ASSUME NEW d \in Folders
      PROVE  /\ TimesRoot(d) \in Nat /\ TimesRoot(d) = Cardinality(RootsAt(d))
             /\ \E b : b \in Bijection(RootsAt(d), 1..TimesRoot(d))
  <2>1. TimesRoot(d) = Cardinality(RootsAt(d))
    BY DEF TimesRoot
  <2>2. RootsAt(d) \subseteq RootSet
    OBVIOUS
  <2> HIDE DEF RootsAt
  <2>3. IsFiniteSet(RootsAt(d))
    BY <1>1, <2>2, FS_Subset
  <2>4. TimesRoot(d) \in Nat
    BY <2>1, <2>3, FS_CardinalityType
  <2>5. IsFiniteSet(1..TimesRoot(d)) /\ Cardinality(1..TimesRoot(d)) = TimesRoot(d)
    <3>1. 0 \in Int /\ 1 \in Int /\ TimesRoot(d) \in Int
      BY <2>4
    <3>2. /\ IsFiniteSet(1..TimesRoot(d))
          /\ Cardinality(1..TimesRoot(d)) = IF 1 > TimesRoot(d) THEN 0 ELSE TimesRoot(d) - 1 + 1
      BY <3>1, FS_Interval
    <3> QED BY <2>4, <3>2
  <2>6. ExistsBijection(RootsAt(d), 1..TimesRoot(d))
    BY <2>1, <2>3, <2>5, FS_SameCardinalityBij
  <2> QED BY <2>1, <2>4, <2>6 DEF ExistsBijection
<1> DEFINE rank == [d \in Folders |-> CHOOSE b : b \in Bijection(RootsAt(d), 1..TimesRoot(d))]
<1>4. ASSUME NEW d \in Folders PROVE rank[d] \in Bijection(RootsAt(d), 1..TimesRoot(d))
  <2> HIDE DEF RootsAt
  <2> QED BY <1>3
<1> HIDE DEF rank
<1>5. ASSUME NEW d \in Folders
      PROVE  /\ \A i \in RootsAt(d) : rank[d][i] \in 1..TimesRoot(d)
             /\ \A i, j \in RootsAt(d) : rank[d][i] = rank[d][j] => i = j
             /\ \A n \in 1..TimesRoot(d) : \E i \in RootsAt(d) : rank[d][i] = n
  <2> HIDE DEF RootsAt
  <2> QED BY <1>4 DEF Bijection, Injection, Surjection, IsInjective
<1> DEFINE T == Tokens(D, coming)
           g == [i \in R |-> <<Roots[i], rank[Roots[i]][i]>>]
<1>6. ASSUME NEW d \in Folders PROVE coming[d] = TimesRoot(d)
  OBVIOUS
<1>7. ASSUME NEW i \in R
      PROVE  /\ i \in RootsAt(Roots[i]) /\ Roots[i] \in D /\ Roots[i] \in Folders
             /\ g[i] = <<Roots[i], rank[Roots[i]][i]>> /\ g[i] \in T
  <2>1. i \in RootsAt(Roots[i]) /\ Roots[i] \in D /\ Roots[i] \in Folders
    OBVIOUS
  <2>2. rank[Roots[i]][i] \in 1..TimesRoot(Roots[i]) /\ TimesRoot(Roots[i]) \in Nat
    BY <1>3, <1>5, <2>1
  <2>3. rank[Roots[i]][i] \in Nat
    BY <2>2
  <2> QED BY <1>6, <2>1, <2>2, <2>3 DEF Tokens
<1>8. g \in [R -> T]
  BY <1>7
<1>9. ASSUME NEW i \in R, NEW j \in R, g[i] = g[j] PROVE i = j
  <2> HIDE DEF R, T, RootsAt, g
  <2>1. Roots[i] = Roots[j] /\ rank[Roots[i]][i] = rank[Roots[j]][j]
    BY <1>7, <1>9
  <2> QED BY <1>5, <1>7, <2>1
<1>10. ASSUME NEW t \in T PROVE \E i \in R : g[i] = t
  <2>1. t = <<t[1], t[2]>> /\ t[1] \in Folders /\ t[1] \in D /\ t[2] \in 1..coming[t[1]]
    BY DEF Tokens
  <2>2. PICK i \in RootsAt(t[1]) : rank[t[1]][i] = t[2]
    BY <1>5, <1>6, <2>1
  <2>3. i \in R /\ Roots[i] = t[1]
    BY <2>1, <2>2
  <2> HIDE DEF R, T, RootsAt, g
  <2> QED BY <1>7, <2>1, <2>2, <2>3
<1>11. g \in Bijection(R, T)
  <2> HIDE DEF R, T, g
  <2> QED BY <1>8, <1>9, <1>10 DEF Bijection, Injection, Surjection, IsInjective
<1>12. ExistsBijection(R, T)
  BY <1>11 DEF ExistsBijection
<1> HIDE DEF R, T
<1>13. IsFiniteSet(T) /\ Cardinality(T) = Cardinality(R)
  BY <1>2, <1>12, FS_Bijection
<1> QED BY <1>13 DEF R, T

-----------------------------------------------------------------------------
(* The folders whose listing leads to a file, and the entries that listing *)
(* them has to meet: the file, and those folders that are met on the way.  *)
Upward(f) == (IF Recursive THEN Chain(f) ELSE {place[f]}) \cap Folders
Inner(f) == IF Recursive THEN Chain(f) ELSE {f}

LEMMA InnerIs ==
    ASSUME place \in [Entries -> Folders \cup {Nowhere}], Tree, NEW f \in Files
    PROVE  /\ f \in Inner(f) /\ Inner(f) \subseteq Chain(f) /\ Inner(f) \subseteq Entries
           /\ Upward(f) \subseteq Folders /\ f \notin Folders /\ f \in Entries
           /\ Recursive => Upward(f) = Inner(f) \cap Folders
           /\ Recursive \/ Inner(f) = {f}
           /\ Inner(f) \subseteq {f} \cup Folders
           /\ \A x \in Inner(f) : place[x] # Nowhere => place[x] \in Upward(f)
           /\ \A d \in Upward(f) : \E c \in Inner(f) :
                 place[c] = d /\ \A x \in Inner(f) : place[x] = d => x = c
<1>0. f \in Entries /\ f \notin Folders /\ Nowhere \notin Entries /\ Folders \subseteq Entries
  BY WalkAssumption DEF Entries
<1>1. /\ f \in Chain(f) /\ Chain(f) \subseteq Entries
      /\ \A x \in Chain(f) : place[x] # Nowhere => place[x] \in Chain(f)
      /\ Chain(f) \subseteq {f} \cup Folders
      /\ \A S : f \in S /\ (\A x \in S \cap Entries : place[x] \in S \cup {Nowhere})
                  => Chain(f) \subseteq S
  BY <1>0, ChainIs, ChainSteps
<1>2. \A x \in Entries : place[x] \in Folders \cup {Nowhere}
  OBVIOUS
<1>3. CASE Recursive
  <2>1. Inner(f) = Chain(f) /\ Upward(f) = Chain(f) \cap Folders
    BY <1>3 DEF Inner, Upward
  <2>2. ASSUME NEW d \in Upward(f) PROVE \E c \in Inner(f) : place[c] = d
    <3> DEFINE S == {x \in Chain(f) : x = f \/ \E c \in Chain(f) : place[c] = x}
    <3>1. f \in S /\ \A x \in S \cap Entries : place[x] \in S \cup {Nowhere}
      BY <1>1
    <3> HIDE DEF S
    <3>2. Chain(f) \subseteq S
      BY <1>1, <3>1
    <3> QED BY <1>0, <2>1, <3>2 DEF S
  <2>3. ASSUME NEW x \in Inner(f), NEW y \in Inner(f), place[x] = place[y], place[x] \in Folders
        PROVE  x = y
    BY <1>0, <2>1, <2>3, OneBelow
  <2>4. \A d \in Upward(f) : \E c \in Inner(f) :
           place[c] = d /\ \A x \in Inner(f) : place[x] = d => x = c
    <3> TAKE d \in Upward(f)
    <3>1. PICK c \in Inner(f) : place[c] = d
      BY <2>2
    <3>2. d \in Folders
      BY <2>1
    <3> QED BY <2>3, <3>1, <3>2
  <2>5. \A x \in Inner(f) : place[x] # Nowhere => place[x] \in Upward(f)
    BY <1>1, <1>2, <2>1
  <2> QED BY <1>0, <1>1, <1>3, <2>1, <2>4, <2>5
<1>4. CASE ~Recursive
  <2>1. Inner(f) = {f} /\ Upward(f) = {place[f]} \cap Folders
    BY <1>4 DEF Inner, Upward
  <2> QED BY <1>0, <1>1, <1>2, <1>4, <2>1
<1> QED BY <1>3, <1>4

(* The folder being listed still has to show what leads to the file, or is *)
(* the file.                                                               *)
Ahead(f) ==
    /\ walk.pc = "list" /\ walk.folder \in Upward(f)
    /\ \E x \in Inner(f) : place[x] = walk.folder /\ x \notin walk.seen

(* Each configured folder above the file is in one place: it, or a folder  *)
(* below it that leads to the file, is in the queue or being listed, or    *)
(* the file was listed for it.                                             *)
Accounted(f) ==
    /\ IsFiniteSet(Tokens(Upward(f), walk.queue))
    /\ Cardinality(Tokens(Upward(f), walk.queue)) + (IF Ahead(f) THEN 1 ELSE 0)
         + listed[f] = Cardinality(Reached(f))

FileOK(f) ==
    IF Included(f) THEN Chain(f) \cap moved = {} => Accounted(f) ELSE listed[f] = 0
PresentInv ==
    walk.pc = "list" =>
        /\ walk.folder \in Folders
        /\ \A e \in Entries \ moved : place[e] = walk.folder => e \in walk.present
WalkInv ==
    /\ WalkTypeOK /\ Tree /\ PresentInv
    /\ walk.pc = "done" => \A d \in Folders : walk.queue[d] = 0
    /\ walk.pc # "failed" => \A f \in Files : FileOK(f)

LEMMA WalkStarts == ASSUME WalkInit PROVE WalkInv
<1>1. place \in [Entries -> Folders \cup {Nowhere}] /\ Tree /\ moved = {}
  BY DEF WalkInit
<1> DEFINE roots == [d \in Folders |-> TimesRoot(d)]
<1>2. roots \in [Folders -> Nat]
  <2>1. ASSUME NEW d \in Folders PROVE TimesRoot(d) \in Nat
    <3>1. Roots \in Seq(Folders) /\ Len(Roots) \in Nat /\ Len(Roots) >= 1
      BY WalkAssumption
    <3>2. IsFiniteSet(1..Len(Roots)) /\ {i \in RootSet : Roots[i] = d} \subseteq 1..Len(Roots)
      BY <3>1, FS_Interval DEF RootSet
    <3>3. IsFiniteSet({i \in RootSet : Roots[i] = d})
      BY <3>2, FS_Subset
    <3> QED BY <3>3, FS_CardinalityType DEF TimesRoot
  <2> QED BY <2>1
<1>3. /\ walk = [pc |-> "take", queue |-> roots, folder |-> Nowhere,
                 present |-> {}, seen |-> {}]
      /\ listed = [f \in Files |-> 0] /\ adapter \in Adapters
  BY DEF WalkInit
<1> HIDE DEF roots
<1>4. walk \in Walk /\ walk.pc = "take" /\ walk.queue = roots
  BY <1>2, <1>3 DEF Walk
<1>5. WalkTypeOK
  BY <1>1, <1>3, <1>4 DEF WalkTypeOK
<1>6. ASSUME NEW f \in Files PROVE FileOK(f)
  <2> DEFINE D == Upward(f)
  <2>1. listed[f] = 0 /\ ~Ahead(f)
    BY <1>3, <1>4 DEF Ahead
  <2>2. D \in SUBSET Folders
    BY DEF Upward
  <2>3. Reached(f) = {i \in RootSet : Roots[i] \in D}
    <3>1. \A i \in RootSet : Roots[i] \in Folders
      <4>1. Roots \in Seq(Folders) /\ Len(Roots) \in Nat /\ Len(Roots) >= 1
        BY WalkAssumption
      <4> QED BY <4>1 DEF RootSet
    <3> QED BY <3>1 DEF Reached, Upward
  <2> HIDE DEF D
  <2>4. /\ IsFiniteSet(Tokens(D, roots))
        /\ Cardinality(Tokens(D, roots)) = Cardinality({i \in RootSet : Roots[i] \in D})
    BY <2>2, TokensAtStart DEF roots
  <2>5. Cardinality(Tokens(D, roots)) \in Nat
    BY <2>4, FS_CardinalityType
  <2> QED BY <1>4, <2>1, <2>3, <2>4, <2>5 DEF FileOK, Accounted, D
<1> QED BY <1>1, <1>4, <1>5, <1>6 DEF WalkInv, PresentInv

(* What a step that moves nothing leaves of what depends on the places.    *)
LEMMA PlacesStay ==
    ASSUME UNCHANGED <<adapter, place>>
    PROVE  /\ Tree' = Tree
           /\ \A f : /\ Chain(f)' = Chain(f) /\ Upward(f)' = Upward(f)
                     /\ Inner(f)' = Inner(f) /\ Reached(f)' = Reached(f)
<1>1. \A f : Chain(f)' = Chain(f)
  BY DEF Chain, Closed
<1>2. Recursive' = Recursive /\ RootSet' = RootSet
  BY DEF Recursive, RootSet
<1>3. Tree' = Tree
  BY DEF Tree, Chain, Closed
<1> QED BY <1>1, <1>2, <1>3 DEF Upward, Inner, Reached

LEMMA TakeFolderOK ==
    ASSUME WalkInv, NEW d \in Folders, TakeFolder(d) PROVE WalkInv'
<1>1. /\ WalkTypeOK /\ Tree /\ walk.pc = "take" /\ walk.queue[d] > 0
      /\ \A f \in Files : FileOK(f)
      /\ UNCHANGED <<adapter, place, moved, listed>>
  BY DEF WalkInv, TakeFolder
<1>2. /\ walk \in Walk /\ place \in [Entries -> Folders \cup {Nowhere}]
      /\ listed \in [Files -> Nat]
  BY <1>1 DEF WalkTypeOK
<1> DEFINE later == [walk.queue EXCEPT ![d] = walk.queue[d] - 1]
<1>3. walk.queue \in [Folders -> Nat] /\ later \in [Folders -> Nat]
  <2>1. walk.queue \in [Folders -> Nat]
    BY <1>2 DEF Walk
  <2>2. walk.queue[d] - 1 \in Nat
    BY <1>1, <2>1
  <2> QED BY <2>1, <2>2
<1>4. /\ walk'.pc = "list" /\ walk'.queue = later /\ walk'.folder = d
      /\ walk'.present = Inside(d) /\ walk'.seen = {} /\ walk' \in Walk
  <2>1. Inside(d) \in SUBSET Entries /\ {} \in SUBSET Entries
    BY DEF Inside
  <2> DEFINE there == Inside(d)
  <2>2. walk' = [walk EXCEPT !.pc = "list", !.queue = later, !.folder = d,
                             !.present = there, !.seen = {}]
    BY <1>2 DEF TakeFolder, Walk
  <2>3. there \in SUBSET Entries
    BY <2>1
  <2> HIDE DEF there, later
  <2>4. /\ walk'.pc = "list" /\ walk'.queue = later /\ walk'.folder = d
        /\ walk'.present = there /\ walk'.seen = {} /\ walk' \in Walk
    BY <1>2, <1>3, <2>1, <2>2, <2>3 DEF Walk
  <2> QED BY <2>4 DEF there
<1> HIDE DEF later
<1>5. WalkTypeOK' /\ Tree'
  BY <1>1, <1>4, PlacesStay DEF WalkTypeOK
<1>6. PresentInv'
  BY <1>1, <1>4 DEF PresentInv, Inside
<1>7. ASSUME NEW f \in Files PROVE FileOK(f)'
  <2>1. /\ Chain(f)' = Chain(f) /\ Upward(f)' = Upward(f)
        /\ Inner(f)' = Inner(f) /\ Reached(f)' = Reached(f)
    BY <1>1, PlacesStay
  <2>2. CASE ~Included(f)
    BY <1>1, <2>2 DEF FileOK, Included
  <2>3. CASE Included(f) /\ Chain(f) \cap moved = {}
    <3>1. Accounted(f) /\ ~Ahead(f)
      BY <1>1, <2>3 DEF FileOK, Ahead
    <3>2. Ahead(f)' <=> d \in Upward(f)
      <4>1. d \in Upward(f) => \E c \in Inner(f) : place[c] = d
        BY <1>1, <1>2, InnerIs
      <4> QED BY <1>1, <1>4, <2>1, <4>1 DEF Ahead
    <3> DEFINE old == Tokens(Upward(f), walk.queue)
               new == Tokens(Upward(f), later)
    <3>3. Upward(f) \in SUBSET Folders
      BY DEF Upward
    <3>4. IsFiniteSet(old) /\ Cardinality(old) + listed[f] = Cardinality(Reached(f))
      BY <1>2, <3>1, FS_CardinalityType DEF Accounted
    <3>5. /\ IsFiniteSet(new) /\ Cardinality(old) \in Nat /\ Cardinality(new) \in Nat
          /\ Cardinality(old) = Cardinality(new) + (IF d \in Upward(f) THEN 1 ELSE 0)
      BY <1>1, <1>3, <3>3, <3>4, TokensLess DEF later
    <3>6. Tokens(Upward(f), walk.queue)' = new
      BY <1>4, <2>1 DEF Tokens
    <3> HIDE DEF old, new
    <3>7. Accounted(f)'
      BY <1>1, <1>2, <2>1, <3>2, <3>4, <3>5, <3>6 DEF Accounted
    <3> QED BY <2>3, <3>7 DEF FileOK, Included
  <2>4. CASE Included(f) /\ Chain(f) \cap moved # {}
    BY <1>1, <2>1, <2>4 DEF FileOK, Included
  <2> QED BY <2>2, <2>3, <2>4
<1> QED BY <1>4, <1>5, <1>6, <1>7 DEF WalkInv

(* What an answer does for a file: nothing, or it is the one that has what *)
(* leads to the file.                                                      *)
LEMMA PageMeets ==
    ASSUME WalkInv, walk.pc = "list", NEW f \in Files, Included(f),
           Chain(f) \cap moved = {}, NEW page \in Pages,
           NEW coming \in [Folders -> Nat], coming = Queued(page),
           NEW list, list = Accepted(page)
    PROVE  LET new == Tokens(Upward(f), coming)
               met == \E x \in Inner(f) : place[x] = walk.folder /\ x \in page
           IN  /\ IsFiniteSet(new) /\ Cardinality(new) \in Nat
               /\ Cardinality(new) + (IF Ahead(f) /\ ~met THEN 1 ELSE 0) + list[f]
                    = Cardinality(Reached(f))
               /\ met => \A x \in Inner(f) : place[x] = walk.folder => x \in page
               /\ IsLast(page) => ~(Ahead(f) /\ ~met)
<1>1. /\ WalkTypeOK /\ Tree /\ PresentInv /\ FileOK(f)
      /\ walk \in Walk /\ place \in [Entries -> Folders \cup {Nowhere}]
      /\ listed \in [Files -> Nat]
  BY DEF WalkInv, WalkTypeOK
<1>2. /\ walk.queue \in [Folders -> Nat] /\ listed[f] \in Nat
      /\ IsFiniteSet(Tokens(Upward(f), walk.queue))
      /\ Cardinality(Tokens(Upward(f), walk.queue)) + (IF Ahead(f) THEN 1 ELSE 0)
           + listed[f] = Cardinality(Reached(f))
      /\ Cardinality(Tokens(Upward(f), walk.queue)) \in Nat
  <2>1. walk.queue \in [Folders -> Nat] /\ listed[f] \in Nat
    BY <1>1 DEF Walk
  <2>2. Accounted(f)
    BY <1>1 DEF FileOK
  <2> QED BY <2>1, <2>2, FS_CardinalityType DEF Accounted
<1> DEFINE new == Tokens(Upward(f), coming)
           old == Tokens(Upward(f), walk.queue)
           met == \E x \in Inner(f) : place[x] = walk.folder /\ x \in page
<1>3. /\ f \in Inner(f) /\ Inner(f) \subseteq Chain(f) /\ Inner(f) \subseteq Entries
      /\ Upward(f) \subseteq Folders /\ f \notin Folders /\ f \in Entries
      /\ Recursive => Upward(f) = Inner(f) \cap Folders
      /\ Recursive \/ Inner(f) = {f}
      /\ Inner(f) \subseteq {f} \cup Folders
      /\ \A x \in Inner(f) : place[x] # Nowhere => place[x] \in Upward(f)
      /\ \A d \in Upward(f) : \E c \in Inner(f) :
            place[c] = d /\ \A x \in Inner(f) : place[x] = d => x = c
  BY <1>1, InnerIs
<1>4. /\ \A d \in Folders : coming[d] = walk.queue[d] + (IF Recursive /\ d \in page THEN 1 ELSE 0)
      /\ list[f] = listed[f] + (IF f \in page THEN 1 ELSE 0)
  BY DEF Queued, Accepted
<1>5. \A x \in page : x \in Entries /\ place[x] = walk.folder /\ x \notin walk.seen
  BY DEF Pages, Inside
<1>6. \A x \in Inner(f) : x \notin moved /\ x \in Entries
  BY <1>3
<1>7. IsLast(page) /\ Ahead(f) => met
  <2> SUFFICES ASSUME IsLast(page), Ahead(f) PROVE met
    OBVIOUS
  <2>1. PICK x \in Inner(f) : place[x] = walk.folder /\ x \notin walk.seen
    BY DEF Ahead
  <2>2. x \in walk.present /\ x \in Inside(walk.folder)
    BY <1>1, <1>6, <2>1 DEF PresentInv, Inside
  <2> QED BY <2>1, <2>2 DEF IsLast
<1>8. CASE ~met
  <2>1. \A x \in Inner(f) : x \notin page
    BY <1>5, <1>8
  <2>2. \A d \in Upward(f) : coming[d] = walk.queue[d]
    BY <1>2, <1>3, <1>4, <2>1
  <2>3. new = old
    BY <1>3, <2>2, TokensSame
  <2>4. list[f] = listed[f]
    BY <1>2, <1>3, <1>4, <2>1
  <2> QED BY <1>2, <1>7, <1>8, <2>3, <2>4
<1>9. CASE met
  <2>1. PICK c \in Inner(f) : place[c] = walk.folder /\ c \in page
    BY <1>9
  <2>2. walk.folder \in Upward(f)
    <3>1. c \in Entries /\ place[c] \in Folders \cup {Nowhere}
      BY <1>1, <1>6
    <3>2. walk.folder # Nowhere
      BY <1>1, WalkAssumption DEF PresentInv
    <3> QED BY <1>3, <2>1, <3>2
  <2>3. \A x \in Inner(f) : place[x] = walk.folder => x = c
    BY <1>3, <2>1, <2>2
  <2>4. Ahead(f)
    BY <1>5, <2>1, <2>2 DEF Ahead
  <2>5. CASE c = f
    <3>1. \A d \in Upward(f) : coming[d] = walk.queue[d]
      <4> TAKE d \in Upward(f)
      <4>1. d \in Folders /\ d # f /\ (Recursive => d \in Inner(f))
        BY <1>3
      <4>2. ~(Recursive /\ d \in page)
        BY <1>5, <2>3, <2>5, <4>1
      <4> QED BY <1>2, <1>4, <4>1, <4>2
    <3>2. new = old
      BY <1>3, <3>1, TokensSame
    <3>3. list[f] = listed[f] + 1
      BY <1>4, <2>1, <2>5
    <3> QED BY <1>2, <1>9, <2>1, <2>3, <2>4, <3>2, <3>3
  <2>6. CASE c # f
    <3>1. Recursive /\ c \in Upward(f)
      BY <1>3, <2>6
    <3>2. f \notin page
      BY <1>3, <1>5, <2>3, <2>6
    <3>3. \A x \in Upward(f) : coming[x] = walk.queue[x] + (IF x = c THEN 1 ELSE 0)
      <4> TAKE x \in Upward(f)
      <4>1. x \in Folders /\ x \in Inner(f)
        BY <1>3, <3>1
      <4>2. x \in page <=> x = c
        BY <1>5, <2>1, <2>3, <4>1
      <4> QED BY <1>4, <3>1, <4>1, <4>2
    <3>4. Upward(f) \in SUBSET Folders
      BY <1>3
    <3>5. IsFiniteSet(new) /\ Cardinality(new) = Cardinality(old) + 1
      BY <1>2, <3>1, <3>3, <3>4, TokensMore
    <3>6. list[f] = listed[f]
      BY <1>2, <1>4, <3>2
    <3> HIDE DEF new, old
    <3>7. Cardinality(old) \in Nat /\ Cardinality(old) + 1 + listed[f] = Cardinality(Reached(f))
      BY <1>2, <2>4 DEF old
    <3> QED BY <1>2, <1>9, <2>1, <2>3, <2>4, <3>5, <3>6, <3>7 DEF new
  <2> QED BY <2>5, <2>6
<1> QED BY <1>8, <1>9

LEMMA NextPageOK ==
    ASSUME WalkInv, NEW page \in Pages, NextPage(page) PROVE WalkInv'
<1>1. /\ WalkTypeOK /\ Tree /\ PresentInv /\ walk.pc = "list"
      /\ \A f \in Files : FileOK(f)
      /\ UNCHANGED <<adapter, place, moved>> /\ listed' = Accepted(page)
  BY DEF WalkInv, NextPage
<1>2. walk \in Walk /\ listed \in [Files -> Nat]
  BY <1>1 DEF WalkTypeOK
<1> DEFINE coming == Queued(page)
           list == Accepted(page)
<1>3. coming \in [Folders -> Nat]
  <2>1. walk.queue \in [Folders -> Nat]
    BY <1>2 DEF Walk
  <2> QED BY <2>1 DEF Queued
<1>4. list \in [Files -> Nat]
  BY <1>2 DEF Accepted
<1>5. page \subseteq Entries /\ walk.seen \cup page \in SUBSET Entries
      /\ walk.seen \subseteq Entries
  <2>1. walk.seen \subseteq Entries
    BY <1>2 DEF Walk
  <2> QED BY <2>1 DEF Pages, Inside
<1>6. /\ walk' \in Walk /\ walk'.queue = coming
      /\ walk'.folder = walk.folder /\ walk'.present = walk.present
      /\ \/ walk'.pc = "list" /\ walk'.seen = walk.seen \cup page
         \/ walk'.pc = "take" /\ IsLast(page)
  <2>1. \/ walk' = [walk EXCEPT !.queue = coming, !.seen = walk.seen \cup page]
        \/ walk' = [walk EXCEPT !.queue = coming, !.pc = "take"] /\ IsLast(page)
    BY <1>2 DEF NextPage, Walk
  <2> HIDE DEF coming
  <2>2. CASE walk' = [walk EXCEPT !.queue = coming, !.seen = walk.seen \cup page]
    BY <1>1, <1>2, <1>3, <1>5, <2>2 DEF Walk
  <2>3. CASE walk' = [walk EXCEPT !.queue = coming, !.pc = "take"] /\ IsLast(page)
    BY <1>1, <1>2, <1>3, <1>5, <2>3 DEF Walk
  <2> QED BY <2>1, <2>2, <2>3
<1> HIDE DEF coming, list
<1>7. WalkTypeOK' /\ Tree'
  BY <1>1, <1>4, <1>6, PlacesStay DEF WalkTypeOK, list
<1>8. PresentInv'
  BY <1>1, <1>6 DEF PresentInv
<1>9. ASSUME NEW f \in Files PROVE FileOK(f)'
  <2>1. /\ Chain(f)' = Chain(f) /\ Upward(f)' = Upward(f)
        /\ Inner(f)' = Inner(f) /\ Reached(f)' = Reached(f)
    BY <1>1, PlacesStay
  <2>2. CASE ~Included(f)
    <3>1. listed'[f] = listed[f] /\ listed[f] = 0
      BY <1>1, <1>2, <2>2 DEF Accepted, FileOK
    <3> QED BY <2>2, <3>1 DEF FileOK, Included
  <2>3. CASE Included(f) /\ Chain(f) \cap moved = {}
    <3> DEFINE new == Tokens(Upward(f), coming)
               met == \E x \in Inner(f) : place[x] = walk.folder /\ x \in page
    <3>1. /\ IsFiniteSet(new) /\ Cardinality(new) \in Nat
          /\ Cardinality(new) + (IF Ahead(f) /\ ~met THEN 1 ELSE 0) + list[f]
               = Cardinality(Reached(f))
          /\ met => \A x \in Inner(f) : place[x] = walk.folder => x \in page
          /\ IsLast(page) => ~(Ahead(f) /\ ~met)
      BY <1>1, <1>3, <2>3, PageMeets DEF coming, list
    <3>2. Ahead(f)' <=> Ahead(f) /\ ~met
      <4>1. CASE walk'.pc = "take" /\ IsLast(page)
        BY <3>1, <4>1 DEF Ahead
      <4>2. CASE walk'.pc = "list" /\ walk'.seen = walk.seen \cup page
        <5>1. Ahead(f)' <=> /\ walk.folder \in Upward(f)
                            /\ \E x \in Inner(f) : /\ place[x] = walk.folder
                                                   /\ x \notin walk.seen \cup page
          BY <1>1, <1>6, <2>1, <4>2 DEF Ahead
        <5>2. Ahead(f) <=> /\ walk.folder \in Upward(f)
                           /\ \E x \in Inner(f) : place[x] = walk.folder /\ x \notin walk.seen
          BY <1>1 DEF Ahead
        <5> QED BY <3>1, <5>1, <5>2
      <4> QED BY <1>6, <4>1, <4>2
    <3>3. Tokens(Upward(f), walk.queue)' = new
      BY <1>6, <2>1 DEF Tokens
    <3>4. listed'[f] = list[f]
      BY <1>1 DEF list
    <3> HIDE DEF new, met
    <3>5. Accounted(f)'
      BY <2>1, <3>1, <3>2, <3>3, <3>4 DEF Accounted
    <3> QED BY <2>3, <3>5 DEF FileOK, Included
  <2>4. CASE Included(f) /\ Chain(f) \cap moved # {}
    BY <1>1, <2>1, <2>4 DEF FileOK, Included
  <2> QED BY <2>2, <2>3, <2>4
<1> QED BY <1>6, <1>7, <1>8, <1>9 DEF WalkInv

LEMMA WalkFailsOK == ASSUME WalkInv, WalkFails PROVE WalkInv'
<1>1. /\ WalkTypeOK /\ Tree /\ walk \in Walk
      /\ UNCHANGED <<adapter, place, moved>>
      /\ walk' = [walk EXCEPT !.pc = "failed"] /\ listed' = [f \in Files |-> 0]
  BY DEF WalkInv, WalkTypeOK, WalkFails
<1>2. walk' \in Walk /\ walk'.pc = "failed" /\ Tree'
  BY <1>1, PlacesStay DEF Walk
<1>3. WalkTypeOK'
  BY <1>1, <1>2 DEF WalkTypeOK
<1> QED BY <1>2, <1>3 DEF WalkInv, PresentInv

LEMMA WalkEndsOK == ASSUME WalkInv, WalkEnds PROVE WalkInv'
<1>1. /\ WalkTypeOK /\ Tree /\ walk \in Walk /\ walk.pc = "take"
      /\ \A d \in Folders : walk.queue[d] = 0
      /\ \A f \in Files : FileOK(f)
      /\ UNCHANGED <<adapter, place, moved, listed>>
      /\ walk' = [walk EXCEPT !.pc = "done"]
  BY DEF WalkInv, WalkTypeOK, WalkEnds
<1>2. walk' \in Walk /\ walk'.pc = "done" /\ walk'.queue = walk.queue /\ Tree'
  BY <1>1, PlacesStay DEF Walk
<1>3. WalkTypeOK'
  BY <1>1, <1>2 DEF WalkTypeOK
<1>4. ASSUME NEW f \in Files PROVE FileOK(f)'
  <2>1. /\ Chain(f)' = Chain(f) /\ Upward(f)' = Upward(f) /\ Reached(f)' = Reached(f)
    BY <1>1, PlacesStay
  <2>2. ~Ahead(f) /\ ~Ahead(f)'
    BY <1>1, <1>2 DEF Ahead
  <2>3. Accounted(f)' <=> Accounted(f)
    BY <1>1, <1>2, <2>1, <2>2 DEF Accounted
  <2> QED BY <1>1, <2>1, <2>3 DEF FileOK, Included
<1> QED BY <1>1, <1>2, <1>3, <1>4 DEF WalkInv, PresentInv

(* Where the chain of a file has nothing that was moved, it was the same   *)
(* before the move.                                                        *)
LEMMA MoveEntryOK ==
    ASSUME WalkInv, NEW e \in Entries, NEW d \in Folders \cup {Nowhere}, MoveEntry(e, d)
    PROVE  WalkInv'
<1>1. /\ WalkTypeOK /\ Tree /\ PresentInv /\ walk.pc \in {"take", "list"}
      /\ place \in [Entries -> Folders \cup {Nowhere}]
      /\ \A f \in Files : FileOK(f)
      /\ place' = [place EXCEPT ![e] = d] /\ moved' = moved \cup {e}
      /\ adapter' = adapter /\ walk' = walk /\ listed' = listed
      /\ d \in Folders => e \notin Chain(d)
  BY DEF WalkInv, WalkTypeOK, MoveEntry
<1>2. \A x \in Entries : x # e => place'[x] = place[x]
  BY <1>1
<1>3. WalkTypeOK'
  BY <1>1 DEF WalkTypeOK
<1>4. Tree'
  BY <1>1, TreeStays
<1>5. PresentInv'
  BY <1>1, <1>2 DEF PresentInv
<1>6. ASSUME NEW f \in Files PROVE FileOK(f)'
  <2>1. CASE ~Included(f)
    BY <1>1, <2>1 DEF FileOK, Included
  <2>2. CASE Included(f) /\ Chain(f)' \cap moved' = {}
    <3>1. e \notin Chain(f)'
      BY <1>1, <2>2
    <3>2. f \in Entries /\ f \in Chain(f)
      BY <1>1, ChainIs DEF Entries
    <3>3. Chain(f)' = Chain(f)
      BY <1>1, <3>1, <3>2, MovedBeside
    <3>4. Chain(f) \cap moved = {}
      BY <1>1, <2>2, <3>3
    <3>5. Accounted(f)
      BY <1>1, <2>2, <3>4 DEF FileOK
    <3>6. place'[f] = place[f]
      BY <1>2, <3>1, <3>2, <3>3
    <3>7. Recursive' = Recursive /\ RootSet' = RootSet
      BY <1>1 DEF Recursive, RootSet
    <3>8. /\ Upward(f)' = Upward(f) /\ Inner(f)' = Inner(f) /\ Reached(f)' = Reached(f)
      BY <3>3, <3>6, <3>7 DEF Upward, Inner, Reached
    <3>9. \A x \in Inner(f) : place'[x] = place[x]
      <4>1. Inner(f) \subseteq Chain(f) /\ Inner(f) \subseteq Entries
        BY <1>1, InnerIs
      <4> QED BY <1>2, <3>1, <3>3, <4>1
    <3>10. Ahead(f)' <=> Ahead(f)
      BY <1>1, <3>8, <3>9 DEF Ahead
    <3>11. Accounted(f)'
      BY <1>1, <3>5, <3>8, <3>10 DEF Accounted
    <3> QED BY <2>2, <3>11 DEF FileOK, Included
  <2>3. CASE Included(f) /\ Chain(f)' \cap moved' # {}
    BY <2>3 DEF FileOK, Included
  <2> QED BY <2>1, <2>2, <2>3
<1> QED BY <1>1, <1>3, <1>4, <1>5, <1>6 DEF WalkInv

LEMMA WalkStays == ASSUME WalkInv, UNCHANGED walkVars PROVE WalkInv'
<1>1. UNCHANGED <<adapter, place>> /\ moved' = moved /\ walk' = walk /\ listed' = listed
  BY DEF walkVars
<1>2. \A f : /\ Chain(f)' = Chain(f) /\ Upward(f)' = Upward(f)
             /\ Inner(f)' = Inner(f) /\ Reached(f)' = Reached(f)
  BY <1>1, PlacesStay
<1>3. Tree' = Tree /\ WalkTypeOK' = WalkTypeOK /\ PresentInv' = PresentInv
  BY <1>1, PlacesStay DEF WalkTypeOK, PresentInv
<1>4. ASSUME NEW f \in Files PROVE FileOK(f)' <=> FileOK(f)
  <2>1. Ahead(f)' <=> Ahead(f)
    BY <1>1, <1>2 DEF Ahead
  <2>2. Accounted(f)' <=> Accounted(f)
    BY <1>1, <1>2, <2>1 DEF Accounted
  <2> QED BY <1>1, <1>2, <2>2 DEF FileOK, Included
<1> QED BY <1>1, <1>3, <1>4 DEF WalkInv

LEMMA WalkKeeps == ASSUME WalkInv, [WalkStep]_walkVars PROVE WalkInv'
<1>1. CASE UNCHANGED walkVars
  BY <1>1, WalkStays
<1>2. ASSUME NEW d \in Folders, TakeFolder(d) PROVE WalkInv'
  BY <1>2, TakeFolderOK
<1>3. ASSUME NEW page \in Pages, NextPage(page) PROVE WalkInv'
  BY <1>3, NextPageOK
<1>4. CASE WalkFails \/ WalkEnds
  BY <1>4, WalkFailsOK, WalkEndsOK
<1>5. ASSUME NEW e \in Entries, NEW d \in Folders \cup {Nowhere}, MoveEntry(e, d)
      PROVE  WalkInv'
  BY <1>5, MoveEntryOK
<1> QED BY <1>1, <1>2, <1>3, <1>4, <1>5 DEF WalkStep, AdapterStep

(* Whatever others move, add and remove beside it while folder by folder   *)
(* and page by page is listed, a file that stays where it is, with the     *)
(* folders above it, is listed once for each configured folder it lies in. *)
THEOREM UndisturbedAreListed == WalkSpec => [](WalkTypeOK /\ UndisturbedListed)
<1>1. ASSUME WalkInv PROVE WalkTypeOK /\ UndisturbedListed
  <2>1. WalkTypeOK /\ Tree /\ listed \in [Files -> Nat]
    BY <1>1 DEF WalkInv, WalkTypeOK
  <2>2. ASSUME walk.pc = "done", NEW f \in Files, Chain(f) \cap moved = {}
        PROVE  listed[f] = IF Included(f) THEN Cardinality(Reached(f)) ELSE 0
    <3>1. FileOK(f) /\ \A d \in Folders : walk.queue[d] = 0
      BY <1>1, <2>2 DEF WalkInv
    <3>2. CASE ~Included(f)
      BY <3>1, <3>2 DEF FileOK
    <3>3. CASE Included(f)
      <4>1. Accounted(f) /\ ~Ahead(f)
        BY <2>2, <3>1, <3>3 DEF FileOK, Ahead
      <4>2. Tokens(Upward(f), walk.queue) = {}
        BY <3>1 DEF Tokens
      <4>3. Cardinality(Tokens(Upward(f), walk.queue)) = 0
        BY <4>2, FS_EmptySet
      <4>4. listed[f] \in Nat
        BY <2>1
      <4> QED BY <3>3, <4>1, <4>3, <4>4 DEF Accounted
    <3> QED BY <3>2, <3>3
  <2> QED BY <2>1, <2>2 DEF UndisturbedListed
<1> QED BY <1>1, WalkStarts, WalkKeeps, PTL DEF WalkSpec

-----------------------------------------------------------------------------
(* All the parts.  They share no variable, so a behaviour of all of them   *)
(* is one of each.                                                         *)

LEMMA PartsSteps ==
    [PartsNext]_<<part, partVars>> =>
       /\ [Next]_vars
       /\ [ScheduleStep]_scheduleVars
       /\ [WalkStep]_walkVars
       /\ [TokenStep]_tokenVars
       /\ [PushStep]_pushVars
       /\ [SinkStep]_sinkVars
       /\ [LifecycleStep]_lifecycleVars
       /\ [DraftStep]_draftVars
BY DEF PartsNext, partVars

LEMMA PartsSpecs ==
    PartsSpec => /\ Init /\ [][Next]_vars
                 /\ ScheduleSpec /\ WalkSpec /\ TokenSpec
                 /\ PushInit /\ [][PushStep]_pushVars
                 /\ SinkSpec /\ LifecycleSpec /\ DraftSpec
<1>1. PartsInit => /\ Init /\ ScheduleInit /\ WalkInit /\ TokenInit
                   /\ PushInit /\ SinkInit /\ LifecycleInit /\ DraftInit
  BY DEF PartsInit
<1> QED
  BY <1>1, PartsSteps, PTL
  DEF PartsSpec, ScheduleSpec, WalkSpec, TokenSpec, SinkSpec, LifecycleSpec, DraftSpec

(* Whichever of them is at work, the state of all of them keeps its types, *)
(* every part keeps its promises, and what a stage does is what            *)
(* StageOutcomes says of it.                                               *)
THEOREM PartsAreRight ==
    PartsSpec => /\ [](/\ PartsTypeOK
                       /\ BatchIsExact /\ ScheduleIsRight /\ UndisturbedListed
                       /\ OnlyLateTokensAreDead /\ AcceptedInOrder
                       /\ TakenIsRegistered /\ DrainedOnShutdown /\ WrittenAsReported
                       /\ MovesAreSafe /\ DraftIsJudged)
                 /\ ImplementsStageOutcomes
<1>1. Init /\ [][Next]_vars => []IInv
  BY InitInv, StepInv, PTL
<1>2. IInv => TypeOK /\ BatchIsExact
  BY ReturnComplete, AttemptsExact DEF IInv, BatchIsExact
<1>3. Init /\ [][Next]_vars => ImplementsStageOutcomes
  BY <1>1, InitMaps, StepMaps, PTL DEF ImplementsStageOutcomes, Outcomes!Spec
<1>4. PushInit /\ [][PushStep]_pushVars =>
        [](PushTypeOK /\ AcceptedInOrder /\ TakenIsRegistered /\ DrainedOnShutdown)
  BY RunStarts, RunStep, RunPromises, PTL
<1> QED
  BY <1>1, <1>2, <1>3, <1>4, PartsSpecs, ScheduleCorrect, UndisturbedAreListed, DeadTokensAreLate,
     SinksWriteAsReported, MovesKeepObjects, DraftsAreJudged, PTL
  DEF PartsTypeOK
==============================================================================
