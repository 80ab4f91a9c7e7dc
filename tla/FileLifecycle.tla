----------------------------- MODULE FileLifecycle -----------------------------
(***************************************************************************)
(* The lifecycle manager (ecl-pipeline: lifecycle.rs): when a run is over, *)
(* its source objects are moved to another prefix or deleted, one by one,  *)
(* by requests to the bucket.  Any request may fail, with or without       *)
(* having taken effect, and the process may die; whoever fills the staging *)
(* prefix may put an object there again at any time.  A completed run that *)
(* is started again ends with the same calls for the same objects.         *)
(***************************************************************************)
EXTENDS Naturals, Sequences

CONSTANTS
    Objects,        \* names of the run's source objects
    Order,          \* the sequence of them that the manager is given
    Bases,          \* the last parts of these names
    BaseOf,         \* the last part of each name
    MaxUploads,     \* bound on the versions of an object
    MaxMoves        \* bound on the number of calls

ASSUME LifecycleAssumption ==
    /\ Order \in Seq(Objects)
    /\ \A i, j \in 1..Len(Order) : Order[i] = Order[j] => i = j
    /\ BaseOf \in [Objects -> Bases]
    /\ MaxUploads \in Nat \ {0} /\ MaxMoves \in Nat

VARIABLES
    onEnd,      \* the configured action
    staged,     \* the version under each object's name, 0 for none
    filed,      \* what is under the destination prefix
    uploads,    \* the newest version of each object
    late,       \* history: versions that came between a copy and its delete
    mover,      \* where move_objects or delete_objects is
    moves       \* number of calls so far

lifecycleVars == <<onEnd, staged, filed, uploads, late, mover, moves>>

Version == 1..MaxUploads
Copied == Objects \X Version
Nothing == <<>>
Idle == [pc |-> "idle", at |-> 0]

(* LifecycleAction, as the configured one of on_success or on_failure acts: *)
(* to the historical or the error prefix, away, or not at all.              *)
LifecycleAction == {"move", "delete", "none"}

LifecycleInit ==
    /\ onEnd \in LifecycleAction
    /\ staged = [o \in Objects |-> 1] /\ uploads = [o \in Objects |-> 1]
    /\ filed = [b \in Bases |-> Nothing]
    /\ late = {} /\ mover = Idle /\ moves = 0

Current == Order[mover.at]
At(pc) == mover.pc = pc /\ mover.at <= Len(Order)

(* The producer writes an object under the name of a source object.        *)
Upload(o) ==
    /\ uploads[o] < MaxUploads
    /\ uploads' = [uploads EXCEPT ![o] = @ + 1]
    /\ staged' = [staged EXCEPT ![o] = uploads[o] + 1]
    /\ late' = IF At("delete") /\ o = Current
               THEN late \cup {<<o, uploads[o] + 1>>} ELSE late
    /\ UNCHANGED <<onEnd, filed, mover, moves>>

(* One token serves the whole call; without it there is no request, and    *)
(* without objects there is neither.                                       *)
StartMove ==
    /\ mover = Idle /\ moves < MaxMoves
    /\ onEnd # "none" /\ Order # <<>>
    /\ moves' = moves + 1
    /\ mover' = [pc |-> IF onEnd = "move" THEN "copy" ELSE "delete", at |-> 1]
    /\ UNCHANGED <<onEnd, staged, filed, uploads, late>>

(* The effect of a copy request: there must be something to copy, and what *)
(* is under the destination's name is replaced.                            *)
CopyDone == [filed EXCEPT ![BaseOf[Current]] = <<Current, staged[Current]>>]

CopyObject ==
    /\ At("copy") /\ staged[Current] # 0
    /\ filed' = CopyDone
    /\ mover' = [mover EXCEPT !.pc = "delete"]
    /\ UNCHANGED <<onEnd, staged, uploads, late, moves>>

(* The next object, or the end of the call.                                *)
NextObject ==
    IF mover.at = Len(Order) THEN Idle
    ELSE [pc |-> IF onEnd = "move" THEN "copy" ELSE "delete", at |-> mover.at + 1]

DeleteObject ==
    /\ At("delete") /\ staged[Current] # 0
    /\ staged' = [staged EXCEPT ![Current] = 0]
    /\ mover' = NextObject
    /\ UNCHANGED <<onEnd, filed, uploads, late, moves>>

(* The first error ends the call.  A request whose answer is lost may have *)
(* been carried out; one for a name that is not there was not.             *)
MutCopyFails ==
    /\ At("copy")
    /\ filed' = filed
    /\ mover' = [mover EXCEPT !.pc = "delete"]
    /\ UNCHANGED <<onEnd, staged, uploads, late, moves>>
CopyFails ==
    /\ At("copy")
    /\ \/ filed' = filed
       \/ staged[Current] # 0 /\ filed' = CopyDone
    /\ mover' = Idle
    /\ UNCHANGED <<onEnd, staged, uploads, late, moves>>

DeleteFails ==
    /\ At("delete")
    /\ staged' \in {staged, [staged EXCEPT ![Current] = 0]}
    /\ mover' = Idle
    /\ UNCHANGED <<onEnd, filed, uploads, late, moves>>

LifecycleStep ==
    \/ StartMove \/ CopyObject \/ DeleteObject \/ CopyFails \/ DeleteFails
    \/ \E o \in Objects : Upload(o)
LifecycleSpec == LifecycleInit /\ [][LifecycleStep]_lifecycleVars
-----------------------------------------------------------------------------
LifecycleTypeOK ==
    /\ onEnd \in LifecycleAction
    /\ staged \in [Objects -> 0..MaxUploads]
    /\ uploads \in [Objects -> Version]
    /\ filed \in [Bases -> {Nothing} \cup Copied]
    /\ late \subseteq Copied
    /\ mover \in [pc: {"idle", "copy", "delete"}, at: 0..Len(Order)]
    /\ moves \in 0..MaxMoves

Rivals(o) == {p \in Objects \ {o} : BaseOf[p] = BaseOf[o]}

(* Whatever fails, and however often the run is repeated: an object that   *)
(* is to be moved is under its old name or its new one, in its newest      *)
(* version, unless another object with the same base name took its place   *)
(* or that version came between the copy and the delete.                   *)
NewestKept ==
    onEnd # "delete" =>
        \A o \in Objects :
            \/ Rivals(o) # {}
            \/ <<o, uploads[o]>> \in late
            \/ staged[o] = uploads[o]
            \/ filed[BaseOf[o]] = <<o, uploads[o]>>

(* The objects that are gone are the first ones of the list: a call never  *)
(* skips one, so a repeated call gets no further than the abandoned one    *)
(* unless the objects that were moved come back.                           *)
GoneInOrder ==
    \A i, j \in 1..Len(Order) :
        i < j /\ staged[Order[j]] = 0 /\ uploads[Order[i]] = 1
            => staged[Order[i]] = 0

(* What a call of the manager, whole or cut short, leaves of the objects.  *)
MovesAreSafe == NewestKept /\ GoneInOrder
=============================================================================
