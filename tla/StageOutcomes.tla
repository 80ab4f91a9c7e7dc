----------------------------- MODULE StageOutcomes -----------------------------
(***************************************************************************)
(* What the runner is promised by the task of one stage                    *)
(* (ecl-pipeline/src/batch.rs): each item gets one outcome, which never    *)
(* changes, and the task returns when every item has one.  This is the     *)
(* `task` that PipelineRunner gives a stage: Decide and Return are its     *)
(* ItemSucceeds, ItemErrs, BatchSucceeds and BatchErrs.                    *)
(***************************************************************************)
CONSTANT Items

VARIABLES state,    \* "running", "returned" or "lost" (no result will come)
          ok, bad   \* items that succeeded, items the stage gave up on

vars == <<state, ok, bad>>

Init == state = "running" /\ ok = {} /\ bad = {}

Undecided == Items \ (ok \cup bad)

SetOutcomes(S, T) ==
    /\ state = "running"
    /\ S \cup T \subseteq Undecided /\ S \cap T = {}
    /\ ok' = ok \cup S /\ bad' = bad \cup T

Decide(S, T) == SetOutcomes(S, T) /\ UNCHANGED state

(* Nothing is undecided any more.                                          *)
Return(S, T) ==
    /\ SetOutcomes(S, T)
    /\ S \cup T = Undecided
    /\ state' = "returned"

Lose ==
    /\ state = "running"
    /\ state' = "lost"
    /\ UNCHANGED <<ok, bad>>

Next ==
    \/ \E S, T \in SUBSET Items : Decide(S, T) \/ Return(S, T)
    \/ Lose

Spec == Init /\ [][Next]_vars
=============================================================================
