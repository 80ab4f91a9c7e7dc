--------------------------- MODULE MCPipelineParts ---------------------------
(* The parts around the runner: the schedule it is given, the execution of *)
(* one stage, the enumeration of its sources, their tokens, its push       *)
(* sources, its sinks, and the moves that end it; and the workflow that    *)
(* drafts texts.  They share nothing, so a behaviour is one of one part.   *)
EXTENDS BatchExec, Schedule, SourceWalk, TokenCache, MCPushSource, Sinks,
        FileLifecycle, Drafts, TLC

CONSTANTS s1, s2, s3, r1, r2, r3, root, sub, f1, f2, i1, i2, o1, o2, o3, b1, b2

(* The first of three stages creates two resources; the third may create   *)
(* one of them too, or write what the second may write.  All read anything.*)
MCReads == [Stages -> SUBSET Resources]
MCDeclarations ==
    {[s \in Stages |->
        IF s = s1 THEN [creates |-> {r1, r2}, writes |-> {}, reads |-> reads[s]]
        ELSE IF s = s2 THEN [creates |-> {r3}, writes |-> written, reads |-> reads[s]]
        ELSE [creates |-> created, writes |-> written, reads |-> reads[s]]] :
     reads \in MCReads, created \in {{}, {r2}}, written \in {{}, {r1}}}

MCRoots == <<root, sub>>
MCRules == <<[matches |-> {f1, f2}, include |-> FALSE], [matches |-> {f1}, include |-> TRUE]>>
MCOrder == <<o1, o2, o3>>
MCBaseOf == o1 :> b1 @@ o2 :> b2 @@ o3 :> b1

(* Three items of a stage: one waits for a permit while two are in flight. *)
MCConcurrencies == {0, 1, 2}
MCMaxAttempts == {0, 2}

VARIABLE part

partVars ==
    <<vars, scheduleVars, walkVars, tokenVars, pushVars, sinkVars, lifecycleVars,
      draftVars>>

(* What the other parts are configured with does not matter.               *)
PartsInit ==
    /\ part \in {"batch", "schedule", "walk", "tokens", "push", "sinks",
                "lifecycle", "drafts"}
    /\ part # "batch" => stage = CHOOSE s \in StageSettings : s.concurrency = 0
    /\ part # "schedule" => declared = CHOOSE d \in Declarations : TRUE
    /\ part # "walk" => adapter = "slack" /\ place = [e \in Entries |-> Nowhere]
    /\ part # "sinks" => kind = "gcs" /\ filter = "all"
    /\ part # "lifecycle" => onEnd = "none"
    /\ part # "drafts" => settings = [max_revisions |-> 0, max_attempts |-> 0]
    /\ Init /\ ScheduleInit /\ WalkInit /\ TokenInit /\ PushInit /\ SinkInit
    /\ LifecycleInit /\ DraftInit

PartsNext ==
    /\ UNCHANGED part
    /\ \/ /\ part = "batch" /\ Next
          /\ UNCHANGED <<scheduleVars, walkVars, tokenVars, pushVars, sinkVars,
                         lifecycleVars, draftVars>>
       \/ /\ part = "schedule" /\ ScheduleStep
          /\ UNCHANGED <<vars, walkVars, tokenVars, pushVars, sinkVars,
                         lifecycleVars, draftVars>>
       \/ /\ part = "walk" /\ WalkStep
          /\ UNCHANGED <<vars, scheduleVars, tokenVars, pushVars, sinkVars,
                         lifecycleVars, draftVars>>
       \/ /\ part = "tokens" /\ TokenStep
          /\ UNCHANGED <<vars, scheduleVars, walkVars, pushVars, sinkVars,
                         lifecycleVars, draftVars>>
       \/ /\ part = "push" /\ PushStep
          /\ UNCHANGED <<vars, scheduleVars, walkVars, tokenVars, sinkVars,
                         lifecycleVars, draftVars>>
       \/ /\ part = "sinks" /\ SinkStep
          /\ UNCHANGED <<vars, scheduleVars, walkVars, tokenVars, pushVars,
                         lifecycleVars, draftVars>>
       \/ /\ part = "lifecycle" /\ LifecycleStep
          /\ UNCHANGED <<vars, scheduleVars, walkVars, tokenVars, pushVars,
                         sinkVars, draftVars>>
       \/ /\ part = "drafts" /\ DraftStep
          /\ UNCHANGED <<vars, scheduleVars, walkVars, tokenVars, pushVars,
                         sinkVars, lifecycleVars>>

(* The fairness of each part that some liveness property is about.         *)
PartsSpec ==
    /\ PartsInit /\ [][PartsNext]_<<part, partVars>>
    /\ WF_vars(part = "batch" /\ CallerStep)
    /\ \A i \in Items : WF_vars(part = "batch" /\ ItemStep(i))
    /\ WF_pushVars(part = "push" /\ RunnerStep)
    /\ \A i \in SinkItems : WF_sinkVars(part = "sinks" /\ SinkItemStep(i))
    /\ WF_walkVars(part = "walk" /\ AdapterStep)
    /\ WF_draftVars(part = "drafts" /\ DraftStep)

PartsTypeOK ==
    /\ TypeOK /\ ScheduleTypeOK /\ WalkTypeOK /\ TokenTypeOK /\ PushTypeOK
    /\ SinkTypeOK /\ LifecycleTypeOK /\ DraftTypeOK

(* A stage ends (StageEnds).  Every item of a sink ends, although all of   *)
(* them may wait for the one that registers the schema, and that one fails;*)
(* every enumeration returns, however the folders are moved while it lists *)
(* them; and a draft is approved or given up, if the provider answers.     *)
PartsEnd ==
    /\ StageEnds
    /\ part = "sinks" => <>(\A i \in SinkItems : item[i].pc \in {"ok", "failed"})
    /\ part = "walk" => <>(walk.pc \in {"done", "failed"})
    /\ part = "drafts" => <>(drafting \in {"approved", "exceeded", "failed"})
=============================================================================
