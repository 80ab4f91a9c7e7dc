--------------------------------- MODULE Drafts ---------------------------------
(***************************************************************************)
(* The critique-and-revise workflow (ecl-workflows: critique_loop.rs) over *)
(* an LLM provider in its retry wrapper (ecl-core: llm/retry.rs).          *)
(***************************************************************************)
EXTENDS Naturals

CONSTANTS
    MaxRevisions,   \* values of max_revisions to look at
    LlmAttempts     \* values of the wrapper's max_attempts to look at

ASSUME DraftAssumption == MaxRevisions \subseteq Nat /\ LlmAttempts \subseteq Nat

VARIABLES
    settings,       \* the workflow's and the wrapper's; never change
    drafting,       \* the request that is under way, or the outcome
    errors,         \* failed calls of the provider for this request
    revision_count,
    critiques,      \* how many there are
    judged,         \* history: the version of the draft in the last critique
    requests        \* history: requests that were made of the wrapper

draftVars == <<settings, drafting, errors, revision_count, critiques, judged, requests>>

DraftInit ==
    /\ settings \in [max_revisions: MaxRevisions, max_attempts: LlmAttempts]
    /\ drafting = "generate"
    /\ errors = 0 /\ revision_count = 0 /\ critiques = 0
    /\ judged = 0 /\ requests = 1

Asking == drafting \in {"generate", "critique", "revise"}

(* backon's with_max_times counts the retries, not the attempts.           *)
RetriesLeft == errors < settings.max_attempts

(* The provider fails, and the wrapper asks it again.                      *)
RetryCall ==
    /\ Asking /\ RetriesLeft
    /\ errors' = errors + 1
    /\ UNCHANGED <<settings, drafting, revision_count, critiques, judged, requests>>

(* An error that is permanent, or comes after the last retry; or a         *)
(* critique that cannot be parsed.                                         *)
RequestFails ==
    /\ Asking
    /\ drafting' = "failed"
    /\ UNCHANGED <<settings, errors, revision_count, critiques, judged, requests>>

Request(step) == drafting' = step /\ errors' = 0 /\ requests' = requests + 1

Generated ==
    /\ drafting = "generate"
    /\ Request("critique")
    /\ UNCHANGED <<settings, revision_count, critiques, judged>>

(* The critique is of the current draft.                                   *)
Judge ==
    /\ drafting = "critique"
    /\ critiques' = critiques + 1
    /\ judged' = revision_count

Pass ==
    /\ Judge
    /\ drafting' = "approved"
    /\ UNCHANGED <<settings, errors, revision_count, requests>>

Revise ==
    /\ Judge
    /\ IF revision_count >= settings.max_revisions
       THEN drafting' = "exceeded" /\ UNCHANGED <<errors, requests>>
       ELSE Request("revise")
    /\ UNCHANGED <<settings, revision_count>>

MutRevised ==
    /\ drafting = "revise"
    /\ revision_count' = revision_count + 1
    /\ IF revision_count + 1 >= settings.max_revisions
       THEN drafting' = "approved" /\ UNCHANGED <<errors, requests>>
       ELSE Request("critique")
    /\ UNCHANGED <<settings, critiques, judged>>
Revised ==
    /\ drafting = "revise"
    /\ revision_count' = revision_count + 1
    /\ Request("critique")
    /\ UNCHANGED <<settings, critiques, judged>>

DraftStep == RetryCall \/ RequestFails \/ Generated \/ Pass \/ Revise \/ Revised
DraftSpec == DraftInit /\ [][DraftStep]_draftVars
-----------------------------------------------------------------------------
DraftTypeOK ==
    /\ settings \in [max_revisions: MaxRevisions, max_attempts: LlmAttempts]
    /\ drafting \in {"generate", "critique", "revise", "approved", "exceeded", "failed"}
    /\ errors \in Nat /\ revision_count \in Nat /\ critiques \in Nat
    /\ judged \in Nat /\ requests \in Nat \ {0}

(* Only a draft that was judged as it is now is returned, and it is given  *)
(* up only when the last allowed revision was judged too; the workflow     *)
(* makes as many requests as its revisions allow (critique_loop.rs:67-160).*)
DraftIsJudged ==
    /\ drafting \in {"approved", "exceeded"} =>
         judged = revision_count /\ critiques = revision_count + 1
    /\ drafting = "exceeded" => revision_count = settings.max_revisions
    /\ requests <= 2 * settings.max_revisions + 2

-----------------------------------------------------------------------------
(* What the repository says and the code does not do.                      *)

(* "Sets the maximum number of attempts" (retry.rs:36), 3 by default: the  *)
(* calls of the provider for one request, the one under way included.      *)
AttemptsWithinMaximum == Asking => errors + 1 <= settings.max_attempts
=============================================================================
