\* A provider that keeps failing, with the wrapper's default.
SPECIFICATION DraftSpec
CONSTANTS
    MaxRevisions = {2}
    LlmAttempts = {3}
INVARIANTS
    AttemptsWithinMaximum
\* The workflow ends.
CHECK_DEADLOCK FALSE
