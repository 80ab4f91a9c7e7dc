\* A document pushed is never given to a stage.
CONSTANTS
    first = first  second = second
    PushOrder <- MCPushOrder
    Requests = {r1, r2, r3}
    Capacity = 2
    BatchLimit = 1
    SelfClosing = {first}
    MaxClock = 2
SPECIFICATION PushSpec
INVARIANTS
    PushedDocumentsAreStaged
\* The loop ends.
CHECK_DEADLOCK FALSE
