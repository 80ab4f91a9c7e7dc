\* Two services, of two attempts and of one, one wait for both, a tool call;
\* two clients and two tasks that notify them.
CONSTANTS
    fts = fts  vector = vector
    Service = {fts, vector}
    Waiters = {w1}
    Gate <- MCGate
    MaxAttempts <- MCAttempts
    OwnerStates = {"Ready", "Degraded"}
    MaxSets = 1
    MaxCalls = 1
    Peers = {p1, p2}
    Senders = {t1, t2}
    MaxSubscribed = 2
    MaxSends = 2
SPECIFICATION MCSpec
INVARIANTS
    MCTypeOK
    BackendsAreThere
    TrailTellsState
    AllAttemptsMade
    LivePeersKept
PROPERTIES
    NobodyIsStuck
\* The tasks end and the bounds on calls are reached.
CHECK_DEADLOCK FALSE
