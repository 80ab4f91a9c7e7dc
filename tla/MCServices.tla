------------------------------ MODULE MCServices ------------------------------
(* The services of a server with two of them, both gating the tools, or    *)
(* its notifier.  Waits, calls and requires only read what the services    *)
(* write, so a behaviour has one kind of them.                             *)
EXTENDS Services, Notifier, TLC

CONSTANTS fts, vector

VARIABLE part       \* which of the two takes steps

MCGate == <<fts, vector>>
MCAttempts == fts :> 2 @@ vector :> 1

MCInit ==
    /\ part \in {"services", "notifier"}
    /\ Init /\ NotifierInit

NobodyWaits == \A w \in Waiters, s \in Service : answer[w][s] = "idle"
MCServicesNext ==
    \/ ServiceStep
    \/ WaitStep /\ calls = 0
    \/ CallStep /\ NobodyWaits
    \/ RequireStep /\ calls = 0 /\ NobodyWaits
MCNext ==
    \/ part = "services" /\ MCServicesNext /\ UNCHANGED <<notifierVars, part>>
    \/ part = "notifier" /\ NotifierStep /\ UNCHANGED <<vars, part>>
MCSpec ==
    /\ MCInit /\ [][MCNext]_<<vars, notifierVars, part>>
    /\ part = "services" => Fairness
    /\ part = "notifier" => NotifierFairness

MCTypeOK == TypeOK /\ NotifierTypeOK

(* Nobody waits for ever: wait_ready learns what became of its service, no *)
(* service is left starting, and every notifying call returns.             *)
NobodyIsStuck == WaitersLearn /\ StartingEnds /\ NotifyReturns
=============================================================================
