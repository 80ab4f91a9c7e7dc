------------------------------- MODULE TokenCache -------------------------------
(***************************************************************************)
(* The access tokens of the Google adapters, the sink and the lifecycle    *)
(* manager (ecl-gcp-auth: auth.rs): a cached token is handed out while it  *)
(* has Margin left, and otherwise whoever asks requests one.  The lock is  *)
(* free between the look and the store, so several may request at once.    *)
(***************************************************************************)
EXTENDS Integers

CONSTANTS
    Askers,    \* tasks that call get_token of one provider
    Lifetime,   \* expires_in of the endpoint's answers
    Margin,     \* the 30 seconds of get_token
    MaxTime     \* bound on the clock

ASSUME TokenAssumption ==
    /\ Lifetime \in Nat /\ Margin \in Nat /\ MaxTime \in Nat

VARIABLES
    clock,
    cached,     \* the cached token, or none of them
    asker       \* where each call is, and what it got last

tokenVars == <<clock, cached, asker>>

(* A token is known by the time it was issued at; `expires` is what        *)
(* CachedToken::expires_at says of it.  History: `arrived`, when the answer*)
(* with it did, `asked`, when a call began, `at`, when it returned.        *)
Token == [issued: 0..MaxTime, arrived: 0..MaxTime, expires: 0..(MaxTime + Lifetime)]
NoToken == [issued |-> -1, arrived |-> -1, expires |-> -1]
Call == [pc: {"idle", "request", "issued", "received"},
         token: Token \cup {NoToken}, asked: 0..MaxTime, at: 0..MaxTime]

TokenInit ==
    /\ clock = 0
    /\ cached = NoToken
    /\ asker = [c \in Askers |-> [pc |-> "idle", token |-> NoToken, asked |-> 0, at |-> 0]]

MutUsable(token) == token # NoToken /\ token.expires >= clock - Margin
Usable(token) == token # NoToken /\ token.expires > clock + Margin

Hand(c, token, asked) ==
    asker' = [asker EXCEPT
                ![c] = [pc |-> "idle", token |-> token, asked |-> asked, at |-> clock]]

(* get_token: the cached token, under the read lock.                       *)
TakeCached(c) ==
    /\ asker[c].pc = "idle" /\ Usable(cached)
    /\ Hand(c, cached, clock)
    /\ UNCHANGED <<clock, cached>>

(* The credentials are read and an exchange is sent.                       *)
SendRequest(c) ==
    /\ asker[c].pc = "idle" /\ ~Usable(cached)
    /\ asker' = [asker EXCEPT
         ![c] = [pc |-> "request", token |-> NoToken, asked |-> clock, at |-> 0]]
    /\ UNCHANGED <<clock, cached>>

(* The endpoint issues a token.                                            *)
IssueToken(c) ==
    /\ asker[c].pc = "request"
    /\ asker' = [asker EXCEPT
         ![c].pc = "issued", ![c].token = [issued |-> clock, arrived |-> 0, expires |-> 0]]
    /\ UNCHANGED <<clock, cached>>

(* The answer: its expiry is counted from now.  Nothing limits how long it *)
(* takes: the client that sends the request has no timeout.                *)
ReceiveToken(c) ==
    /\ asker[c].pc = "issued"
    /\ asker' = [asker EXCEPT
         ![c].pc = "received",
         ![c].token = [issued |-> @.issued, arrived |-> clock, expires |-> clock + Lifetime]]
    /\ UNCHANGED <<clock, cached>>

(* The write lock: the last answer stored stays, even if it is older.      *)
StoreToken(c) ==
    /\ asker[c].pc = "received"
    /\ cached' = asker[c].token
    /\ Hand(c, asker[c].token, asker[c].asked)
    /\ UNCHANGED clock

(* No credentials, a refused exchange or no answer; the cache is kept.     *)
RefreshFails(c) ==
    /\ asker[c].pc \in {"request", "issued"}
    /\ asker' = [asker EXCEPT
         ![c] = [pc |-> "idle", token |-> NoToken, asked |-> 0, at |-> 0]]
    /\ UNCHANGED <<clock, cached>>

Tick ==
    /\ clock < MaxTime
    /\ clock' = clock + 1
    /\ UNCHANGED <<cached, asker>>

AskerStep(c) ==
    \/ TakeCached(c) \/ SendRequest(c) \/ IssueToken(c) \/ ReceiveToken(c)
    \/ StoreToken(c) \/ RefreshFails(c)
TokenStep == Tick \/ \E c \in Askers : AskerStep(c)
TokenSpec == TokenInit /\ [][TokenStep]_tokenVars
-----------------------------------------------------------------------------
TokenTypeOK ==
    /\ clock \in 0..MaxTime
    /\ cached \in Token \cup {NoToken}
    /\ asker \in [Askers -> Call]

(* Whichever of several answers was stored last, a token is past its end   *)
(* when get_token hands it out only if the answer that it came with took   *)
(* longer than the margin, or this call longer than a token lives          *)
(* (auth.rs:97-114).                                                       *)
OnlyLateTokensAreDead ==
    \A c \in Askers :
        LET token == asker[c].token
        IN  asker[c].pc = "idle" /\ token # NoToken =>
                \/ asker[c].at < token.issued + Lifetime
                \/ token.arrived - token.issued > Margin
                \/ asker[c].at - asker[c].asked >= Lifetime
=============================================================================
