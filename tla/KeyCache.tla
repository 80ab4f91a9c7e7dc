-------------------------------- MODULE KeyCache --------------------------------
(***************************************************************************)
(* The keys that Google's id tokens are checked with (fabryk-auth-google): *)
(* one cache for all requests.  A request whose key is not in it, or that  *)
(* finds it too old, fetches the keys and looks again; nothing is locked   *)
(* between these steps, so the cache may be another request's by then.     *)
(***************************************************************************)
EXTENDS Integers

CONSTANTS
    Validators,     \* requests that validate a token
    Kids,           \* ids of keys
    CacheTtl,       \* JWKS_CACHE_TTL
    FetchDelay,     \* an answer is stored, and looked at, within this time
    KeyTime         \* bound on the clock

ASSUME KeyAssumption ==
    /\ CacheTtl \in Nat /\ FetchDelay \in Nat /\ KeyTime \in Nat
    /\ FetchDelay <= CacheTtl

VARIABLES
    online,         \* whether there is an HTTP client, or static keys
    now,
    published,      \* the keys of the endpoint
    withdrawn,      \* history: when a key was withdrawn, -1 for never
    cachedKeys,     \* cached: the keys and fetched_at, -1 while there are none
    check           \* where find_key is for each request

keyVars == <<online, now, published, withdrawn, cachedKeys, check>>

Keys == SUBSET Kids
(* `keys` came with the answer at time `at`; `steady` tells whether the    *)
(* key was published all the while, `overtaken` whether another answer was *)
(* stored between this request's own and its second look.                  *)
Check == [pc: {"idle", "fetch", "answered", "again", "found", "missing", "error"},
          kid: Kids, keys: Keys, at: -1..KeyTime,
          steady: BOOLEAN, overtaken: BOOLEAN]

KeyInit ==
    /\ online \in BOOLEAN
    /\ now = 0
    /\ published \in Keys
    /\ withdrawn = [k \in Kids |-> -1]
    /\ cachedKeys = [keys |-> IF online THEN {} ELSE published,
                     fetched_at |-> IF online THEN -1 ELSE 0]
    /\ check \in [Validators -> {[pc |-> "idle", kid |-> k, keys |-> {}, at |-> -1,
                                  steady |-> FALSE, overtaken |-> FALSE] : k \in Kids}]

(* lookup_cached                                                           *)
InCache(kid) ==
    /\ cachedKeys.fetched_at # -1
    /\ online => now - cachedKeys.fetched_at <= CacheTtl
    /\ kid \in cachedKeys.keys

FirstLookup(v) ==
    /\ check[v].pc = "idle"
    /\ check' = [check EXCEPT ![v] =
         IF InCache(check[v].kid) THEN [@ EXCEPT !.pc = "found", !.at = now]
         ELSE IF online THEN [@ EXCEPT !.pc = "fetch", !.steady = check[v].kid \in published]
         ELSE [@ EXCEPT !.pc = "missing", !.at = now]]
    /\ UNCHANGED <<online, now, published, withdrawn, cachedKeys>>

(* refresh_keys: the endpoint answers ...                                  *)
Answer(v) ==
    /\ check[v].pc = "fetch"
    /\ check' = [check EXCEPT ![v] = [@ EXCEPT !.pc = "answered", !.keys = published, !.at = now]]
    /\ UNCHANGED <<online, now, published, withdrawn, cachedKeys>>

FetchFails(v) ==
    /\ check[v].pc = "fetch"
    /\ check' = [check EXCEPT ![v] = [@ EXCEPT !.pc = "error", !.steady = FALSE]]
    /\ UNCHANGED <<online, now, published, withdrawn, cachedKeys>>

(* ... and the answer is stored, even over a later one.                    *)
MutStoreKeys(v) ==
    /\ check[v].pc = "answered"
    /\ cachedKeys' = IF cachedKeys.fetched_at # -1 /\ now - cachedKeys.fetched_at <= CacheTtl
                     THEN cachedKeys
                     ELSE [keys |-> check[v].keys, fetched_at |-> now]
    /\ check' = [w \in Validators |->
         IF w = v THEN [check[w] EXCEPT !.pc = "again", !.keys = {}]
         ELSE IF check[w].pc = "again" THEN [check[w] EXCEPT !.overtaken = TRUE]
         ELSE check[w]]
    /\ UNCHANGED <<online, now, published, withdrawn>>
StoreKeys(v) ==
    /\ check[v].pc = "answered"
    /\ cachedKeys' = [keys |-> check[v].keys, fetched_at |-> now]
    /\ check' = [w \in Validators |->
         IF w = v THEN [check[w] EXCEPT !.pc = "again", !.keys = {}]
         ELSE IF check[w].pc = "again" THEN [check[w] EXCEPT !.overtaken = TRUE]
         ELSE check[w]]
    /\ UNCHANGED <<online, now, published, withdrawn>>

SecondLookup(v) ==
    /\ check[v].pc = "again"
    /\ check' = [check EXCEPT ![v] =
         [@ EXCEPT !.pc = IF InCache(check[v].kid) THEN "found" ELSE "missing", !.at = now]]
    /\ UNCHANGED <<online, now, published, withdrawn, cachedKeys>>

(* The endpoint changes its keys; the id of one it withdraws is not used   *)
(* again.                                                                  *)
Rotate(keys) ==
    /\ online /\ keys # published /\ \A k \in keys : withdrawn[k] = -1
    /\ published' = keys
    /\ withdrawn' = [k \in Kids |-> IF k \in published \ keys THEN now ELSE withdrawn[k]]
    /\ check' = [v \in Validators |->
         [check[v] EXCEPT !.steady = @ /\ (check[v].kid \in keys
                                            \/ check[v].pc \notin {"fetch", "answered", "again"})]]
    /\ UNCHANGED <<online, now, cachedKeys>>

PassTime ==
    /\ now < KeyTime
    /\ \A v \in Validators : check[v].pc \in {"answered", "again"} => now < check[v].at + FetchDelay
    /\ now' = now + 1
    /\ UNCHANGED <<online, published, withdrawn, cachedKeys, check>>

KeyStep ==
    \/ \E v \in Validators :
          FirstLookup(v) \/ Answer(v) \/ FetchFails(v) \/ StoreKeys(v) \/ SecondLookup(v)
    \/ \E keys \in Keys : Rotate(keys)
    \/ PassTime
KeySpec == KeyInit /\ [][KeyStep]_keyVars
-----------------------------------------------------------------------------
KeyTypeOK ==
    /\ online \in BOOLEAN
    /\ now \in 0..KeyTime
    /\ published \in Keys
    /\ withdrawn \in [Kids -> -1..KeyTime]
    /\ cachedKeys \in [keys: Keys, fetched_at: -1..KeyTime]
    /\ check \in [Validators -> Check]

(* A token is accepted on a key that the endpoint published then, or had   *)
(* not long before: whichever of two answers is stored last, a withdrawn   *)
(* key is trusted no longer than the cache lives and an answer is under    *)
(* way (lib.rs:226-283).                                                   *)
FoundWasPublished ==
    \A v \in Validators :
        online /\ check[v].pc = "found" =>
            \/ check[v].kid \in published
            \/ check[v].at <= withdrawn[check[v].kid] + CacheTtl + FetchDelay

(* NoMatchingKey, for a key that was published all the while, comes only   *)
(* of two requests fetching at once.                                       *)
MissingForAReason ==
    \A v \in Validators :
        online /\ check[v].pc = "missing" /\ check[v].steady => check[v].overtaken

(* Whatever fetches at the same time, a key is found while it is           *)
(* published, and not for long after.                                      *)
KeysAreCurrent == FoundWasPublished /\ MissingForAReason
=============================================================================
