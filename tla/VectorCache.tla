------------------------------ MODULE VectorCache ------------------------------
(***************************************************************************)
(* The cached vector index (fabryk-vector: builder.rs, backend.rs): build  *)
(* loads the cache if its hash is that of the content, and otherwise       *)
(* embeds every file and writes a new cache.  One builder; build_append    *)
(* works on memory only and is left out.                                   *)
(***************************************************************************)
EXTENDS ContentDir

CONSTANTS FailFast,     \* error_handling = ErrorHandling::FailFast
          MaxBuilds     \* bound on the number of builds

ASSUME VectorAssumption == FailFast \in BOOLEAN /\ MaxBuilds \in Nat

VARIABLES
    cache,      \* the cache file, {} if missing or unreadable
    vjob,       \* the builder
    builds      \* number of builds so far

vectorVars == <<cache, vjob, builds>>

(* `listed` and `errors` are history: the content when the files were      *)
(* discovered, and whether some file could not be extracted.               *)
Cached == [hash: Listing, docs: SUBSET Doc, listed: Listing, errors: BOOLEAN]
NoListing == [n \in Names |-> 0]
IdleBuild == [pc |-> "idle", hash |-> NoListing, todo |-> {}, docs |-> {},
              listed |-> NoListing, errors |-> FALSE]
VectorJob == [pc: {"idle", "check", "discover", "extract", "save"},
              hash: Listing, todo: SUBSET Names, docs: SUBSET Doc,
              listed: Listing, errors: BOOLEAN]

VectorInit == cache = {} /\ vjob = IdleBuild /\ builds = 0

(* The content is hashed, unless the cache is to be skipped.               *)
StartVector(skipCache) ==
    /\ vjob.pc = "idle" /\ builds < MaxBuilds
    /\ builds' = builds + 1
    /\ vjob' = IF skipCache THEN [IdleBuild EXCEPT !.pc = "discover"]
               ELSE [IdleBuild EXCEPT !.pc = "check", !.hash = HashOf(Base)]
    /\ UNCHANGED <<cache, contentVars>>

CacheHit ==
    /\ vjob.pc = "check"
    /\ \E c \in cache : c.hash = vjob.hash
    /\ vjob' = IdleBuild
    /\ UNCHANGED <<cache, builds, contentVars>>

CacheMiss ==
    /\ vjob.pc = "check"
    /\ \A c \in cache : c.hash # vjob.hash
    /\ vjob' = [vjob EXCEPT !.pc = "discover"]
    /\ UNCHANGED <<cache, builds, contentVars>>

Discover ==
    /\ vjob.pc = "discover"
    /\ vjob' = [vjob EXCEPT !.todo = Present(Base), !.listed = content[Base],
                            !.pc = "extract"]
    /\ UNCHANGED <<cache, builds, contentVars>>

ExtractFile(n) ==
    /\ vjob.pc = "extract"
    /\ n \in vjob.todo /\ n \in Present(Base)
    /\ vjob' = [vjob EXCEPT !.todo = @ \ {n},
                            !.docs = @ \cup {DocOf(Base, n, content[Base])}]
    /\ UNCHANGED <<cache, builds, contentVars>>

(* The file is gone, or has no document in it.                             *)
ExtractFails(n) ==
    /\ vjob.pc = "extract" /\ n \in vjob.todo
    /\ vjob' = IF FailFast THEN IdleBuild
               ELSE [vjob EXCEPT !.todo = @ \ {n}, !.errors = TRUE]
    /\ UNCHANGED <<cache, builds, contentVars>>

(* Every document is embedded; then the content is hashed.                 *)
MutHashEarly ==
    /\ vjob.pc = "extract"
    /\ vjob' = [vjob EXCEPT !.hash = HashOf(Base), !.pc = "save"]
    /\ UNCHANGED <<cache, builds, contentVars>>
EmbedAndHash ==
    /\ vjob.pc = "extract" /\ vjob.todo = {}
    /\ vjob' = [vjob EXCEPT !.hash = HashOf(Base), !.pc = "save"]
    /\ UNCHANGED <<cache, builds, contentVars>>

(* A failure to save is only logged; it may leave the file unreadable.     *)
SaveCache ==
    /\ vjob.pc = "save"
    /\ cache' \in {{[hash |-> vjob.hash, docs |-> vjob.docs,
                     listed |-> vjob.listed, errors |-> vjob.errors]},
                   {}, cache}
    /\ vjob' = IdleBuild
    /\ UNCHANGED <<builds, contentVars>>

(* The process dies, or embedding fails.                                   *)
AbandonVector ==
    /\ vjob.pc # "idle"
    /\ vjob' = IdleBuild
    /\ cache' \in IF vjob.pc = "save" THEN {cache, {}} ELSE {cache}
    /\ UNCHANGED <<builds, contentVars>>

VectorStep ==
    \/ \E skipCache \in BOOLEAN : StartVector(skipCache)
    \/ CacheHit \/ CacheMiss \/ Discover
    \/ \E n \in Names : ExtractFile(n) \/ ExtractFails(n)
    \/ EmbedAndHash \/ SaveCache \/ AbandonVector

VectorNext == VectorStep \/ (ContentStep /\ UNCHANGED vectorVars)

VectorSpec == ContentInit /\ VectorInit /\ [][VectorNext]_<<contentVars, vectorVars>>

-----------------------------------------------------------------------------
(* Properties.                                                             *)

VectorTypeOK ==
    /\ \A c \in cache : c \in Cached
    /\ vjob \in VectorJob
    /\ builds \in 0..MaxBuilds

DocsIn(listing) == {DocOf(Base, n, listing) : n \in {k \in Names : listing[k] # 0}}

(* A cache whose content did not change from the discovery of the files    *)
(* until it was hashed (no edit brings a version back) holds exactly the   *)
(* documents its hash is of, whichever builds were cut short before        *)
(* (builder.rs:177-253).                                                   *)
CacheIsWhole ==
    \A c \in cache :
       c.listed = c.hash /\ ~c.errors => c.docs = DocsIn(c.hash)

(* "When the content hash matches, the existing index is still valid and   *)
(* doesn't need rebuilding." (persistence.rs:4).  The hash is computed     *)
(* after the files were read, so an edit in between is never noticed.      *)
MatchingCacheIsValid ==
    \A c \in cache :
       c.hash = HashOf(Base) /\ ~c.errors => c.docs = DocsIn(content[Base])
=============================================================================
