------------------------------ MODULE GraphBuild ------------------------------
(***************************************************************************)
(* How the graph is built (fabryk-graph: builder.rs): the cache is loaded  *)
(* if its hash is that of the content; otherwise every file becomes a node,*)
(* then the files' links and the manual edges become edges, and the graph  *)
(* is cached under a hash taken at the end.  One builder.                  *)
(***************************************************************************)
EXTENDS ContentDir

CONSTANTS
    NodeOf,         \* the node id in each version of a file, called by the
                    \* name of a file that has it; two may have one id
    Links,          \* the ids that each version of a file links to
    ManualEdges,    \* what the file of manual edges may hold
    StopOnError,    \* error_handling = ErrorHandling::FailFast
    MaxGraphBuilds  \* bound on the number of builds

ASSUME GraphBuildAssumption ==
    /\ NodeOf \in [Names -> [1..MaxClock -> Names]]
    /\ Links \in [Names -> [1..MaxClock -> SUBSET Names]]
    /\ ManualEdges \subseteq SUBSET (Names \X Names)
    /\ StopOnError \in BOOLEAN /\ MaxGraphBuilds \in Nat

VARIABLES
    graphCache,     \* the cache file, {} if missing or unreadable
    gjob,           \* the builder
    manual,         \* the manual edges on disk
    gbuilds         \* number of builds so far

graphBuildVars == <<graphCache, gjob, manual, gbuilds>>

(* `listed`, `errors` and `added` are history: the content when the files  *)
(* were discovered, whether one could not be read, and the manual edges.   *)
Pairs == Names \X Names
CachedGraph == [hash: Listing, ids: SUBSET Names, links: SUBSET Pairs,
                listed: Listing, errors: BOOLEAN, added: SUBSET Pairs]
NoFiles == [n \in Names |-> 0]
NoGraph == [hash |-> NoFiles, ids |-> {}, links |-> {}, listed |-> NoFiles,
            errors |-> FALSE, added |-> {}]
IdleGraph == [pc |-> "idle", graph |-> NoGraph, todo |-> {}]
GraphJob == [pc: {"idle", "check", "discover", "read", "hash", "save"},
             graph: CachedGraph, todo: SUBSET Names]

GraphBuildInit ==
    graphCache = {} /\ gjob = IdleGraph /\ manual \in ManualEdges /\ gbuilds = 0

StartGraph(skipCache) ==
    /\ gjob.pc = "idle" /\ gbuilds < MaxGraphBuilds
    /\ gbuilds' = gbuilds + 1
    /\ gjob' = IF skipCache THEN [IdleGraph EXCEPT !.pc = "discover"]
               ELSE [IdleGraph EXCEPT !.pc = "check", !.graph.hash = HashOf(Base)]
    /\ UNCHANGED <<graphCache, manual, contentVars>>

GraphHit ==
    /\ gjob.pc = "check"
    /\ \E g \in graphCache : g.hash = gjob.graph.hash
    /\ gjob' = IdleGraph
    /\ UNCHANGED <<graphCache, manual, gbuilds, contentVars>>

GraphMiss ==
    /\ gjob.pc = "check"
    /\ \A g \in graphCache : g.hash # gjob.graph.hash
    /\ gjob' = [IdleGraph EXCEPT !.pc = "discover"]
    /\ UNCHANGED <<graphCache, manual, gbuilds, contentVars>>

DiscoverFiles ==
    /\ gjob.pc = "discover"
    /\ gjob' = [gjob EXCEPT !.todo = Present(Base), !.graph.listed = content[Base],
                            !.pc = "read"]
    /\ UNCHANGED <<graphCache, manual, gbuilds, contentVars>>

(* Phase 1: a node, unless its id is taken; its links are kept for later   *)
(* under that id in either case.                                           *)
LinksOf(n, version) == {<<NodeOf[n][version], m>> : m \in Links[n][version]}
Reading(n) == gjob.pc = "read" /\ n \in gjob.todo
MutReadNode(n) ==
    /\ Reading(n) /\ n \in Present(Base)
    /\ LET ids == gjob.graph.ids \cup {NodeOf[n][content[Base][n]]}
       IN  gjob' = [gjob EXCEPT !.todo = @ \ {n}, !.graph.ids = ids,
             !.graph.links = @ \cup {p \in LinksOf(n, content[Base][n]) : p[2] \in ids}]
    /\ UNCHANGED <<graphCache, manual, gbuilds, contentVars>>
ReadNode(n) ==
    /\ Reading(n) /\ n \in Present(Base)
    /\ gjob' = [gjob EXCEPT !.todo = @ \ {n},
                            !.graph.ids = @ \cup {NodeOf[n][content[Base][n]]},
                            !.graph.links = @ \cup LinksOf(n, content[Base][n])]
    /\ UNCHANGED <<graphCache, manual, gbuilds, contentVars>>

(* The file is gone, or cannot be parsed.                                  *)
ReadNodeFails(n) ==
    /\ Reading(n)
    /\ gjob' = IF StopOnError THEN IdleGraph
               ELSE [gjob EXCEPT !.todo = @ \ {n}, !.graph.errors = TRUE]
    /\ UNCHANGED <<graphCache, manual, gbuilds, contentVars>>

(* Phases 2 and 3: links and manual edges without both nodes are dropped,  *)
(* and equal ones added once.                                              *)
Within(ids, pairs) == {p \in pairs : p[1] \in ids /\ p[2] \in ids}
AddLinks ==
    /\ gjob.pc = "read" /\ gjob.todo = {}
    /\ gjob' = [gjob EXCEPT !.pc = "hash",
         !.graph.links = Within(gjob.graph.ids, @ \cup manual), !.graph.added = manual]
    /\ UNCHANGED <<graphCache, manual, gbuilds, contentVars>>

HashGraph ==
    /\ gjob.pc = "hash"
    /\ gjob' = [gjob EXCEPT !.graph.hash = HashOf(Base), !.pc = "save"]
    /\ UNCHANGED <<graphCache, manual, gbuilds, contentVars>>

(* A failure to save is only logged; it may leave the file unreadable.     *)
SaveGraphCache ==
    /\ gjob.pc = "save"
    /\ graphCache' \in {{gjob.graph}, {}, graphCache}
    /\ gjob' = IdleGraph
    /\ UNCHANGED <<manual, gbuilds, contentVars>>

(* The process dies, or the manual edges cannot be parsed.                 *)
AbandonGraph ==
    /\ gjob.pc # "idle"
    /\ gjob' = IdleGraph
    /\ graphCache' \in IF gjob.pc = "save" THEN {graphCache, {}} ELSE {graphCache}
    /\ UNCHANGED <<manual, gbuilds, contentVars>>

(* The clock bounds this edit together with those of the content.          *)
EditManualEdges(pairs) ==
    /\ pairs # manual /\ clock < MaxClock
    /\ manual' = pairs /\ clock' = clock + 1
    /\ UNCHANGED <<graphCache, gjob, gbuilds, content>>

GraphBuildStep ==
    \/ \E skipCache \in BOOLEAN : StartGraph(skipCache)
    \/ GraphHit \/ GraphMiss \/ DiscoverFiles
    \/ \E n \in Names : ReadNode(n) \/ ReadNodeFails(n)
    \/ AddLinks \/ HashGraph \/ SaveGraphCache \/ AbandonGraph
    \/ \E pairs \in ManualEdges : EditManualEdges(pairs)

GraphBuildNext == GraphBuildStep \/ (ContentStep /\ UNCHANGED graphBuildVars)
GraphBuildSpec ==
    ContentInit /\ GraphBuildInit /\ [][GraphBuildNext]_<<contentVars, graphBuildVars>>
-----------------------------------------------------------------------------
GraphBuildTypeOK ==
    /\ \A g \in graphCache : g \in CachedGraph
    /\ gjob \in GraphJob
    /\ manual \in ManualEdges
    /\ gbuilds \in 0..MaxGraphBuilds

(* A graph whose files did not change from their discovery until the hash  *)
(* was taken is cached whole: the nodes of all its files, and every link   *)
(* between them, in whichever order they were read and whichever of them   *)
(* share an id, with the manual edges of then.  Those are not in the hash: *)
(* nothing tells when they change (builder.rs:155).                        *)
GraphCacheIsWhole ==
    \A g \in graphCache : g.listed = g.hash /\ ~g.errors =>
        LET files == {n \in Names : g.hash[n] # 0}
        IN  /\ g.ids = {NodeOf[n][g.hash[n]] : n \in files}
            /\ g.links = Within(g.ids,
                  g.added \cup UNION {LinksOf(n, g.hash[n]) : n \in files})
=============================================================================
