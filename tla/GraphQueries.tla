------------------------------ MODULE GraphQueries ------------------------------
(***************************************************************************)
(* What is asked of the graph (fabryk-graph: algorithms.rs, validation.rs, *)
(* stats.rs), each answered under one read lock: some queries walk         *)
(* petgraph's positions, some read the list of edges.                      *)
(***************************************************************************)
EXTENDS GraphData

CONSTANTS
    MaxDepth,       \* MAX_BFS_DEPTH
    Filters         \* the relationships that a neighbourhood is asked along

ASSUME QueryAssumption == MaxDepth \in Nat /\ Filters \subseteq SUBSET Relationships

Outgoing(i, relationships) ==
    {arc.b : arc \in {x \in arcs : x.a = i /\ x.edge.relationship \in relationships}}
Incoming(i, relationships) ==
    {arc.a : arc \in {x \in arcs : x.b = i /\ x.edge.relationship \in relationships}}

(* A breadth-first search over positions: found has those met so far with  *)
(* their distances, and nothing beyond the limit is explored.  A position  *)
(* enters the queue once, the first one perhaps twice.                     *)
Positions(found) == {f[1] : f \in found}
SomeOrder(S) == CHOOSE order \in [1..Cardinality(S) -> S] : \A x \in S : \E k \in DOMAIN order : order[k] = x
MutPop(search, limit, neighbors) ==
    LET i == Head(search.queue)[1]
        d == Head(search.queue)[2]
        met == IF d > limit THEN {} ELSE neighbors[i] \ Positions(search.found)
        order == SomeOrder(met)
    IN  [queue |-> Tail(search.queue) \o [k \in DOMAIN order |-> <<order[k], d + 1>>],
         found |-> search.found \cup {<<x, d + 1>> : x \in met}]
Pop(search, limit, neighbors) ==
    LET i == Head(search.queue)[1]
        d == Head(search.queue)[2]
        met == IF d >= limit THEN {} ELSE neighbors[i] \ Positions(search.found)
        order == SomeOrder(met)
    IN  [queue |-> Tail(search.queue) \o [k \in DOMAIN order |-> <<order[k], d + 1>>],
         found |-> search.found \cup {<<x, d + 1>> : x \in met}]
Search(start, found, limit, neighbors) ==
    LET after[n \in 0..(Len(slots) + 1)] ==
          IF n = 0 THEN [queue |-> <<<<start, 0>>>>, found |-> found]
          ELSE IF after[n - 1].queue = <<>> THEN after[n - 1]
          ELSE Pop(after[n - 1], limit, neighbors)
    IN  after[Len(slots) + 1].found

IdsOf(found) == {slots[i] : i \in Positions(found)}
Capped(radius) == IF radius < MaxDepth THEN radius ELSE MaxDepth
Between == 1..Len(slots)

(* neighborhood: the ids within the radius, along edges of either          *)
(* direction, and their distances.                                         *)
Neighborhood(center, radius, relationships) ==
    LET start == node_indices[center]
        found == Search(start, {<<start, 0>>}, Capped(radius),
                   [i \in Between |-> Outgoing(i, relationships) \cup Incoming(i, relationships)])
    IN  {<<slots[f[1]], f[2]>> : f \in found}

(* prerequisites_sorted: what is found against the edges, the target too   *)
(* if they lead back to it ...                                             *)
MutPrerequisites(target) ==
    LET found == Search(node_indices[target], {}, 1,
                   [i \in Between |-> Incoming(i, {"prerequisite"})])
    IN  IdsOf(found)
Prerequisites(target) ==
    LET found == Search(node_indices[target], {}, Len(slots) + 1,
                   [i \in Between |-> Incoming(i, {"prerequisite"})])
    IN  IdsOf(found)

(* ... in an order of petgraph's toposort, which sorts all positions along *)
(* all edges, or else in any order; learning_path puts the target last.    *)
Linear(S) == {order \in [1..Cardinality(S) -> S] : \A x \in S : \E k \in DOMAIN order : order[k] = x}
Toposorts ==
    {order \in Linear(Between) :
        \A j, k \in DOMAIN order :
            (\E arc \in arcs : arc.a = order[j] /\ arc.b = order[k]) => j < k}
HasCycles(target) == Prerequisites(target) # {} /\ Toposorts = {}
Follows(path, order) ==
    \A j, k \in DOMAIN order, l, m \in DOMAIN path :
        j < k /\ slots[order[j]] = path[l] /\ slots[order[k]] = path[m] => l < m
LearningPaths(target) ==
    LET found == Prerequisites(target)
        sorts == Toposorts
        steps == IF found = {} \/ sorts = {} THEN Linear(found)
                 ELSE {path \in Linear(found) : \E order \in sorts : Follows(path, order)}
    IN  {Append(path, target) : path \in steps}

(* dependents: against the edges as well.                                  *)
Dependents(id, depth) ==
    LET start == node_indices[id]
    IN  IdsOf(Search(start, {<<start, 0>>}, Capped(depth),
                [i \in Between |-> Incoming(i, {"prerequisite"})])) \ {id}

(* get_related, over petgraph.                                             *)
RelatedFrom(id, relationships) == {slots[i] : i \in Outgoing(node_indices[id], relationships)}
RelatedTo(id, relationships) == {slots[i] : i \in Incoming(node_indices[id], relationships)}

(* concept_sources, concept_variants and source_coverage, over the list.   *)
ConceptSources(id) ==
    {n \in nodes : \E e \in edges : /\ e.to = id /\ e.from = n
                                    /\ e.relationship \in {"introduces", "covers"}}
ConceptVariants(id) ==
    {n \in nodes : \E e \in edges : e.to = id /\ e.from = n /\ e.relationship = "variant_of"}
SourceCoverage(id) ==
    {n \in nodes : \E e \in edges : /\ e.from = id /\ e.to = n
                                    /\ e.relationship \in {"introduces", "covers"}}

(* check_orphans, over petgraph, and the count of compute_stats.           *)
Orphans ==
    {n \in nodes : Outgoing(node_indices[n], Relationships)
                     \cup Incoming(node_indices[n], Relationships) = {}}
OrphanCount == Cardinality({n \in nodes : \A e \in edges : e.from # n /\ e.to # n})

(* check_prerequisite_cycles: the graph of the prerequisite edges alone    *)
(* cannot be sorted.                                                       *)
PrerequisiteEdge(m, n) ==
    \E e \in edges : e.from = m /\ e.to = n /\ e.relationship = "prerequisite"
PrerequisiteCycle ==
    ~\E order \in Linear(nodes) :
        \A j, k \in DOMAIN order : PrerequisiteEdge(order[j], order[k]) => j < k
-----------------------------------------------------------------------------
(* Properties: answers are compared with the list of edges.                *)

Adjacent(m, n, relationships) ==
    \E e \in edges : e.relationship \in relationships /\ {e.from, e.to} = {m, n}

(* The ids that a walk of at most d edges leads to.                        *)
Ball(center, d, relationships) ==
    LET ball[k \in 0..d] ==
          IF k = 0 THEN {center}
          ELSE {n \in nodes : \E m \in ball[k - 1] : n = m \/ Adjacent(m, n, relationships)}
    IN  ball[d]

(* A neighbourhood has the nodes within the radius and no others, each at  *)
(* its distance, whichever way the edges between them point                *)
(* (algorithms.rs:124-200).                                                *)
NeighborhoodIsRight ==
    \A center \in nodes, radius \in 0..(MaxDepth + 1), relationships \in Filters :
        Neighborhood(center, radius, relationships) =
            {p \in nodes \X (0..Capped(radius)) :
                /\ p[1] \in Ball(center, p[2], relationships)
                /\ p[2] > 0 => p[1] \notin Ball(center, p[2] - 1, relationships)}

(* A learning path without has_cycles can be followed: whatever a step, or *)
(* the target, has as a prerequisite is an earlier step, and no step comes *)
(* twice.                                                                  *)
PathCanBeFollowed ==
    \A target \in nodes : ~HasCycles(target) =>
        /\ LearningPaths(target) # {}
        /\ \A path \in LearningPaths(target) :
              \A k \in DOMAIN path, m \in nodes : PrerequisiteEdge(m, path[k]) =>
                  \E j \in 1..(k - 1) : path[j] = m
        /\ \A path \in LearningPaths(target), j, k \in 1..(Cardinality(Prerequisites(target)) + 1) :
              path[j] = path[k] => j = k

(* What is answered from the list of edges is what petgraph would answer,  *)
(* and a circle of prerequisites is one for the learning paths too.        *)
ListAnswersAgree ==
    /\ Cardinality(Orphans) = OrphanCount
    /\ \A id \in nodes :
          /\ ConceptSources(id) = RelatedTo(id, {"introduces", "covers"})
          /\ ConceptVariants(id) = RelatedTo(id, {"variant_of"})
          /\ SourceCoverage(id) = RelatedFrom(id, {"introduces", "covers"})
          /\ PrerequisiteCycle /\ Prerequisites(id) # {} => HasCycles(id)

(* The answers that search the graph and those read off its edges are      *)
(* those of the graph.                                                     *)
AnswersAreRight == NeighborhoodIsRight /\ ListAnswersAgree

(* "This is the reverse of `prerequisites_sorted`" (algorithms.rs): both   *)
(* go against the edges.                                                   *)
DependentsAreReverse ==
    \A m, n \in nodes :
        m # n => (m \in Dependents(n, MaxDepth) <=> n \in Prerequisites(m))
=============================================================================
