------------------------------- MODULE GraphData -------------------------------
(***************************************************************************)
(* The knowledge graph of a Fabryk server (fabryk-graph: types.rs and      *)
(* persistence.rs).  GraphData keeps the graph four times over: petgraph's *)
(* nodes and edges, known by their positions, the position of each id, the *)
(* nodes by id and the list of edges.  Its owner changes it under a lock,  *)
(* so each operation is one step; saving may be cut off.                   *)
(***************************************************************************)
EXTENDS Naturals, Sequences, FiniteSets

CONSTANTS
    Ids,            \* node ids
    Relationships,
    Copies,         \* bound on edges with the same ends and relationship
    SavedGraphs,    \* what the file may hold when the server starts
    MaxEdges,       \* bound on the edges of the graph
    MaxChanges      \* bound on the changes

Edge == [from: Ids, to: Ids, relationship: Relationships, copy: 1..Copies]
SavedGraph == [whole: BOOLEAN, nodes: SUBSET Ids, edges: SUBSET Edge]

ASSUME GraphAssumption ==
    /\ IsFiniteSet(Ids)
    /\ Copies \in Nat /\ MaxEdges \in Nat /\ MaxChanges \in Nat
    /\ SavedGraphs \subseteq SavedGraph

VARIABLES
    nodes,          \* the keys of GraphData::nodes
    edges,          \* GraphData::edges; equal ones have different numbers
    slots,          \* petgraph: the node at each position
    arcs,           \* petgraph: its edges, between positions
    node_indices,   \* the position of an id, 0 for an id without
    file,           \* the saved graph
    changes         \* number of changes so far

graphVars == <<nodes, edges, slots, arcs, node_indices, file, changes>>

Torn == [whole |-> FALSE, nodes |-> {}, edges |-> {}]

Arc(e, indices) == [a |-> indices[e.from], b |-> indices[e.to], edge |-> e]

(* The numbers of equal edges are 1, 2 and so on.                          *)
Numbered(E) ==
    \A e \in E : e.copy > 1 => [e EXCEPT !.copy = @ - 1] \in E

(* The graph is empty, and may be loaded from what a build has left or     *)
(* somebody has edited since: edges may lack their nodes.  No id is in the *)
(* file twice: save_graph writes the values of a map by id.                *)
GraphInit ==
    /\ nodes = {} /\ edges = {} /\ slots = <<>> /\ arcs = {}
    /\ node_indices = [n \in Ids |-> 0]
    /\ file \in SavedGraphs
    /\ changes = 0

Change ==
    /\ changes < MaxChanges
    /\ changes' = changes + 1

(* An id that is there already is left alone.                              *)
AddNode(n) ==
    /\ Change
    /\ node_indices[n] = 0
    /\ slots' = Append(slots, n)
    /\ node_indices' = [node_indices EXCEPT ![n] = Len(slots) + 1]
    /\ nodes' = nodes \cup {n}
    /\ UNCHANGED <<edges, arcs, file>>

(* An edge without one of its nodes is an error.                           *)
AddEdge(e) ==
    /\ Change
    /\ Cardinality(edges) < MaxEdges /\ e \notin edges /\ Numbered(edges \cup {e})
    /\ node_indices[e.from] # 0 /\ node_indices[e.to] # 0
    /\ arcs' = arcs \cup {Arc(e, node_indices)}
    /\ edges' = edges \cup {e}
    /\ UNCHANGED <<nodes, slots, node_indices, file>>

(* petgraph's remove_node: the edges at the position go, and the last node *)
(* moves to it with its edges.                                             *)
SlotsWithout(k) ==
    [i \in 1..(Len(slots) - 1) |-> IF i = k THEN slots[Len(slots)] ELSE slots[i]]
Moved(k, i) == IF i = Len(slots) THEN k ELSE i
ArcsWithout(k) ==
    {[a |-> Moved(k, arc.a), b |-> Moved(k, arc.b), edge |-> arc.edge] :
        arc \in {x \in arcs : x.a # k /\ x.b # k}}

(* node_indices is made anew, as positions have changed.                   *)
IndicesOf(order) ==
    [n \in Ids |-> IF \E i \in 1..Len(order) : order[i] = n
                   THEN CHOOSE i \in 1..Len(order) : order[i] = n ELSE 0]

MutRemoveNode(n) ==
    /\ Change
    /\ node_indices[n] # 0
    /\ slots' = SlotsWithout(node_indices[n])
    /\ arcs' = ArcsWithout(node_indices[n])
    /\ nodes' = nodes \ {n}
    /\ edges' = {e \in edges : e.from # n /\ e.to # n}
    /\ node_indices' = [node_indices EXCEPT ![n] = 0]
    /\ UNCHANGED file
RemoveNode(n) ==
    /\ Change
    /\ node_indices[n] # 0
    /\ slots' = SlotsWithout(node_indices[n])
    /\ arcs' = ArcsWithout(node_indices[n])
    /\ nodes' = nodes \ {n}
    /\ edges' = {e \in edges : e.from # n /\ e.to # n}
    /\ node_indices' = IndicesOf(SlotsWithout(node_indices[n]))
    /\ UNCHANGED file

(* The nodes are written in no particular order.                           *)
SaveGraph ==
    /\ file' = [whole |-> TRUE, nodes |-> nodes, edges |-> edges]
    /\ UNCHANGED <<nodes, edges, slots, arcs, node_indices, changes>>

(* The write fails, or the process dies meanwhile and the next one starts  *)
(* with an empty graph: the file is overwritten in place.                  *)
SaveFails ==
    /\ file' = Torn
    /\ \/ UNCHANGED <<nodes, edges, slots, arcs, node_indices, changes>>
       \/ /\ nodes' = {} /\ edges' = {} /\ slots' = <<>> /\ arcs' = {}
          /\ node_indices' = [n \in Ids |-> 0] /\ UNCHANGED changes

Orders(S) ==
    {order \in [1..Cardinality(S) -> S] : \A n \in S : \E i \in DOMAIN order : order[i] = n}

(* load_graph, update_graph: positions are given in the file's order, and  *)
(* edges without their nodes are skipped.  A torn file is an error.        *)
LoadGraph(order) ==
    /\ file.whole /\ order \in Orders(file.nodes)
    /\ nodes' = file.nodes
    /\ slots' = order
    /\ node_indices' = IndicesOf(order)
    /\ edges' = {e \in file.edges : e.from \in file.nodes /\ e.to \in file.nodes}
    /\ arcs' = {Arc(e, IndicesOf(order)) : e \in edges'}
    /\ UNCHANGED <<file, changes>>

GraphStep ==
    \/ \E n \in Ids : AddNode(n) \/ RemoveNode(n)
    \/ \E e \in Edge : AddEdge(e)
    \/ SaveGraph \/ SaveFails
    \/ \E order \in Orders(file.nodes) : LoadGraph(order)
GraphSpec == GraphInit /\ [][GraphStep]_graphVars
-----------------------------------------------------------------------------
GraphTypeOK ==
    /\ nodes \subseteq Ids /\ edges \subseteq Edge
    /\ slots \in Seq(Ids)
    /\ arcs \subseteq [a: Nat, b: Nat, edge: Edge]
    /\ node_indices \in [Ids -> Nat]
    /\ file \in SavedGraph
    /\ changes \in 0..MaxChanges

(* Every node is at the position that its id is looked up at, and only     *)
(* nodes are.                                                              *)
PositionsAgree ==
    /\ \A i \in 1..Len(slots) : node_indices[slots[i]] = i
    /\ \A n \in Ids :
          IF n \in nodes
          THEN node_indices[n] \in 1..Len(slots) /\ slots[node_indices[n]] = n
          ELSE node_indices[n] = 0

(* The four views are of one graph, whichever nodes petgraph has moved to  *)
(* the positions of removed ones: what is found by position and what is    *)
(* found by id is the same (types.rs:495-514).                             *)
ViewsAgree ==
    /\ PositionsAgree
    /\ \A e \in edges : e.from \in nodes /\ e.to \in nodes
    /\ arcs = {Arc(e, node_indices) : e \in edges}
=============================================================================
