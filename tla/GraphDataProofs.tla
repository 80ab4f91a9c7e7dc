---------------------------- MODULE GraphDataProofs ----------------------------
(***************************************************************************)
(* The four views of the graph agree, for any ids, relationships, saved    *)
(* files and bounds (fabryk-graph: types.rs and persistence.rs).  From     *)
(* this, and an induction over the steps of the search: neighbourhoods     *)
(* have the right nodes and distances, learning paths can be followed, and *)
(* the list of edges answers as petgraph does (algorithms.rs).             *)
(***************************************************************************)
EXTENDS GraphQueries, Iteration, FiniteSetTheorems, TLAPS

GraphInv == GraphTypeOK /\ ViewsAgree

LEMMA SlotsTyped ==
    ASSUME GraphTypeOK
    PROVE  Len(slots) \in Nat /\ DOMAIN slots = 1..Len(slots)
           /\ \A i \in 1..Len(slots) : slots[i] \in Ids
BY DEF GraphTypeOK

LEMMA EdgeTyped == ASSUME NEW e \in Edge PROVE e.from \in Ids /\ e.to \in Ids
BY DEF Edge

(* An edge between typed positions is a typed arc.                         *)
LEMMA ArcTyped ==
    ASSUME NEW e \in Edge, NEW indices \in [Ids -> Nat]
    PROVE  Arc(e, indices) \in [a: Nat, b: Nat, edge: Edge]
BY EdgeTyped DEF Arc

LEMMA GraphInitOK == ASSUME GraphInit PROVE GraphInv
<1>1. GraphTypeOK
  BY GraphAssumption DEF GraphInit, GraphTypeOK
<1>2. ViewsAgree
  BY DEF GraphInit, ViewsAgree, PositionsAgree
<1> QED BY <1>1, <1>2 DEF GraphInv

LEMMA ChangeTyped == ASSUME GraphTypeOK, Change PROVE changes' \in 0..MaxChanges
BY GraphAssumption DEF GraphTypeOK, Change

LEMMA AddNodeOK ==
    ASSUME GraphInv, NEW n \in Ids, AddNode(n) PROVE GraphInv'
<1> DEFINE k == Len(slots) + 1
<1>1. /\ node_indices[n] = 0 /\ slots' = Append(slots, n)
      /\ node_indices' = [node_indices EXCEPT ![n] = k]
      /\ nodes' = nodes \cup {n} /\ edges' = edges /\ arcs' = arcs /\ file' = file
  BY DEF AddNode
<1>2. GraphTypeOK /\ ViewsAgree /\ PositionsAgree
  BY DEF GraphInv, ViewsAgree
<1>3. k \in Nat /\ k # 0 /\ Len(slots) \in Nat
  BY <1>2, SlotsTyped
<1>4. n \notin nodes
  BY <1>1, <1>2 DEF PositionsAgree
<1>5. /\ node_indices' \in [Ids -> Nat] /\ node_indices'[n] = k
      /\ \A m \in Ids : m # n => node_indices'[m] = node_indices[m]
  BY <1>1, <1>2, <1>3 DEF GraphTypeOK
<1>6. slots' \in Seq(Ids) /\ Len(slots') = k /\ slots'[k] = n
      /\ \A i \in 1..Len(slots) : slots'[i] = slots[i]
  BY <1>1, <1>2 DEF GraphTypeOK
<1>7. GraphTypeOK'
  BY <1>1, <1>2, <1>5, <1>6, ChangeTyped DEF GraphTypeOK, AddNode
<1>8. ASSUME NEW i \in 1..Len(slots') PROVE node_indices'[slots'[i]] = i
  <2>1. CASE i = k
    BY <1>5, <1>6, <2>1
  <2>2. CASE i # k
    <3>1. i \in 1..Len(slots)
      BY <1>3, <1>6, <2>2
    <3>2. slots[i] \in Ids /\ node_indices[slots[i]] = i /\ slots'[i] = slots[i]
      BY <1>2, <1>6, <3>1, SlotsTyped DEF PositionsAgree
    <3>3. slots[i] # n
      BY <1>1, <3>1, <3>2
    <3> QED BY <1>5, <3>2, <3>3
  <2> QED BY <2>1, <2>2
<1>9. ASSUME NEW m \in Ids
      PROVE  IF m \in nodes'
             THEN node_indices'[m] \in 1..Len(slots') /\ slots'[node_indices'[m]] = m
             ELSE node_indices'[m] = 0
  <2>1. CASE m = n
    BY <1>1, <1>3, <1>5, <1>6, <2>1
  <2>2. CASE m # n
    BY <1>1, <1>2, <1>3, <1>5, <1>6, <2>2 DEF PositionsAgree
  <2> QED BY <2>1, <2>2
<1>10. PositionsAgree'
  BY <1>8, <1>9 DEF PositionsAgree
<1>11. \A e \in edges : e.from \in nodes /\ e.to \in nodes /\ e \in Edge
  BY <1>2 DEF ViewsAgree, GraphTypeOK
<1>12. \A e \in edges : Arc(e, node_indices') = Arc(e, node_indices)
  BY <1>4, <1>5, <1>11, EdgeTyped DEF Arc
<1>13. {Arc(e, node_indices') : e \in edges} = {Arc(e, node_indices) : e \in edges}
  BY <1>12
<1> QED BY <1>1, <1>2, <1>7, <1>10, <1>11, <1>13 DEF GraphInv, ViewsAgree

LEMMA AddEdgeOK ==
    ASSUME GraphInv, NEW e \in Edge, AddEdge(e) PROVE GraphInv'
<1>1. /\ node_indices[e.from] # 0 /\ node_indices[e.to] # 0
      /\ arcs' = arcs \cup {Arc(e, node_indices)} /\ edges' = edges \cup {e}
      /\ nodes' = nodes /\ slots' = slots /\ node_indices' = node_indices /\ file' = file
  BY DEF AddEdge
<1>2. GraphTypeOK /\ ViewsAgree /\ PositionsAgree
  BY DEF GraphInv, ViewsAgree
<1>3. e.from \in nodes /\ e.to \in nodes
  BY <1>1, <1>2, EdgeTyped DEF PositionsAgree
<1>4. Arc(e, node_indices) \in [a: Nat, b: Nat, edge: Edge]
  BY <1>2, ArcTyped DEF GraphTypeOK
<1>5. GraphTypeOK'
  BY <1>1, <1>2, <1>4, ChangeTyped DEF GraphTypeOK, AddEdge
<1>6. PositionsAgree'
  BY <1>1, <1>2 DEF PositionsAgree
<1>7. arcs' = {Arc(f, node_indices) : f \in edges \cup {e}}
  BY <1>1, <1>2 DEF ViewsAgree
<1> QED BY <1>1, <1>2, <1>3, <1>5, <1>6, <1>7 DEF GraphInv, ViewsAgree

(* The positions of an order without repetitions are those it says.        *)
LEMMA IndicesRight ==
    ASSUME NEW order \in Seq(Ids),
           \A i, j \in 1..Len(order) : order[i] = order[j] => i = j
    PROVE  /\ IndicesOf(order) \in [Ids -> Nat]
           /\ \A i \in 1..Len(order) : IndicesOf(order)[order[i]] = i
           /\ \A n \in Ids : (~\E i \in 1..Len(order) : order[i] = n)
                                => IndicesOf(order)[n] = 0
<1>1. Len(order) \in Nat /\ \A i \in 1..Len(order) : order[i] \in Ids
  OBVIOUS
<1>2. ASSUME NEW n \in Ids, NEW i \in 1..Len(order), order[i] = n
      PROVE  IndicesOf(order)[n] = i
  <2>1. (CHOOSE j \in 1..Len(order) : order[j] = n) = i
    BY <1>2
  <2> QED BY <1>2, <2>1 DEF IndicesOf
<1>3. \A n \in Ids : (~\E i \in 1..Len(order) : order[i] = n) => IndicesOf(order)[n] = 0
  BY DEF IndicesOf
<1>4. ASSUME NEW n \in Ids PROVE IndicesOf(order)[n] \in Nat
  <2>1. CASE \E i \in 1..Len(order) : order[i] = n
    <3>1. PICK i \in 1..Len(order) : order[i] = n
      BY <2>1
    <3>2. IndicesOf(order)[n] = i
      BY <1>2, <3>1
    <3> QED BY <1>1, <3>2
  <2>2. CASE ~\E i \in 1..Len(order) : order[i] = n
    BY <1>3, <2>2
  <2> QED BY <2>1, <2>2
<1>5. IndicesOf(order) \in [Ids -> Nat]
  BY <1>4 DEF IndicesOf
<1> QED BY <1>1, <1>2, <1>3, <1>5

(* Positions made anew agree with the nodes that the order has.            *)
LEMMA PositionsAnew ==
    ASSUME NEW order \in Seq(Ids), NEW N \in SUBSET Ids,
           \A i, j \in 1..Len(order) : order[i] = order[j] => i = j,
           \A i \in 1..Len(order) : order[i] \in N,
           \A n \in N : \E i \in 1..Len(order) : order[i] = n,
           slots' = order, node_indices' = IndicesOf(order), nodes' = N
    PROVE  PositionsAgree' /\ node_indices' \in [Ids -> Nat]
<1>1. /\ IndicesOf(order) \in [Ids -> Nat]
      /\ \A i \in 1..Len(order) : IndicesOf(order)[order[i]] = i
      /\ \A n \in Ids : (~\E i \in 1..Len(order) : order[i] = n) => IndicesOf(order)[n] = 0
  BY IndicesRight
<1>2. ASSUME NEW n \in Ids
      PROVE  IF n \in N
             THEN IndicesOf(order)[n] \in 1..Len(order) /\ order[IndicesOf(order)[n]] = n
             ELSE IndicesOf(order)[n] = 0
  <2>1. CASE n \in N
    <3>1. PICK i \in 1..Len(order) : order[i] = n
      BY <2>1
    <3> QED BY <1>1, <2>1, <3>1
  <2>2. CASE n \notin N
    BY <1>1, <2>2
  <2> QED BY <2>1, <2>2
<1> QED BY <1>1, <1>2 DEF PositionsAgree

LEMMA RemoveNodeOK ==
    ASSUME GraphInv, NEW n \in Ids, RemoveNode(n) PROVE GraphInv'
<1> DEFINE k == node_indices[n]
           last == Len(slots)
           order == SlotsWithout(k)
<1>1. /\ k # 0 /\ slots' = order /\ arcs' = ArcsWithout(k) /\ nodes' = nodes \ {n}
      /\ edges' = {e \in edges : e.from # n /\ e.to # n}
      /\ node_indices' = IndicesOf(order) /\ file' = file
  BY DEF RemoveNode
<1>2. GraphTypeOK /\ ViewsAgree /\ PositionsAgree
  BY DEF GraphInv, ViewsAgree
<1>3. /\ k \in 1..last /\ slots[k] = n /\ n \in nodes
      /\ last \in Nat /\ \A i \in 1..last : slots[i] \in Ids
  BY <1>1, <1>2, SlotsTyped DEF PositionsAgree
<1>4. \A i \in 1..last : node_indices[slots[i]] = i
  BY <1>2 DEF PositionsAgree
<1>5. \A i, j \in 1..last : slots[i] = slots[j] => i = j
  BY <1>4
<1>6. order \in Seq(Ids) /\ Len(order) = last - 1
  <2>1. last - 1 \in Nat
    BY <1>3
  <2>2. order \in [1..(last - 1) -> Ids]
    BY <1>3 DEF SlotsWithout
  <2> QED BY <2>1, <2>2
<1>7. \A i \in 1..(last - 1) : order[i] = IF i = k THEN slots[last] ELSE slots[i]
  BY <1>3 DEF SlotsWithout
<1>8. \A i, j \in 1..(last - 1) : order[i] = order[j] => i = j
  <2> TAKE i, j \in 1..(last - 1)
  <2>1. i \in 1..last /\ j \in 1..last /\ last \in 1..last /\ i # last /\ j # last
    BY <1>3
  <2> QED BY <1>5, <1>7, <2>1
<1>9. \A i \in 1..(last - 1) : order[i] \in nodes \ {n}
  <2> TAKE i \in 1..(last - 1)
  <2>1. i \in 1..last /\ last \in 1..last /\ i # last
    BY <1>3
  <2>2. PICK j \in 1..last : order[i] = slots[j] /\ j # k
    BY <1>7, <2>1
  <2>3. slots[j] # n
    BY <1>3, <1>5, <2>2
  <2>4. slots[j] \in Ids /\ node_indices[slots[j]] = j /\ j # 0
    BY <1>3, <1>4, <2>2
  <2>5. slots[j] \in nodes
    BY <1>2, <2>4 DEF PositionsAgree
  <2> QED BY <2>2, <2>3, <2>5
<1>10. ASSUME NEW m \in nodes, m # n
       PROVE  /\ Moved(k, node_indices[m]) \in 1..(last - 1)
              /\ order[Moved(k, node_indices[m])] = m
  <2>1. m \in Ids
    BY <1>2 DEF GraphTypeOK
  <2>2. node_indices[m] \in 1..last /\ slots[node_indices[m]] = m /\ node_indices[m] # k
    BY <1>2, <1>3, <1>10, <2>1 DEF PositionsAgree
  <2>3. CASE node_indices[m] = last
    <3>1. k \in 1..(last - 1) /\ Moved(k, node_indices[m]) = k
      BY <1>3, <2>2, <2>3 DEF Moved
    <3> QED BY <1>7, <2>2, <2>3, <3>1
  <2>4. CASE node_indices[m] # last
    <3>1. node_indices[m] \in 1..(last - 1) /\ Moved(k, node_indices[m]) = node_indices[m]
      BY <1>3, <2>2, <2>4 DEF Moved
    <3> QED BY <1>7, <2>2, <3>1
  <2> QED BY <2>3, <2>4
<1>11. nodes \ {n} \in SUBSET Ids
  BY <1>2 DEF GraphTypeOK
<1> HIDE DEF order
<1>12. PositionsAgree' /\ node_indices' \in [Ids -> Nat]
  <2>1. \A m \in nodes \ {n} : \E i \in 1..Len(order) : order[i] = m
    BY <1>6, <1>10
  <2> QED BY <1>1, <1>6, <1>8, <1>9, <1>11, <2>1, PositionsAnew
<1>13. ASSUME NEW m \in nodes, m # n PROVE node_indices'[m] = Moved(k, node_indices[m])
  <2>1. \A i \in 1..Len(order) : IndicesOf(order)[order[i]] = i
    BY <1>6, <1>8, IndicesRight
  <2> QED BY <1>1, <1>6, <1>10, <1>13, <2>1
<1>14. \A e \in edges : /\ e \in Edge /\ e.from \in nodes /\ e.to \in nodes
                        /\ (e.from # n <=> node_indices[e.from] # k)
                        /\ (e.to # n <=> node_indices[e.to] # k)
  <2> TAKE e \in edges
  <2>1. e \in Edge /\ e.from \in nodes /\ e.to \in nodes /\ e.from \in Ids /\ e.to \in Ids
    BY <1>2, EdgeTyped DEF ViewsAgree, GraphTypeOK
  <2> QED BY <1>2, <1>3, <2>1 DEF PositionsAgree
<1>15. arcs' = {Arc(e, node_indices') : e \in edges'}
  <2>1. ASSUME NEW e \in edges'
        PROVE  Arc(e, node_indices') \in ArcsWithout(k)
    <3>1. e \in edges /\ e.from # n /\ e.to # n
      BY <1>1, <2>1
    <3>2. Arc(e, node_indices) \in arcs
      BY <1>2, <3>1 DEF ViewsAgree
    <3>3. /\ Arc(e, node_indices).a # k /\ Arc(e, node_indices).b # k
          /\ Arc(e, node_indices).a = node_indices[e.from]
          /\ Arc(e, node_indices).b = node_indices[e.to]
          /\ Arc(e, node_indices).edge = e
      BY <1>14, <3>1 DEF Arc
    <3>4. Arc(e, node_indices') =
            [a |-> Moved(k, node_indices[e.from]), b |-> Moved(k, node_indices[e.to]),
             edge |-> e]
      BY <1>13, <1>14, <3>1 DEF Arc
    <3> QED BY <3>2, <3>3, <3>4 DEF ArcsWithout
  <2>2. ASSUME NEW arc \in ArcsWithout(k)
        PROVE  \E e \in edges' : arc = Arc(e, node_indices')
    <3>1. PICK x \in arcs : /\ x.a # k /\ x.b # k
                            /\ arc = [a |-> Moved(k, x.a), b |-> Moved(k, x.b), edge |-> x.edge]
      BY <2>2 DEF ArcsWithout
    <3>2. PICK e \in edges : x = Arc(e, node_indices)
      BY <1>2, <3>1 DEF ViewsAgree
    <3>3. x.a = node_indices[e.from] /\ x.b = node_indices[e.to] /\ x.edge = e
      BY <3>2 DEF Arc
    <3>4. e.from # n /\ e.to # n
      BY <1>14, <3>1, <3>3
    <3>5. e \in edges'
      BY <1>1, <3>4
    <3>6. arc = Arc(e, node_indices')
      BY <1>13, <1>14, <3>1, <3>3, <3>4 DEF Arc
    <3> QED BY <3>5, <3>6
  <2> QED BY <1>1, <2>1, <2>2
<1>16. \A e \in edges' : e.from \in nodes' /\ e.to \in nodes'
  BY <1>1, <1>14
<1>17. edges' \subseteq Edge
  BY <1>1, <1>14
<1>18. arcs' \subseteq [a: Nat, b: Nat, edge: Edge]
  BY <1>12, <1>15, <1>17, ArcTyped
<1>19. GraphTypeOK'
  BY <1>1, <1>2, <1>6, <1>11, <1>12, <1>17, <1>18, ChangeTyped DEF GraphTypeOK, RemoveNode
<1> QED BY <1>12, <1>15, <1>16, <1>19 DEF GraphInv, ViewsAgree

LEMMA LoadGraphOK ==
    ASSUME GraphInv, NEW order \in Orders(file.nodes), LoadGraph(order) PROVE GraphInv'
<1>1. /\ nodes' = file.nodes /\ slots' = order /\ node_indices' = IndicesOf(order)
      /\ edges' = {e \in file.edges : e.from \in file.nodes /\ e.to \in file.nodes}
      /\ arcs' = {Arc(e, IndicesOf(order)) : e \in edges'}
      /\ file' = file /\ changes' = changes
  BY DEF LoadGraph
<1>2. GraphTypeOK
  BY DEF GraphInv
<1>3. file.nodes \in SUBSET Ids /\ file.edges \in SUBSET Edge
  BY <1>2 DEF GraphTypeOK, SavedGraph
<1> DEFINE size == Cardinality(file.nodes)
<1>4. IsFiniteSet(file.nodes) /\ size \in Nat
  BY <1>3, GraphAssumption, FS_Subset, FS_CardinalityType
<1>5. order \in [1..size -> file.nodes] /\ \A n \in file.nodes : \E i \in 1..size : order[i] = n
  BY DEF Orders
<1>6. order \in Seq(Ids) /\ Len(order) = size
  <2>1. order \in [1..size -> Ids]
    BY <1>3, <1>5
  <2> QED BY <1>4, <2>1
<1>7. \A i, j \in 1..size : order[i] = order[j] => i = j
  <2>1. IsFiniteSet(1..size) /\ Cardinality(1..size) = size
    BY <1>4, FS_Interval
  <2>2. order \in Surjection(1..size, file.nodes)
    BY <1>5 DEF Surjection
  <2>3. order \in Injection(1..size, file.nodes)
    BY <2>1, <2>2, <1>4, FS_SurjSameCardinalityImpliesInj
  <2> QED BY <2>3 DEF Injection, IsInjective
<1>8. PositionsAgree' /\ node_indices' \in [Ids -> Nat]
  BY <1>1, <1>3, <1>5, <1>6, <1>7, PositionsAnew
<1>9. arcs' \subseteq [a: Nat, b: Nat, edge: Edge] /\ edges' \subseteq Edge
  BY <1>1, <1>3, <1>8, ArcTyped
<1>10. GraphTypeOK'
  BY <1>1, <1>2, <1>3, <1>6, <1>8, <1>9 DEF GraphTypeOK
<1>11. \A e \in edges' : e.from \in nodes' /\ e.to \in nodes'
  BY <1>1
<1> QED BY <1>1, <1>8, <1>10, <1>11 DEF GraphInv, ViewsAgree

LEMMA SaveOK ==
    ASSUME GraphInv, SaveGraph \/ SaveFails PROVE GraphInv'
<1>1. file' \in SavedGraph
  <2>1. GraphTypeOK
    BY DEF GraphInv
  <2>2. CASE SaveGraph
    BY <2>1, <2>2 DEF GraphTypeOK, SavedGraph, SaveGraph
  <2>3. CASE SaveFails
    BY <2>3 DEF SavedGraph, SaveFails, Torn
  <2> QED BY <2>2, <2>3
<1>2. CASE UNCHANGED <<nodes, edges, slots, arcs, node_indices, changes>>
  BY <1>1, <1>2 DEF GraphInv, GraphTypeOK, ViewsAgree, PositionsAgree, Arc
<1>3. CASE /\ nodes' = {} /\ edges' = {} /\ slots' = <<>> /\ arcs' = {}
           /\ node_indices' = [n \in Ids |-> 0] /\ UNCHANGED changes
  BY <1>1, <1>3 DEF GraphInv, GraphTypeOK, ViewsAgree, PositionsAgree
<1> QED BY <1>2, <1>3 DEF SaveGraph, SaveFails

(* Whatever is added, removed, saved and loaded, the positions, the ids,   *)
(* petgraph's edges and the list of edges are of one graph                 *)
(* (types.rs:460-514; persistence.rs:75-150).                              *)
THEOREM GraphViewsAgree == GraphSpec => [](GraphTypeOK /\ ViewsAgree)
<1>1. GraphInv /\ [GraphStep]_graphVars => GraphInv'
  <2> SUFFICES ASSUME GraphInv, [GraphStep]_graphVars PROVE GraphInv'
    OBVIOUS
  <2>1. CASE UNCHANGED graphVars
    BY <2>1 DEF graphVars, GraphInv, GraphTypeOK, ViewsAgree, PositionsAgree, Arc
  <2> QED
    BY <2>1, AddNodeOK, AddEdgeOK, RemoveNodeOK, LoadGraphOK, SaveOK DEF GraphStep
<1> QED BY <1>1, GraphInitOK, PTL DEF GraphSpec, GraphInv

-----------------------------------------------------------------------------
(* The breadth-first search.                                               *)

SearchStates == [queue: Seq(Between \X Nat), found: SUBSET (Between \X Nat)]
Neighbors == [Between -> SUBSET Between]

LEMMA ConcatIs ==
    ASSUME NEW T, NEW s \in Seq(T), NEW t \in Seq(T)
    PROVE  /\ s \o t \in Seq(T) /\ Len(s \o t) = Len(s) + Len(t)
           /\ \A k \in 1..Len(s) : (s \o t)[k] = s[k]
           /\ \A k \in 1..Len(t) : (s \o t)[Len(s) + k] = t[k]
OBVIOUS

LEMMA SomeOrderIs ==
    ASSUME NEW S, IsFiniteSet(S)
    PROVE  /\ Cardinality(S) \in Nat
           /\ SomeOrder(S) \in [1..Cardinality(S) -> S]
           /\ \A x \in S : \E k \in 1..Cardinality(S) : SomeOrder(S)[k] = x
<1>1. Cardinality(S) \in Nat /\ ExistsBijection(1..Cardinality(S), S)
  BY FS_CardinalityType
<1>2. PICK f \in Bijection(1..Cardinality(S), S) : TRUE
  BY <1>1 DEF ExistsBijection
<1>3. f \in [1..Cardinality(S) -> S] /\ \A x \in S : \E k \in 1..Cardinality(S) : f[k] = x
  BY <1>2 DEF Bijection, Surjection, Injection
<1>4. \E order \in [1..Cardinality(S) -> S] : \A x \in S : \E k \in DOMAIN order : order[k] = x
  BY <1>3
<1>5. /\ SomeOrder(S) \in [1..Cardinality(S) -> S]
      /\ \A x \in S : \E k \in DOMAIN SomeOrder(S) : SomeOrder(S)[k] = x
  BY <1>4 DEF SomeOrder
<1> QED BY <1>1, <1>5

(* The positions that a step meets.                                        *)
Met(s, limit, neighbors) ==
    IF s.queue[1][2] >= limit THEN {} ELSE neighbors[s.queue[1][1]] \ Positions(s.found)

(* t is s after a step: its first entry is gone, those met are at the end. *)
Popped(s, t, met) ==
    /\ IsFiniteSet(met) /\ Cardinality(met) \in Nat
    /\ t.found = s.found \cup {<<x, s.queue[1][2] + 1>> : x \in met}
    /\ Len(t.queue) = Len(s.queue) - 1 + Cardinality(met)
    /\ \A k \in 1..(Len(s.queue) - 1) : t.queue[k] = s.queue[k + 1]
    /\ \A k \in Len(s.queue)..Len(t.queue) :
          \E x \in met : t.queue[k] = <<x, s.queue[1][2] + 1>>
    /\ \A x \in met : \E k \in Len(s.queue)..Len(t.queue) :
          t.queue[k] = <<x, s.queue[1][2] + 1>>

LEMMA QueueTyped ==
    ASSUME NEW s \in SearchStates
    PROVE  /\ Len(s.queue) \in Nat
           /\ \A k \in 1..Len(s.queue) : /\ s.queue[k] \in Between \X Nat
                                         /\ s.queue[k][1] \in Between /\ s.queue[k][2] \in Nat
           /\ s.queue # <<>> => Len(s.queue) > 0
           /\ s.found \in SUBSET (Between \X Nat)
<1>1. s.queue \in Seq(Between \X Nat) /\ s.found \in SUBSET (Between \X Nat)
  BY DEF SearchStates
<1>2. Len(s.queue) \in Nat /\ (s.queue # <<>> => Len(s.queue) > 0)
  BY <1>1
<1>3. ASSUME NEW k \in 1..Len(s.queue)
      PROVE s.queue[k] \in Between \X Nat /\ s.queue[k][1] \in Between /\ s.queue[k][2] \in Nat
  <2>1. s.queue[k] \in Between \X Nat
    BY <1>1
  <2> QED BY <2>1
<1> QED BY <1>1, <1>2, <1>3

LEMMA PopIs ==
    ASSUME Len(slots) \in Nat, NEW s \in SearchStates, s.queue # <<>>,
           NEW limit \in Nat, NEW neighbors \in Neighbors
    PROVE  /\ Pop(s, limit, neighbors) \in SearchStates
           /\ Popped(s, Pop(s, limit, neighbors), Met(s, limit, neighbors))
           /\ Met(s, limit, neighbors) \in SUBSET Between
<1> DEFINE t == Pop(s, limit, neighbors)
           met == Met(s, limit, neighbors)
           d == s.queue[1][2]
           m == Cardinality(met)
           order == SomeOrder(met)
           more == [k \in 1..m |-> <<order[k], d + 1>>]
<1>1. /\ Len(s.queue) \in Nat /\ Len(s.queue) > 0 /\ s.queue[1][1] \in Between /\ d \in Nat
      /\ s.queue \in Seq(Between \X Nat) /\ s.found \in SUBSET (Between \X Nat)
  BY QueueTyped DEF SearchStates
<1>2. met \in SUBSET Between
  BY <1>1 DEF Met, Neighbors
<1>3. IsFiniteSet(met)
  <2>1. IsFiniteSet(Between)
    BY FS_Interval DEF Between
  <2> HIDE DEF met
  <2> QED BY <1>2, <2>1, FS_Subset
<1>4. /\ m \in Nat /\ order \in [1..m -> met]
      /\ \A x \in met : \E k \in 1..m : order[k] = x
  BY <1>3, SomeOrderIs
<1>5. Head(s.queue) = s.queue[1]
  BY <1>1
<1>6. t = [queue |-> Tail(s.queue) \o [k \in DOMAIN order |-> <<order[k], d + 1>>],
           found |-> s.found \cup {<<x, d + 1>> : x \in met}]
  BY <1>5 DEF Pop, Met
<1> HIDE DEF met, order, d, m
<1>7. t.queue = Tail(s.queue) \o more /\ t.found = s.found \cup {<<x, d + 1>> : x \in met}
  <2>1. DOMAIN order = 1..m
    BY <1>4
  <2>2. [k \in DOMAIN order |-> <<order[k], d + 1>>] = more
    BY <2>1
  <2> HIDE DEF t, more
  <2> QED BY <1>6, <2>2
<1>8. more \in [1..m -> Between \X Nat]
  <2>1. \A k \in 1..m : order[k] \in Between
    BY <1>2, <1>4
  <2>2. d + 1 \in Nat
    BY <1>1
  <2> QED BY <2>1, <2>2
<1>9. more \in Seq(Between \X Nat) /\ Len(more) = m
  BY <1>4, <1>8
<1>10. \A k \in 1..m : more[k] = <<order[k], d + 1>>
  OBVIOUS
<1> HIDE DEF more, t
<1>11. /\ Tail(s.queue) \in Seq(Between \X Nat) /\ Len(Tail(s.queue)) = Len(s.queue) - 1
       /\ \A k \in 1..(Len(s.queue) - 1) : Tail(s.queue)[k] = s.queue[k + 1]
  BY <1>1
<1>12. /\ t.queue \in Seq(Between \X Nat) /\ Len(t.queue) = Len(s.queue) - 1 + m
       /\ \A k \in 1..(Len(s.queue) - 1) : t.queue[k] = s.queue[k + 1]
       /\ \A k \in 1..m : t.queue[Len(s.queue) - 1 + k] = more[k]
  <2> DEFINE rest == Tail(s.queue)
  <2>0. /\ rest \o more \in Seq(Between \X Nat) /\ Len(rest \o more) = Len(rest) + Len(more)
        /\ \A k \in 1..Len(rest) : (rest \o more)[k] = rest[k]
        /\ \A k \in 1..Len(more) : (rest \o more)[Len(rest) + k] = more[k]
    <3> DEFINE E == Between \X Nat
    <3>1. rest \in Seq(E) /\ more \in Seq(E)
      BY <1>9, <1>11
    <3> HIDE DEF rest, E
    <3>2. /\ rest \o more \in Seq(E) /\ Len(rest \o more) = Len(rest) + Len(more)
          /\ \A k \in 1..Len(rest) : (rest \o more)[k] = rest[k]
          /\ \A k \in 1..Len(more) : (rest \o more)[Len(rest) + k] = more[k]
      BY <3>1, ConcatIs
    <3> QED BY <3>2 DEF E
  <2>1. \A k \in 1..(Len(s.queue) - 1) : t.queue[k] = Tail(s.queue)[k]
    BY <1>7, <1>11, <2>0
  <2>2. \A k \in 1..m : t.queue[Len(s.queue) - 1 + k] = more[k]
    BY <1>7, <1>9, <1>11, <2>0
  <2>3. t.queue \in Seq(Between \X Nat) /\ Len(t.queue) = Len(s.queue) - 1 + m
    BY <1>7, <1>9, <1>11, <2>0
  <2> QED BY <1>11, <2>1, <2>2, <2>3
<1>13. ASSUME NEW k \in Len(s.queue)..Len(t.queue)
       PROVE  \E x \in met : t.queue[k] = <<x, d + 1>>
  <2> DEFINE l == k - (Len(s.queue) - 1)
  <2>1. l \in 1..m /\ Len(s.queue) - 1 + l = k
    <3>1. Len(t.queue) = Len(s.queue) - 1 + m /\ Len(s.queue) \in Nat /\ m \in Nat
      BY <1>1, <1>4, <1>12
    <3>2. k \in Int /\ k >= Len(s.queue) /\ k <= Len(s.queue) - 1 + m
      BY <3>1
    <3> DEFINE a == Len(s.queue)
    <3>3. a \in Nat /\ k \in Int /\ k >= a /\ k <= a - 1 + m /\ m \in Nat
      BY <3>1, <3>2
    <3> HIDE DEF a
    <3>4. k - (a - 1) \in 1..m /\ a - 1 + (k - (a - 1)) = k
      BY <3>3
    <3> QED BY <3>4 DEF a
  <2> HIDE DEF l
  <2>2. t.queue[k] = more[l]
    BY <1>12, <2>1
  <2> QED BY <1>4, <1>10, <2>1, <2>2
<1>14. ASSUME NEW x \in met
       PROVE  \E k \in Len(s.queue)..Len(t.queue) : t.queue[k] = <<x, d + 1>>
  <2>1. PICK l \in 1..m : order[l] = x
    BY <1>4
  <2>2. t.queue[Len(s.queue) - 1 + l] = <<x, d + 1>>
    BY <1>10, <1>12, <2>1
  <2>3. Len(s.queue) - 1 + l \in Len(s.queue)..Len(t.queue)
    BY <1>1, <1>4, <1>12
  <2> QED BY <2>2, <2>3
<1>15. t.found \in SUBSET (Between \X Nat)
  BY <1>1, <1>2, <1>7
<1>16. t \in SearchStates
  <2>1. t = [queue |-> t.queue, found |-> t.found]
    BY <1>6 DEF t
  <2> QED BY <1>12, <1>15, <2>1 DEF SearchStates
<1>17. Popped(s, t, met)
  BY <1>3, <1>4, <1>7, <1>12, <1>13, <1>14 DEF Popped, m, d
<1> QED BY <1>2, <1>16, <1>17 DEF t, met

SearchStep(s, limit, neighbors) ==
    IF s.queue = <<>> THEN s ELSE Pop(s, limit, neighbors)

(* The states that a search goes through.                                  *)
IsRun(g, start, found, limit, neighbors) ==
    /\ g \in [0..(Len(slots) + 1) -> SearchStates]
    /\ g[0] = [queue |-> <<<<start, 0>>>>, found |-> found]
    /\ \A k \in 1..(Len(slots) + 1) : g[k] = SearchStep(g[k - 1], limit, neighbors)

LEMMA SearchRuns ==
    ASSUME Len(slots) \in Nat, NEW start \in Between, NEW found \in SUBSET (Between \X Nat),
           NEW limit \in Nat, NEW neighbors \in Neighbors
    PROVE  \E g : /\ IsRun(g, start, found, limit, neighbors)
                  /\ Search(start, found, limit, neighbors) = g[Len(slots) + 1].found
<1> DEFINE N == Len(slots) + 1
           init == [queue |-> <<<<start, 0>>>>, found |-> found]
           step == [k \in 1..N |-> [s \in SearchStates |-> SearchStep(s, limit, neighbors)]]
           after == CHOOSE f : f = [n \in 0..N |->
                       IF n = 0 THEN [queue |-> <<<<start, 0>>>>, found |-> found]
                       ELSE IF f[n - 1].queue = <<>> THEN f[n - 1]
                       ELSE Pop(f[n - 1], limit, neighbors)]
<1>1. N \in Nat
  OBVIOUS
<1>2. init \in SearchStates
  <2>1. <<start, 0>> \in Between \X Nat
    OBVIOUS
  <2> QED BY <2>1 DEF SearchStates
<1>3. step \in [1..N -> [SearchStates -> SearchStates]]
  <2>1. \A s \in SearchStates : SearchStep(s, limit, neighbors) \in SearchStates
    BY PopIs DEF SearchStep
  <2> QED BY <2>1
<1>4. HasIteration(N, SearchStates, init, step)
  <2> HIDE DEF N, init, step
  <2> QED BY <1>1, <1>2, <1>3, IterationExists
<1>5. PICK f \in [0..N -> SearchStates] : f[0] = init /\ \A k \in 1..N : f[k] = step[k][f[k - 1]]
  <2> HIDE DEF N, init, step
  <2> QED BY <1>4 DEF HasIteration
<1>6. \A k \in 1..N : f[k] = SearchStep(f[k - 1], limit, neighbors)
  <2> TAKE k \in 1..N
  <2>1. f[k - 1] \in SearchStates
    OBVIOUS
  <2> QED BY <1>5, <2>1
<1>7. f = [n \in 0..N |->
              IF n = 0 THEN [queue |-> <<<<start, 0>>>>, found |-> found]
              ELSE IF f[n - 1].queue = <<>> THEN f[n - 1]
              ELSE Pop(f[n - 1], limit, neighbors)]
  <2>1. \A n \in 0..N : n # 0 => n \in 1..N
    OBVIOUS
  <2>2. \A n \in 0..N :
           f[n] = IF n = 0 THEN [queue |-> <<<<start, 0>>>>, found |-> found]
                  ELSE IF f[n - 1].queue = <<>> THEN f[n - 1]
                  ELSE Pop(f[n - 1], limit, neighbors)
    BY <1>5, <1>6, <2>1 DEF SearchStep
  <2> QED BY <2>2
<1>8. after = [n \in 0..N |->
                 IF n = 0 THEN [queue |-> <<<<start, 0>>>>, found |-> found]
                 ELSE IF after[n - 1].queue = <<>> THEN after[n - 1]
                 ELSE Pop(after[n - 1], limit, neighbors)]
  BY <1>7
<1>9. Search(start, found, limit, neighbors) = after[N].found
  BY DEF Search
<1> HIDE DEF after
<1>10. after[0] = init /\ \A k \in 1..N : after[k] = SearchStep(after[k - 1], limit, neighbors)
  <2>1. 0 \in 0..N /\ \A k \in 1..N : k \in 0..N /\ k # 0
    BY <1>1
  <2> QED BY <1>8, <2>1 DEF SearchStep
<1>11. after = f
  <2>1. \A k \in 1..N : after[k - 1] = f[k - 1] => after[k] = f[k]
    BY <1>6, <1>10
  <2>2. \A k \in 0..N : after[k] = f[k]
    <3>1. GoOnAlike(N, after, f)
      <4>1. after[0] = f[0]
        BY <1>5, <1>10
      <4> HIDE DEF N, init
      <4> QED BY <2>1, <4>1 DEF GoOnAlike
    <3> HIDE DEF N, init, step
    <3> QED BY <1>1, <3>1, IterationUnique
  <2>3. DOMAIN after = 0..N
    BY <1>8
  <2>4. after = [k \in 0..N |-> after[k]]
    BY <1>8
  <2>5. f = [k \in 0..N |-> f[k]]
    OBVIOUS
  <2> QED BY <2>2, <2>4, <2>5
<1>12. IsRun(after, start, found, limit, neighbors)
  BY <1>5, <1>10, <1>11 DEF IsRun
<1> QED BY <1>9, <1>12

With(F, M, e) == F \cup {<<x, e>> : x \in M}
Apart(F, M) == \A x \in M : x \notin Positions(F)

LEMMA FreshCount ==
    ASSUME NEW F, NEW M, NEW e, IsFiniteSet(F), IsFiniteSet(M), Apart(F, M)
    PROVE  /\ IsFiniteSet(With(F, M, e))
           /\ Cardinality(With(F, M, e)) = Cardinality(F) + Cardinality(M)
<1> DEFINE G == {<<x, e>> : x \in M}
           pair == [x \in M |-> <<x, e>>]
<1>1. pair \in Bijection(M, G)
  <2>1. pair \in [M -> G] /\ \A x, y \in M : pair[x] = pair[y] => x = y
    OBVIOUS
  <2>2. \A g \in G : \E x \in M : pair[x] = g
    OBVIOUS
  <2> HIDE DEF pair, G
  <2> QED BY <2>1, <2>2 DEF Bijection, Injection, Surjection, IsInjective
<1>2. F \cap G = {}
  BY DEF Positions, Apart
<1> HIDE DEF G, pair
<1>3. IsFiniteSet(G) /\ Cardinality(G) = Cardinality(M)
  <2>1. ExistsBijection(M, G)
    BY <1>1 DEF ExistsBijection
  <2> QED BY <2>1, FS_Bijection
<1>4. /\ IsFiniteSet(F \cup G)
      /\ Cardinality(F \cup G) = Cardinality(F) + Cardinality(G) - Cardinality(F \cap G)
  BY <1>3, FS_Union
<1>5. Cardinality(F \cap G) = 0
  BY <1>2, FS_EmptySet
<1>6. Cardinality(F) \in Nat /\ Cardinality(G) \in Nat
  BY <1>3, FS_CardinalityType
<1>7. With(F, M, e) = F \cup G
  BY DEF With, G
<1> QED BY <1>3, <1>4, <1>5, <1>6, <1>7

(* b[d] is the positions within distance d of start.                       *)
IsBall(b, start, neighbors) ==
    /\ b \in [Nat -> SUBSET Between]
    /\ b[0] = {start}
    /\ \A d \in Nat : b[d + 1] = {j \in Between : j \in b[d] \/ \E i \in b[d] : j \in neighbors[i]}

AtDistance(f, b) == f[1] \in b[f[2]] /\ (f[2] > 0 => f[1] \notin b[f[2] - 1])

LEMMA BallGrows ==
    ASSUME NEW b, NEW start, NEW neighbors, IsBall(b, start, neighbors), NEW d \in Nat, NEW e \in Nat, d <= e
    PROVE  b[d] \subseteq b[e]
<1> DEFINE S == {k \in Nat : \A l \in 0..k : b[l] \subseteq b[k]}
<1>1. 0 \in S
  OBVIOUS
<1>2. ASSUME NEW k \in Nat, k \in S PROVE k + 1 \in S
  <2>1. b[k] \subseteq b[k + 1]
    <3>1. b[k] \subseteq Between
      BY DEF IsBall
    <3> QED BY <3>1 DEF IsBall
  <2>2. \A l \in 0..(k + 1) : b[l] \subseteq b[k + 1]
    <3> TAKE l \in 0..(k + 1)
    <3>1. CASE l = k + 1
      BY <3>1
    <3>2. CASE l # k + 1
      <4>1. l \in 0..k
        BY <3>2
      <4> QED BY <1>2, <2>1, <4>1
    <3> QED BY <3>1, <3>2
  <2> QED BY <2>2
<1> HIDE DEF S
<1>3. e \in S
  BY <1>1, <1>2, SetInduction
<1> QED BY <1>3 DEF S

LEMMA DistanceIsLeast ==
    ASSUME NEW b, NEW start, NEW neighbors, IsBall(b, start, neighbors),
           NEW f \in Between \X Nat, AtDistance(f, b), NEW e \in Nat, f[1] \in b[e]
    PROVE  f[2] <= e
<1> SUFFICES ASSUME e < f[2] PROVE FALSE
  OBVIOUS
<1>1. f[2] - 1 \in Nat /\ e <= f[2] - 1 /\ f[2] > 0
  OBVIOUS
<1>2. b[e] \subseteq b[f[2] - 1]
  BY <1>1, BallGrows
<1> QED BY <1>1, <1>2 DEF AtDistance

(* Two entries for one position are one.                                   *)
LEMMA OneEach ==
    ASSUME NEW b, NEW start, NEW neighbors, IsBall(b, start, neighbors),
           NEW f \in Between \X Nat, NEW g \in Between \X Nat,
           AtDistance(f, b), AtDistance(g, b), f[1] = g[1]
    PROVE  f = g
<1>1. f[1] \in b[f[2]] /\ g[1] \in b[g[2]] /\ f[2] \in Nat /\ g[2] \in Nat
  BY DEF AtDistance
<1>2. f[2] <= g[2]
  BY <1>1, DistanceIsLeast
<1>3. g[2] <= f[2]
  BY <1>1, DistanceIsLeast
<1>4. f = <<f[1], f[2]>> /\ g = <<g[1], g[2]>>
  OBVIOUS
<1> QED BY <1>1, <1>2, <1>3, <1>4

InQueue(f, s) == \E k \in 1..Len(s.queue) : s.queue[k] = f

(* What is found has its distance.  Whatever was found is in the queue, at *)
(* the limit, or its neighbours were found.                                *)
FoundInv(s, start, limit, neighbors, b) ==
    /\ s \in SearchStates /\ IsFiniteSet(s.found)
    /\ <<start, 0>> \in s.found
    /\ \A f \in s.found : f[2] <= limit /\ AtDistance(f, b)
    /\ \A f \in s.found :
          InQueue(f, s) \/ f[2] >= limit \/ neighbors[f[1]] \subseteq Positions(s.found)

(* The queue has found positions in the order of their distances, and      *)
(* everything nearer than, or as near as, the first one was found.         *)
QueueInv(s, b) ==
    /\ \A k \in 1..Len(s.queue) : s.queue[k] \in s.found
    /\ \A j, k \in 1..Len(s.queue) : j <= k => s.queue[j][2] <= s.queue[k][2]
    /\ \A k \in 1..Len(s.queue) : s.queue[k][2] <= s.queue[1][2] + 1
    /\ s.queue # <<>> => b[s.queue[1][2]] \subseteq Positions(s.found)

Counted(s, n) == s.queue # <<>> => n + Len(s.queue) = Cardinality(s.found)

LEMMA SearchStarts ==
    ASSUME Len(slots) \in Nat, NEW start \in Between, NEW limit \in Nat, NEW neighbors, NEW b,
           IsBall(b, start, neighbors), NEW s, s = [queue |-> <<<<start, 0>>>>, found |-> {<<start, 0>>}]
    PROVE  FoundInv(s, start, limit, neighbors, b) /\ QueueInv(s, b) /\ Counted(s, 0)
<1> DEFINE h == <<start, 0>>
<1>1. /\ s.queue = <<h>> /\ s.found = {h} /\ h \in Between \X Nat /\ h[1] = start /\ h[2] = 0
      /\ b[0] = {start}
  BY DEF IsBall
<1> HIDE DEF h
<1>2. Len(s.queue) = 1 /\ s.queue[1] = h /\ \A k \in 1..Len(s.queue) : k = 1
  BY <1>1
<1>3. IsFiniteSet(s.found) /\ Cardinality(s.found) = 1
  BY <1>1, FS_Singleton
<1>4. s \in SearchStates
  BY <1>1 DEF SearchStates, h
<1>5. AtDistance(h, b) /\ start \in Positions(s.found)
  BY <1>1 DEF AtDistance, Positions
<1>6. FoundInv(s, start, limit, neighbors, b)
  <2>1. InQueue(h, s)
    BY <1>2 DEF InQueue
  <2>2. h[2] <= limit
    BY <1>1
  <2> QED BY <1>1, <1>3, <1>4, <1>5, <2>1, <2>2 DEF FoundInv, h
<1>7. QueueInv(s, b)
  <2>1. \A k \in 1..Len(s.queue) : s.queue[k][2] = 0 /\ s.queue[k] \in s.found
    BY <1>1, <1>2
  <2> QED BY <1>1, <1>2, <1>5, <2>1 DEF QueueInv
<1> QED BY <1>2, <1>3, <1>6, <1>7 DEF Counted

(* A step keeps all this.                                                  *)
LEMMA SearchGoesOn ==
    ASSUME Len(slots) \in Nat, NEW start \in Between, NEW limit \in Nat, NEW neighbors \in Neighbors,
           NEW b, IsBall(b, start, neighbors), NEW s, NEW n \in Nat,
           FoundInv(s, start, limit, neighbors, b), QueueInv(s, b), Counted(s, n),
           s.queue # <<>>, NEW t, t = Pop(s, limit, neighbors)
    PROVE  FoundInv(t, start, limit, neighbors, b) /\ QueueInv(t, b) /\ Counted(t, n + 1)
<1> DEFINE h == s.queue[1]
           i == h[1]
           d == h[2]
           met == Met(s, limit, neighbors)
<1>1. s \in SearchStates
  BY DEF FoundInv
<1>2. t \in SearchStates /\ Popped(s, t, met) /\ met \in SUBSET Between
  BY <1>1, PopIs
<1>3. /\ Len(s.queue) \in Nat /\ Len(s.queue) > 0 /\ 1 \in 1..Len(s.queue)
      /\ h \in Between \X Nat /\ i \in Between /\ d \in Nat /\ h = <<i, d>>
      /\ h \in s.found /\ d <= limit /\ AtDistance(h, b) /\ s.found \in SUBSET (Between \X Nat)
      /\ Len(t.queue) \in Nat /\ t.found \in SUBSET (Between \X Nat)
      /\ \A k \in 1..Len(t.queue) : t.queue[k] \in Between \X Nat /\ t.queue[k][2] \in Nat
  <2>1. Len(s.queue) \in Nat /\ Len(s.queue) > 0 /\ 1 \in 1..Len(s.queue)
    BY <1>1, QueueTyped
  <2>2. h \in Between \X Nat /\ h \in s.found
    BY <1>1, <2>1, QueueTyped DEF QueueInv
  <2>3. i \in Between /\ d \in Nat /\ h = <<i, d>>
    BY <2>2
  <2>4. d <= limit /\ AtDistance(h, b)
    BY <2>2 DEF FoundInv
  <2> HIDE DEF h, i, d, met
  <2> QED BY <1>1, <1>2, <2>1, <2>2, <2>3, <2>4, QueueTyped
<1>4. \A x \in met : /\ d < limit /\ x \in neighbors[i] /\ x \in Between
                     /\ x \notin Positions(s.found)
  BY <1>2, <1>3 DEF Met
<1>5. d < limit => neighbors[i] \subseteq met \cup Positions(s.found)
  BY <1>3 DEF Met
<1>6. /\ IsFiniteSet(met) /\ Cardinality(met) \in Nat
      /\ t.found = s.found \cup {<<x, d + 1>> : x \in met}
      /\ Len(t.queue) = Len(s.queue) - 1 + Cardinality(met)
      /\ \A k \in 1..(Len(s.queue) - 1) : t.queue[k] = s.queue[k + 1]
      /\ \A k \in Len(s.queue)..Len(t.queue) : \E x \in met : t.queue[k] = <<x, d + 1>>
      /\ \A x \in met : \E k \in Len(s.queue)..Len(t.queue) : t.queue[k] = <<x, d + 1>>
  BY <1>2 DEF Popped
<1> HIDE DEF h, i, d, met
<1>7. /\ \A f \in t.found : f \in s.found \/ \E x \in met : f = <<x, d + 1>>
      /\ \A x \in met : <<x, d + 1>> \in t.found /\ x \in Positions(t.found)
      /\ s.found \subseteq t.found /\ Positions(s.found) \subseteq Positions(t.found)
  <2>1. \A x \in met : <<x, d + 1>> \in t.found /\ <<x, d + 1>>[1] = x
    BY <1>6
  <2> QED BY <1>6, <2>1 DEF Positions
<1>70. t.found = With(s.found, met, d + 1) /\ Apart(s.found, met)
  BY <1>4, <1>6 DEF With, Apart
<1>8. b[d] \subseteq Positions(s.found)
  BY DEF QueueInv, h, d
<1>9. ASSUME NEW x \in met
      PROVE  AtDistance(<<x, d + 1>>, b) /\ d + 1 <= limit
  <2>1. i \in b[d]
    BY <1>3 DEF AtDistance, i, d
  <2>2. x \in b[d + 1]
    BY <1>3, <1>4, <2>1 DEF IsBall
  <2>3. x \notin b[d]
    BY <1>4, <1>8
  <2>4. (d + 1) - 1 = d
    BY <1>3
  <2> QED BY <1>3, <1>4, <2>2, <2>3, <2>4 DEF AtDistance
<1>10. \A f \in t.found : f[2] <= limit /\ AtDistance(f, b)
  <2> TAKE f \in t.found
  <2>1. CASE f \in s.found
    BY <2>1 DEF FoundInv
  <2>2. CASE \E x \in met : f = <<x, d + 1>>
    BY <1>9, <2>2
  <2> QED BY <1>7, <2>1, <2>2
<1>11. \A k \in 1..Len(t.queue) : t.queue[k] \in t.found /\ d <= t.queue[k][2] /\ t.queue[k][2] <= d + 1
  <2> TAKE k \in 1..Len(t.queue)
  <2>1. CASE k \in 1..(Len(s.queue) - 1)
    <3>1. k + 1 \in 1..Len(s.queue) /\ 1 <= k + 1
      BY <1>3, <2>1
    <3>2. t.queue[k] = s.queue[k + 1]
      BY <1>6, <2>1
    <3>3. s.queue[k + 1] \in s.found /\ d <= s.queue[k + 1][2] /\ s.queue[k + 1][2] <= d + 1
      BY <1>3, <3>1 DEF QueueInv, d, h
    <3> QED BY <1>7, <3>2, <3>3
  <2>2. CASE k \in Len(s.queue)..Len(t.queue)
    <3>1. PICK x \in met : t.queue[k] = <<x, d + 1>>
      BY <1>6, <2>2
    <3>2. t.queue[k][2] = d + 1
      BY <3>1
    <3> QED BY <1>3, <1>7, <3>1, <3>2
  <2> QED BY <1>3, <2>1, <2>2
<1>12. ASSUME NEW j \in 1..Len(t.queue), NEW k \in 1..Len(t.queue), j <= k
       PROVE  t.queue[j][2] <= t.queue[k][2]
  <2>1. CASE k \in Len(s.queue)..Len(t.queue)
    <3>1. t.queue[k][2] = d + 1
      BY <1>6, <2>1
    <3> QED BY <1>11, <3>1
  <2>2. CASE k \in 1..(Len(s.queue) - 1)
    <3>1. /\ j \in 1..(Len(s.queue) - 1) /\ j + 1 <= k + 1
          /\ j + 1 \in 1..Len(s.queue) /\ k + 1 \in 1..Len(s.queue)
      BY <1>3, <1>12, <2>2
    <3>2. t.queue[j] = s.queue[j + 1] /\ t.queue[k] = s.queue[k + 1]
      BY <1>6, <2>2, <3>1
    <3> QED BY <3>1, <3>2 DEF QueueInv
  <2> QED BY <1>3, <2>1, <2>2
<1>13. \A f \in t.found :
          InQueue(f, t) \/ f[2] >= limit \/ neighbors[f[1]] \subseteq Positions(t.found)
  <2> TAKE f \in t.found
  <2>1. CASE \E x \in met : f = <<x, d + 1>>
    <3>1. \E k \in Len(s.queue)..Len(t.queue) : t.queue[k] = f
      BY <1>6, <2>1
    <3>2. \A k \in Len(s.queue)..Len(t.queue) : k \in 1..Len(t.queue)
      BY <1>3
    <3> QED BY <3>1, <3>2 DEF InQueue
  <2>2. CASE f \in s.found
    <3>1. CASE InQueue(f, s)
      <4>1. PICK k \in 1..Len(s.queue) : s.queue[k] = f
        BY <3>1 DEF InQueue
      <4>2. CASE k = 1
        <5>1. f = h /\ f[1] = i /\ f[2] = d
          BY <4>1, <4>2 DEF h, i, d
        <5>2. d >= limit \/ d < limit
          BY <1>3
        <5> QED BY <1>5, <1>7, <5>1, <5>2
      <4>3. CASE k # 1
        <5>1. k - 1 \in 1..(Len(s.queue) - 1) /\ (k - 1) + 1 = k
          BY <1>3, <4>3
        <5>2. t.queue[k - 1] = f
          BY <1>6, <4>1, <5>1
        <5>3. k - 1 \in 1..Len(t.queue)
          BY <1>3, <1>6, <5>1
        <5> QED BY <5>2, <5>3 DEF InQueue
      <4> QED BY <4>2, <4>3
    <3>2. CASE ~InQueue(f, s)
      BY <1>7, <2>2, <3>2 DEF FoundInv
    <3> QED BY <3>1, <3>2
  <2> QED BY <1>7, <2>1, <2>2
<1>14. FoundInv(t, start, limit, neighbors, b)
  <2>1. <<start, 0>> \in t.found
    BY <1>7 DEF FoundInv
  <2>2. IsFiniteSet(t.found)
    <3>1. IsFiniteSet(s.found)
      BY DEF FoundInv
    <3>2. IsFiniteSet(With(s.found, met, d + 1))
      BY <1>6, <1>70, <3>1, FreshCount
    <3> QED BY <1>70, <3>2
  <2> QED BY <1>2, <1>10, <1>13, <2>1, <2>2 DEF FoundInv
<1>15. ASSUME t.queue # <<>> PROVE b[t.queue[1][2]] \subseteq Positions(t.found)
  <2>1. 1 \in 1..Len(t.queue)
    BY <1>2, <1>15, QueueTyped
  <2>2. CASE t.queue[1][2] = d
    BY <1>7, <1>8, <2>2
  <2>3. CASE t.queue[1][2] = d + 1
    <3> SUFFICES ASSUME NEW j \in b[d + 1] PROVE j \in Positions(t.found)
      BY <2>3
    <3>1. d + 1 <= limit
      BY <1>10, <1>11, <2>1, <2>3
    <3>2. CASE j \in b[d]
      BY <1>7, <1>8, <3>2
    <3>3. ASSUME NEW l \in b[d], j \in neighbors[l] PROVE j \in Positions(t.found)
      <4>1. PICK f \in s.found : f[1] = l
        BY <1>8 DEF Positions
      <4>2. f \in t.found /\ f \in Between \X Nat /\ AtDistance(f, b) /\ f[2] \in Nat
        BY <1>3, <1>7, <4>1 DEF FoundInv
      <4>3. f[2] <= d
        BY <1>3, <4>1, <4>2, DistanceIsLeast
      <4>4. ~InQueue(f, t)
        <5>1. ASSUME NEW k \in 1..Len(t.queue), t.queue[k] = f PROVE FALSE
          <6>1. t.queue[1][2] <= t.queue[k][2]
            BY <1>3, <1>12, <2>1
          <6> QED BY <1>3, <2>3, <4>2, <4>3, <5>1, <6>1
        <5> QED BY <5>1 DEF InQueue
      <4>5. ~(f[2] >= limit)
        BY <1>3, <3>1, <4>2, <4>3
      <4>6. neighbors[f[1]] \subseteq Positions(t.found)
        BY <1>13, <4>2, <4>4, <4>5
      <4> QED BY <3>3, <4>1, <4>6
    <3> QED BY <1>3, <3>2, <3>3 DEF IsBall
  <2> QED BY <1>3, <1>11, <2>1, <2>2, <2>3
<1>16. QueueInv(t, b)
  <2>1. \A k \in 1..Len(t.queue) : t.queue[k][2] <= t.queue[1][2] + 1
    <3> TAKE k \in 1..Len(t.queue)
    <3>1. 1 \in 1..Len(t.queue)
      BY <1>3
    <3>2. d <= t.queue[1][2] /\ t.queue[k][2] <= d + 1
      BY <1>11, <3>1
    <3>3. t.queue[1][2] \in Nat /\ t.queue[k][2] \in Nat
      BY <1>3, <3>1
    <3> QED BY <1>3, <3>2, <3>3
  <2> QED BY <1>11, <1>12, <1>15, <2>1 DEF QueueInv
<1>17. Counted(t, n + 1)
  <2>1. IsFiniteSet(s.found) /\ n + Len(s.queue) = Cardinality(s.found)
    BY DEF FoundInv, Counted
  <2>2. Cardinality(t.found) = Cardinality(s.found) + Cardinality(met)
    <3>1. IsFiniteSet(met) /\ IsFiniteSet(s.found) /\ Apart(s.found, met)
      BY <1>6, <1>70, <2>1
    <3>2. Cardinality(With(s.found, met, d + 1)) = Cardinality(s.found) + Cardinality(met)
      BY <3>1, FreshCount
    <3> QED BY <1>70, <3>2
  <2>3. n + 1 + Len(t.queue) = Cardinality(t.found)
    <3> DEFINE p == Len(s.queue)
               q == Len(t.queue)
               u == Cardinality(s.found)
               v == Cardinality(t.found)
               w == Cardinality(met)
    <3>1. p \in Nat /\ q \in Nat /\ w \in Nat /\ q = p - 1 + w /\ n + p = u /\ v = u + w
      BY <1>3, <1>6, <2>1, <2>2
    <3> HIDE DEF p, q, u, v, w
    <3>2. n + 1 + q = v
      BY <3>1
    <3> QED BY <3>2 DEF q, v
  <2> QED BY <2>3 DEF Counted
<1> QED BY <1>14, <1>16, <1>17

(* There are as many found entries as positions at most, so that the queue *)
(* is empty when the steps are over.                                       *)
LEMMA FoundFits ==
    ASSUME Len(slots) \in Nat, NEW F \in SUBSET (Between \X Nat),
           \A f, g \in F : f[1] = g[1] => f = g
    PROVE  IsFiniteSet(F) /\ Cardinality(F) <= Len(slots)
<1> DEFINE first == [f \in F |-> f[1]]
<1>1. first \in Injection(F, Between)
  <2>1. first \in [F -> Between]
    OBVIOUS
  <2>2. \A f, g \in F : first[f] = first[g] => f = g
    OBVIOUS
  <2> HIDE DEF first
  <2> QED BY <2>1, <2>2 DEF Injection, IsInjective
<1>2. IsFiniteSet(Between) /\ Cardinality(Between) = Len(slots)
  <2>1. /\ IsFiniteSet(1..Len(slots))
        /\ Cardinality(1..Len(slots)) = IF 1 > Len(slots) THEN 0 ELSE Len(slots) - 1 + 1
    BY FS_Interval
  <2> QED BY <2>1 DEF Between
<1> HIDE DEF first
<1> QED BY <1>1, <1>2, FS_Injection

(* The search finds what is within the limit, with the distances.          *)
LEMMA SearchFindsBall ==
    ASSUME Len(slots) \in Nat, NEW start \in Between, NEW limit \in Nat, NEW neighbors \in Neighbors,
           NEW b, IsBall(b, start, neighbors)
    PROVE  Search(start, {<<start, 0>>}, limit, neighbors) =
              {f \in Between \X (0..limit) : AtDistance(f, b)}
<1> DEFINE N == Len(slots) + 1
           Good(s, n) == FoundInv(s, start, limit, neighbors, b) /\ QueueInv(s, b) /\ Counted(s, n)
<1>1. PICK g : /\ IsRun(g, start, {<<start, 0>>}, limit, neighbors)
               /\ Search(start, {<<start, 0>>}, limit, neighbors) = g[Len(slots) + 1].found
  <2>1. {<<start, 0>>} \in SUBSET (Between \X Nat)
    OBVIOUS
  <2> QED BY <2>1, SearchRuns
<1> DEFINE S == {n \in Nat : n <= N => Good(g[n], n)}
<1>2. 0 \in S
  BY <1>1, SearchStarts DEF IsRun
<1>3. ASSUME NEW n \in Nat, n \in S PROVE n + 1 \in S
  <2> SUFFICES ASSUME n + 1 <= N PROVE Good(g[n + 1], n + 1)
    OBVIOUS
  <2>1. n + 1 \in 1..N /\ (n + 1) - 1 = n /\ Good(g[n], n)
    BY <1>3
  <2>2. g[n + 1] = SearchStep(g[n], limit, neighbors)
    BY <1>1, <2>1 DEF IsRun
  <2>3. CASE g[n].queue = <<>>
    <3>1. g[n + 1] = g[n]
      BY <2>2, <2>3 DEF SearchStep
    <3>2. Counted(g[n + 1], n + 1)
      BY <2>3, <3>1 DEF Counted
    <3> QED BY <2>1, <3>1, <3>2
  <2>4. CASE g[n].queue # <<>>
    <3>1. g[n + 1] = Pop(g[n], limit, neighbors)
      BY <2>2, <2>4 DEF SearchStep
    <3> QED BY <2>1, <2>4, <3>1, SearchGoesOn
  <2> QED BY <2>3, <2>4
<1> DEFINE s == g[N]
<1>4. Good(s, N)
  <2> HIDE DEF S
  <2>1. N \in S
    BY <1>2, <1>3, SetInduction
  <2> QED BY <2>1 DEF S
<1> HIDE DEF S, s
<1>5. /\ s \in SearchStates /\ s.found \in SUBSET (Between \X Nat)
      /\ <<start, 0>> \in s.found
      /\ \A f \in s.found : /\ f \in Between \X Nat /\ f[2] \in Nat /\ f[2] <= limit
                            /\ AtDistance(f, b)
  <2>1. s \in SearchStates /\ <<start, 0>> \in s.found
    BY <1>4 DEF FoundInv
  <2>2. s.found \in SUBSET (Between \X Nat)
    BY <2>1, QueueTyped
  <2>3. \A f \in s.found : f[2] <= limit /\ AtDistance(f, b)
    BY <1>4 DEF FoundInv
  <2> QED BY <2>1, <2>2, <2>3
<1>6. s.queue = <<>>
  <2> SUFFICES ASSUME s.queue # <<>> PROVE FALSE
    OBVIOUS
  <2>1. \A f, h \in s.found : f[1] = h[1] => f = h
    BY <1>5, OneEach
  <2>2. Cardinality(s.found) <= Len(slots) /\ Cardinality(s.found) \in Nat
    BY <1>5, <2>1, FoundFits, FS_CardinalityType
  <2>3. N + Len(s.queue) = Cardinality(s.found) /\ Len(s.queue) \in Nat
    BY <1>4, <1>5, QueueTyped DEF Counted
  <2> DEFINE p == Len(s.queue)
             u == Cardinality(s.found)
             l == Len(slots)
  <2>4. p \in Nat /\ u \in Nat /\ l \in Nat /\ u <= l /\ l + 1 + p = u
    BY <2>2, <2>3
  <2> HIDE DEF p, u, l
  <2> QED BY <2>4
<1>7. \A f \in s.found : f[2] >= limit \/ neighbors[f[1]] \subseteq Positions(s.found)
  <2>1. \A f : ~InQueue(f, s)
    <3>1. Len(s.queue) = 0
      BY <1>6
    <3> QED BY <3>1 DEF InQueue
  <2> QED BY <1>4, <2>1 DEF FoundInv
<1> DEFINE T == {e \in Nat : e <= limit => b[e] \subseteq Positions(s.found)}
<1>8. 0 \in T
  <2>1. b[0] = {start}
    BY DEF IsBall
  <2> QED BY <1>5, <2>1 DEF Positions
<1>9. ASSUME NEW e \in Nat, e \in T PROVE e + 1 \in T
  <2> SUFFICES ASSUME e + 1 <= limit, NEW j \in b[e + 1] PROVE j \in Positions(s.found)
    OBVIOUS
  <2>1. b[e] \subseteq Positions(s.found)
    BY <1>9
  <2>2. ASSUME NEW l \in b[e], j \in neighbors[l] PROVE j \in Positions(s.found)
    <3>1. PICK f \in s.found : f[1] = l
      BY <2>1 DEF Positions
    <3>2. f[2] <= e
      BY <1>5, <3>1, DistanceIsLeast
    <3>3. ~(f[2] >= limit)
      BY <1>5, <3>2
    <3> QED BY <1>7, <2>2, <3>1, <3>3
  <2> QED BY <2>1, <2>2 DEF IsBall
<1>10. \A e \in 0..limit : b[e] \subseteq Positions(s.found)
  <2> HIDE DEF T
  <2>1. Nat \subseteq T
    BY <1>8, <1>9, SetInduction
  <2> QED BY <2>1 DEF T
<1>11. \A f \in s.found : f \in Between \X (0..limit)
  <2> TAKE f \in s.found
  <2>1. f = <<f[1], f[2]>> /\ f[1] \in Between /\ f[2] \in 0..limit
    BY <1>5
  <2> QED BY <2>1
<1>12. ASSUME NEW f \in Between \X (0..limit), AtDistance(f, b) PROVE f \in s.found
  <2>1. f \in Between \X Nat /\ f[2] \in 0..limit /\ f[1] \in b[f[2]]
    BY <1>12 DEF AtDistance
  <2>2. PICK h \in s.found : h[1] = f[1]
    BY <1>10, <2>1 DEF Positions
  <2>3. h = f
    BY <1>5, <1>12, <2>1, <2>2, OneEach
  <2> QED BY <2>2, <2>3
<1>13. s.found = {f \in Between \X (0..limit) : AtDistance(f, b)}
  BY <1>5, <1>11, <1>12
<1> QED BY <1>1, <1>13 DEF s

-----------------------------------------------------------------------------
(* The answers, if the views agree.                                        *)

LEMMA PositionsRight ==
    ASSUME GraphInv
    PROVE  /\ Len(slots) \in Nat /\ nodes \subseteq Ids
           /\ \A n \in nodes : node_indices[n] \in Between /\ slots[node_indices[n]] = n
           /\ \A i \in Between : slots[i] \in nodes /\ node_indices[slots[i]] = i
           /\ \A e \in edges : /\ e \in Edge /\ e.from \in nodes /\ e.to \in nodes
                               /\ node_indices[e.from] \in Between
                               /\ node_indices[e.to] \in Between
<1>1. GraphTypeOK /\ PositionsAgree /\ (\A e \in edges : e.from \in nodes /\ e.to \in nodes)
  BY DEF GraphInv, ViewsAgree
<1>2. Len(slots) \in Nat /\ (\A i \in Between : slots[i] \in Ids) /\ nodes \subseteq Ids
      /\ edges \subseteq Edge
  BY <1>1, SlotsTyped DEF GraphTypeOK, Between
<1>3. \A n \in nodes : node_indices[n] \in Between /\ slots[node_indices[n]] = n
  BY <1>1, <1>2 DEF PositionsAgree, Between
<1>4. ASSUME NEW i \in Between PROVE slots[i] \in nodes /\ node_indices[slots[i]] = i
  <2>1. slots[i] \in Ids /\ node_indices[slots[i]] = i /\ i # 0
    BY <1>1, <1>2 DEF PositionsAgree, Between
  <2> QED BY <1>1, <2>1 DEF PositionsAgree
<1> QED BY <1>1, <1>2, <1>3, <1>4

(* The arcs are the edges.                                                 *)
LEMMA ArcsRight ==
    ASSUME GraphInv
    PROVE  /\ \A arc \in arcs : /\ arc.edge \in edges
                                /\ arc.a = node_indices[arc.edge.from]
                                /\ arc.b = node_indices[arc.edge.to]
           /\ \A e \in edges : \E arc \in arcs : /\ arc.edge = e
                                                 /\ arc.a = node_indices[e.from]
                                                 /\ arc.b = node_indices[e.to]
<1>1. arcs = {Arc(e, node_indices) : e \in edges}
  BY DEF GraphInv, ViewsAgree
<1>2. \A e \in edges : LET x == Arc(e, node_indices)
                       IN  x.edge = e /\ x.a = node_indices[e.from] /\ x.b = node_indices[e.to]
  BY DEF Arc
<1>3. ASSUME NEW arc \in arcs
      PROVE  arc.edge \in edges /\ arc.a = node_indices[arc.edge.from]
             /\ arc.b = node_indices[arc.edge.to]
  <2>1. PICK e \in edges : arc = Arc(e, node_indices)
    BY <1>1
  <2> QED BY <1>2, <2>1
<1>4. ASSUME NEW e \in edges
      PROVE  \E arc \in arcs : arc.edge = e /\ arc.a = node_indices[e.from]
                               /\ arc.b = node_indices[e.to]
  <2>1. Arc(e, node_indices) \in arcs
    BY <1>1
  <2> QED BY <1>2, <2>1
<1> QED BY <1>3, <1>4

(* There is an edge from m to n.                                           *)
Joined(m, n, relationships) ==
    \E e \in edges : e.from = m /\ e.to = n /\ e.relationship \in relationships

LEMMA OutgoingIs ==
    ASSUME GraphInv, NEW relationships, NEW i \in Between
    PROVE  /\ Outgoing(i, relationships) \subseteq Between
           /\ \A j \in Between : j \in Outgoing(i, relationships)
                                   <=> Joined(slots[i], slots[j], relationships)
<1>1. ASSUME NEW j \in Outgoing(i, relationships)
      PROVE  j \in Between /\ Joined(slots[i], slots[j], relationships)
  <2>1. PICK arc \in arcs : arc.a = i /\ arc.edge.relationship \in relationships /\ j = arc.b
    BY DEF Outgoing
  <2>2. /\ arc.edge \in edges /\ i = node_indices[arc.edge.from]
        /\ j = node_indices[arc.edge.to]
    BY <2>1, ArcsRight
  <2>3. j \in Between /\ slots[i] = arc.edge.from /\ slots[j] = arc.edge.to
    BY <2>2, PositionsRight
  <2> QED BY <2>1, <2>2, <2>3 DEF Joined
<1>2. ASSUME NEW j \in Between, Joined(slots[i], slots[j], relationships)
      PROVE  j \in Outgoing(i, relationships)
  <2>1. PICK e \in edges : e.from = slots[i] /\ e.to = slots[j] /\ e.relationship \in relationships
    BY <1>2 DEF Joined
  <2>2. PICK arc \in arcs : arc.edge = e /\ arc.a = node_indices[e.from] /\ arc.b = node_indices[e.to]
    BY ArcsRight
  <2>3. arc.a = i /\ arc.b = j
    BY <2>1, <2>2, PositionsRight
  <2> QED BY <2>1, <2>2, <2>3 DEF Outgoing
<1> QED BY <1>1, <1>2

LEMMA IncomingIs ==
    ASSUME GraphInv, NEW relationships, NEW i \in Between
    PROVE  /\ Incoming(i, relationships) \subseteq Between
           /\ \A j \in Between : j \in Incoming(i, relationships)
                                   <=> Joined(slots[j], slots[i], relationships)
<1>1. ASSUME NEW j \in Incoming(i, relationships)
      PROVE  j \in Between /\ Joined(slots[j], slots[i], relationships)
  <2>1. PICK arc \in arcs : arc.b = i /\ arc.edge.relationship \in relationships /\ j = arc.a
    BY DEF Incoming
  <2>2. /\ arc.edge \in edges /\ j = node_indices[arc.edge.from]
        /\ i = node_indices[arc.edge.to]
    BY <2>1, ArcsRight
  <2>3. j \in Between /\ slots[j] = arc.edge.from /\ slots[i] = arc.edge.to
    BY <2>2, PositionsRight
  <2> QED BY <2>1, <2>2, <2>3 DEF Joined
<1>2. ASSUME NEW j \in Between, Joined(slots[j], slots[i], relationships)
      PROVE  j \in Incoming(i, relationships)
  <2>1. PICK e \in edges : e.from = slots[j] /\ e.to = slots[i] /\ e.relationship \in relationships
    BY <1>2 DEF Joined
  <2>2. PICK arc \in arcs : arc.edge = e /\ arc.a = node_indices[e.from] /\ arc.b = node_indices[e.to]
    BY ArcsRight
  <2>3. arc.a = j /\ arc.b = i
    BY <2>1, <2>2, PositionsRight
  <2> QED BY <2>1, <2>2, <2>3 DEF Incoming
<1> QED BY <1>1, <1>2

LEMMA AdjacentIs ==
    ASSUME NEW m, NEW n, NEW relationships
    PROVE  Adjacent(m, n, relationships)
             <=> Joined(m, n, relationships) \/ Joined(n, m, relationships)
<1>1. ASSUME NEW e
      PROVE  {e.from, e.to} = {m, n} <=> (e.from = m /\ e.to = n) \/ (e.from = n /\ e.to = m)
  OBVIOUS
<1> QED BY <1>1 DEF Adjacent, Joined

(* What is read off the list of edges.                                     *)
LEMMA RelatedIs ==
    ASSUME GraphInv, NEW id \in nodes, NEW relationships
    PROVE  /\ RelatedTo(id, relationships) = {n \in nodes : Joined(n, id, relationships)}
           /\ RelatedFrom(id, relationships) = {n \in nodes : Joined(id, n, relationships)}
<1> DEFINE i == node_indices[id]
<1>1. i \in Between /\ slots[i] = id
  BY PositionsRight
<1> HIDE DEF i
<1>2. {slots[j] : j \in Incoming(i, relationships)} = {n \in nodes : Joined(n, id, relationships)}
  <2>1. ASSUME NEW j \in Incoming(i, relationships)
        PROVE  slots[j] \in nodes /\ Joined(slots[j], id, relationships)
    BY <1>1, IncomingIs, PositionsRight
  <2>2. ASSUME NEW n \in nodes, Joined(n, id, relationships)
        PROVE  \E j \in Incoming(i, relationships) : slots[j] = n
    <3>1. node_indices[n] \in Between /\ slots[node_indices[n]] = n
      BY PositionsRight
    <3> QED BY <1>1, <2>2, <3>1, IncomingIs
  <2> QED BY <2>1, <2>2
<1>3. {slots[j] : j \in Outgoing(i, relationships)} = {n \in nodes : Joined(id, n, relationships)}
  <2>1. ASSUME NEW j \in Outgoing(i, relationships)
        PROVE  slots[j] \in nodes /\ Joined(id, slots[j], relationships)
    BY <1>1, OutgoingIs, PositionsRight
  <2>2. ASSUME NEW n \in nodes, Joined(id, n, relationships)
        PROVE  \E j \in Outgoing(i, relationships) : slots[j] = n
    <3>1. node_indices[n] \in Between /\ slots[node_indices[n]] = n
      BY PositionsRight
    <3> QED BY <1>1, <2>2, <3>1, OutgoingIs
  <2> QED BY <2>1, <2>2
<1> QED BY <1>2, <1>3 DEF RelatedTo, RelatedFrom, i

LEMMA OrphansCounted == ASSUME GraphInv PROVE Cardinality(Orphans) = OrphanCount
<1> DEFINE None(n) == Outgoing(node_indices[n], Relationships)
                         \cup Incoming(node_indices[n], Relationships) = {}
<1>1. ASSUME NEW n \in nodes
      PROVE  None(n) <=> \A e \in edges : e.from # n /\ e.to # n
  <2> DEFINE i == node_indices[n]
  <2>1. i \in Between /\ slots[i] = n
    BY PositionsRight
  <2>2. \A e \in edges : /\ e.relationship \in Relationships
                         /\ node_indices[e.from] \in Between /\ node_indices[e.to] \in Between
                         /\ slots[node_indices[e.from]] = e.from
                         /\ slots[node_indices[e.to]] = e.to
    BY PositionsRight DEF Edge
  <2> HIDE DEF i
  <2>3. ASSUME None(n), NEW e \in edges PROVE e.from # n /\ e.to # n
    <3>1. CASE e.from = n
      <4>1. node_indices[e.to] \in Outgoing(i, Relationships)
        BY <2>1, <2>2, <3>1, OutgoingIs DEF Joined
      <4> QED BY <2>3, <4>1 DEF i
    <3>2. CASE e.to = n
      <4>1. node_indices[e.from] \in Incoming(i, Relationships)
        BY <2>1, <2>2, <3>2, IncomingIs DEF Joined
      <4> QED BY <2>3, <4>1 DEF i
    <3> QED BY <3>1, <3>2
  <2>4. ASSUME \A e \in edges : e.from # n /\ e.to # n PROVE None(n)
    <3>1. ASSUME NEW j \in Outgoing(i, Relationships) PROVE FALSE
      BY <2>1, <2>4, <3>1, OutgoingIs DEF Joined
    <3>2. ASSUME NEW j \in Incoming(i, Relationships) PROVE FALSE
      BY <2>1, <2>4, <3>2, IncomingIs DEF Joined
    <3> QED BY <3>1, <3>2 DEF i
  <2> QED BY <2>3, <2>4
<1>2. Orphans = {n \in nodes : \A e \in edges : e.from # n /\ e.to # n}
  BY <1>1 DEF Orphans
<1> QED BY <1>2 DEF OrphanCount

LEMMA AsManyPositions ==
    ASSUME GraphInv
    PROVE  /\ IsFiniteSet(Between) /\ Cardinality(Between) = Len(slots)
           /\ IsFiniteSet(nodes) /\ Cardinality(nodes) = Len(slots)
<1> DEFINE at == [i \in Between |-> slots[i]]
<1>1. at \in Bijection(Between, nodes)
  <2>1. at \in [Between -> nodes] /\ \A i, j \in Between : at[i] = at[j] => i = j
    BY PositionsRight
  <2>2. \A n \in nodes : \E i \in Between : at[i] = n
    BY PositionsRight
  <2> HIDE DEF at
  <2> QED BY <2>1, <2>2 DEF Bijection, Injection, Surjection, IsInjective
<1>2. IsFiniteSet(Between) /\ Cardinality(Between) = Len(slots)
  <2>1. Len(slots) \in Nat
    BY PositionsRight
  <2>2. /\ IsFiniteSet(1..Len(slots))
        /\ Cardinality(1..Len(slots)) = IF 1 > Len(slots) THEN 0 ELSE Len(slots) - 1 + 1
    BY <2>1, FS_Interval
  <2> QED BY <2>1, <2>2 DEF Between
<1>3. ExistsBijection(Between, nodes)
  BY <1>1 DEF ExistsBijection
<1> QED BY <1>2, <1>3, FS_Bijection

(* A toposort of all positions is an order of all nodes along the          *)
(* prerequisites.                                                          *)
LEMMA ToposortOrdersNodes ==
    ASSUME GraphInv, NEW order \in Toposorts
    PROVE  ~PrerequisiteCycle
<1> DEFINE N == Len(slots)
           inNodes == [k \in 1..N |-> slots[order[k]]]
<1>1. /\ order \in [1..N -> Between] /\ \A i \in Between : \E k \in 1..N : order[k] = i
      /\ \A j, k \in 1..N : (\E arc \in arcs : arc.a = order[j] /\ arc.b = order[k]) => j < k
  <2>1. order \in Linear(Between)
        /\ \A j, k \in DOMAIN order :
              (\E arc \in arcs : arc.a = order[j] /\ arc.b = order[k]) => j < k
    BY DEF Toposorts
  <2>2. Cardinality(Between) = N
    BY AsManyPositions
  <2>3. order \in [1..N -> Between] /\ \A i \in Between : \E k \in DOMAIN order : order[k] = i
    BY <2>1, <2>2 DEF Linear
  <2> QED BY <2>1, <2>3
<1>2. inNodes \in Linear(nodes)
  <2>1. inNodes \in [1..N -> nodes]
    BY <1>1, PositionsRight
  <2>2. ASSUME NEW n \in nodes PROVE \E k \in 1..N : inNodes[k] = n
    <3>1. node_indices[n] \in Between /\ slots[node_indices[n]] = n
      BY PositionsRight
    <3>2. PICK k \in 1..N : order[k] = node_indices[n]
      BY <1>1, <3>1
    <3> QED BY <3>1, <3>2
  <2>3. Cardinality(nodes) = N /\ DOMAIN inNodes = 1..N
    BY AsManyPositions
  <2> HIDE DEF inNodes
  <2> QED BY <2>1, <2>2, <2>3 DEF Linear
<1>3. ASSUME NEW j \in 1..N, NEW k \in 1..N, PrerequisiteEdge(inNodes[j], inNodes[k]) PROVE j < k
  <2>1. PICK e \in edges : e.from = slots[order[j]] /\ e.to = slots[order[k]]
    BY <1>3 DEF PrerequisiteEdge
  <2>2. PICK arc \in arcs : arc.a = node_indices[e.from] /\ arc.b = node_indices[e.to]
    BY ArcsRight
  <2>3. arc.a = order[j] /\ arc.b = order[k]
    BY <1>1, <2>1, <2>2, PositionsRight
  <2> QED BY <1>1, <2>3
<1>4. DOMAIN inNodes = 1..N
  OBVIOUS
<1> HIDE DEF inNodes
<1> QED BY <1>2, <1>3, <1>4 DEF PrerequisiteCycle

LEMMA ListsAgree == ASSUME GraphInv PROVE ListAnswersAgree
<1>1. ASSUME NEW id \in nodes
      PROVE  /\ ConceptSources(id) = RelatedTo(id, {"introduces", "covers"})
             /\ ConceptVariants(id) = RelatedTo(id, {"variant_of"})
             /\ SourceCoverage(id) = RelatedFrom(id, {"introduces", "covers"})
  <2>1. ConceptSources(id) = {n \in nodes : Joined(n, id, {"introduces", "covers"})}
    BY DEF ConceptSources, Joined
  <2>2. ConceptVariants(id) = {n \in nodes : Joined(n, id, {"variant_of"})}
    BY DEF ConceptVariants, Joined
  <2>3. SourceCoverage(id) = {n \in nodes : Joined(id, n, {"introduces", "covers"})}
    BY DEF SourceCoverage, Joined
  <2> QED BY <2>1, <2>2, <2>3, RelatedIs
<1>2. PrerequisiteCycle => Toposorts = {}
  BY ToposortOrdersNodes
<1> QED BY <1>1, <1>2, OrphansCounted DEF ListAnswersAgree, HasCycles

(* The balls, one step after the other.                                    *)
Around(S, relationships) ==
    {n \in nodes : \E m \in S : n = m \/ Adjacent(m, n, relationships)}

AreBalls(f, d, center, relationships) ==
    f[0] = {center} /\ \A k \in 1..d : f[k] = Around(f[k - 1], relationships)

LEMMA BallExists ==
    ASSUME NEW center \in nodes, NEW relationships, NEW d \in Nat
    PROVE  \E f : AreBalls(f, d, center, relationships) /\ Ball(center, d, relationships) = f[d]
<1> DEFINE step == [k \in 1..d |-> [S \in SUBSET nodes |-> Around(S, relationships)]]
           ball == CHOOSE f : f = [k \in 0..d |->
                      IF k = 0 THEN {center}
                      ELSE {n \in nodes : \E m \in f[k - 1] : n = m \/ Adjacent(m, n, relationships)}]
<1>1. step \in [1..d -> [SUBSET nodes -> SUBSET nodes]] /\ {center} \in SUBSET nodes
  BY DEF Around
<1>2. HasIteration(d, SUBSET nodes, {center}, step)
  <2> HIDE DEF step
  <2> QED BY <1>1, IterationExists
<1>3. PICK f \in [0..d -> SUBSET nodes] :
         f[0] = {center} /\ \A k \in 1..d : f[k] = step[k][f[k - 1]]
  <2> HIDE DEF step
  <2> QED BY <1>2 DEF HasIteration
<1>4. \A k \in 1..d : f[k] = Around(f[k - 1], relationships)
  <2> TAKE k \in 1..d
  <2>1. f[k - 1] \in SUBSET nodes
    OBVIOUS
  <2> QED BY <1>3, <2>1
<1>5. f = [k \in 0..d |->
              IF k = 0 THEN {center}
              ELSE {n \in nodes : \E m \in f[k - 1] : n = m \/ Adjacent(m, n, relationships)}]
  <2>1. \A k \in 0..d : k # 0 => k \in 1..d
    OBVIOUS
  <2>2. \A k \in 0..d :
           f[k] = IF k = 0 THEN {center}
                  ELSE {n \in nodes : \E m \in f[k - 1] : n = m \/ Adjacent(m, n, relationships)}
    BY <1>3, <1>4, <2>1 DEF Around
  <2> QED BY <2>2
<1>6. ball = [k \in 0..d |->
                 IF k = 0 THEN {center}
                 ELSE {n \in nodes : \E m \in ball[k - 1] : n = m \/ Adjacent(m, n, relationships)}]
  BY <1>5
<1>7. Ball(center, d, relationships) = ball[d]
  BY DEF Ball
<1> HIDE DEF ball
<1>8. AreBalls(ball, d, center, relationships)
  <2>1. 0 \in 0..d /\ \A k \in 1..d : k \in 0..d /\ k # 0
    OBVIOUS
  <2> QED BY <1>6, <2>1 DEF AreBalls, Around
<1> QED BY <1>7, <1>8

LEMMA BallSteps ==
    ASSUME NEW center \in nodes, NEW relationships
    PROVE  /\ Ball(center, 0, relationships) = {center}
           /\ \A d \in Nat : Ball(center, d + 1, relationships)
                               = Around(Ball(center, d, relationships), relationships)
<1>1. Ball(center, 0, relationships) = {center}
  <2>1. PICK f : AreBalls(f, 0, center, relationships) /\ Ball(center, 0, relationships) = f[0]
    BY BallExists
  <2> QED BY <2>1 DEF AreBalls
<1>2. ASSUME NEW d \in Nat
      PROVE  Ball(center, d + 1, relationships)
               = Around(Ball(center, d, relationships), relationships)
  <2>1. PICK f : AreBalls(f, d, center, relationships) /\ Ball(center, d, relationships) = f[d]
    BY BallExists
  <2>2. PICK g : /\ AreBalls(g, d + 1, center, relationships)
                 /\ Ball(center, d + 1, relationships) = g[d + 1]
    BY BallExists
  <2>3. GoOnAlike(d, g, f)
    BY <2>1, <2>2 DEF GoOnAlike, AreBalls
  <2>4. g[d] = f[d]
    BY <2>3, IterationUnique
  <2>5. d + 1 \in 1..(d + 1) /\ (d + 1) - 1 = d
    OBVIOUS
  <2>6. g[d + 1] = Around(g[d], relationships)
    BY <2>2, <2>5 DEF AreBalls
  <2> QED BY <2>1, <2>2, <2>4, <2>6
<1> QED BY <1>1, <1>2

LEMMA NeighborhoodsRight == ASSUME GraphInv PROVE NeighborhoodIsRight
<1> SUFFICES ASSUME NEW center \in nodes, NEW radius \in 0..(MaxDepth + 1),
                    NEW relationships \in Filters
             PROVE  Neighborhood(center, radius, relationships) =
                      {p \in nodes \X (0..Capped(radius)) :
                         /\ p[1] \in Ball(center, p[2], relationships)
                         /\ p[2] > 0 => p[1] \notin Ball(center, p[2] - 1, relationships)}
  BY DEF NeighborhoodIsRight
<1> DEFINE start == node_indices[center]
           limit == Capped(radius)
           neighbors == [i \in Between |-> Outgoing(i, relationships) \cup Incoming(i, relationships)]
           B(d) == Ball(center, d, relationships)
           b == [d \in Nat |-> {i \in Between : slots[i] \in B(d)}]
           found == Search(start, {<<start, 0>>}, limit, neighbors)
<1>1. /\ Len(slots) \in Nat /\ start \in Between /\ slots[start] = center
      /\ \A i \in Between : slots[i] \in nodes /\ node_indices[slots[i]] = i
      /\ \A n \in nodes : node_indices[n] \in Between /\ slots[node_indices[n]] = n
  BY PositionsRight
<1>2. limit \in Nat
  BY QueryAssumption DEF Capped
<1>3. neighbors \in Neighbors
  <2>1. \A i \in Between : Outgoing(i, relationships) \cup Incoming(i, relationships) \in SUBSET Between
    BY OutgoingIs, IncomingIs
  <2> QED BY <2>1 DEF Neighbors
<1>4. \A i, j \in Between : j \in neighbors[i] <=> Adjacent(slots[i], slots[j], relationships)
  BY OutgoingIs, IncomingIs, AdjacentIs
<1> HIDE DEF B, neighbors
<1>5. /\ B(0) = {center} /\ \A d \in Nat : B(d + 1) = Around(B(d), relationships)
  BY BallSteps DEF B
<1>6. \A d \in Nat : b[d] = {i \in Between : slots[i] \in B(d)}
  OBVIOUS
<1>7. IsBall(b, start, neighbors)
  <2>1. b \in [Nat -> SUBSET Between]
    OBVIOUS
  <2> HIDE DEF b
  <2>2. b[0] = {start}
    <3>1. b[0] = {i \in Between : slots[i] = center}
      BY <1>5, <1>6
    <3>2. \A i \in Between : slots[i] = center <=> i = start
      BY <1>1
    <3> HIDE DEF start
    <3> QED BY <1>1, <3>1, <3>2
  <2>3. ASSUME NEW d \in Nat
        PROVE  b[d + 1] = {j \in Between : j \in b[d] \/ \E i \in b[d] : j \in neighbors[i]}
    <3>1. ASSUME NEW j \in Between
          PROVE  slots[j] \in Around(B(d), relationships)
                   <=> j \in b[d] \/ \E i \in b[d] : j \in neighbors[i]
      <4>1. ASSUME slots[j] \in Around(B(d), relationships)
            PROVE  j \in b[d] \/ \E i \in b[d] : j \in neighbors[i]
        <5>1. PICK m \in B(d) : slots[j] = m \/ Adjacent(m, slots[j], relationships)
          BY <4>1 DEF Around
        <5>2. CASE slots[j] = m
          BY <1>6, <5>1, <5>2
        <5>3. CASE slots[j] # m
          <6>1. m \in nodes
            <7>1. CASE d = 0
              BY <1>5, <5>1, <7>1
            <7>2. CASE d # 0
              <8>1. d - 1 \in Nat /\ (d - 1) + 1 = d
                BY <7>2
              <8>2. B(d) = Around(B(d - 1), relationships)
                BY <1>5, <8>1
              <8> QED BY <5>1, <8>2 DEF Around
            <7> QED BY <7>1, <7>2
          <6>2. node_indices[m] \in Between /\ slots[node_indices[m]] = m
            BY <1>1, <6>1
          <6>3. node_indices[m] \in b[d] /\ j \in neighbors[node_indices[m]]
            BY <1>4, <1>6, <5>1, <5>3, <6>2
          <6> QED BY <6>3
        <5> QED BY <5>2, <5>3
      <4>2. ASSUME j \in b[d] \/ \E i \in b[d] : j \in neighbors[i]
            PROVE  slots[j] \in Around(B(d), relationships)
        <5>1. CASE j \in b[d]
          BY <1>1, <1>6, <5>1 DEF Around
        <5>2. ASSUME NEW i \in b[d], j \in neighbors[i]
              PROVE  slots[j] \in Around(B(d), relationships)
          <6>1. i \in Between /\ slots[i] \in B(d)
            BY <1>6
          <6>2. Adjacent(slots[i], slots[j], relationships)
            BY <1>4, <5>2, <6>1
          <6> QED BY <1>1, <6>1, <6>2 DEF Around
        <5> QED BY <4>2, <5>1, <5>2
      <4> QED BY <4>1, <4>2
    <3>2. b[d + 1] = {j \in Between : slots[j] \in Around(B(d), relationships)}
      <4>1. d + 1 \in Nat
        OBVIOUS
      <4> QED BY <1>5, <1>6, <4>1
    <3> QED BY <3>1, <3>2
  <2> QED BY <2>1, <2>2, <2>3 DEF IsBall
<1>8. found = {f \in Between \X (0..limit) : AtDistance(f, b)}
  <2> HIDE DEF b, start, limit
  <2> QED BY <1>1, <1>2, <1>3, <1>7, SearchFindsBall
<1>9. Neighborhood(center, radius, relationships) = {<<slots[f[1]], f[2]>> : f \in found}
  BY DEF Neighborhood, neighbors
<1> HIDE DEF b, found, start, limit
<1> DEFINE right == {p \in nodes \X (0..limit) :
                       p[1] \in B(p[2]) /\ (p[2] > 0 => p[1] \notin B(p[2] - 1))}
<1>10. ASSUME NEW i \in Between, NEW d \in 0..limit
       PROVE  AtDistance(<<i, d>>, b)
                <=> slots[i] \in B(d) /\ (d > 0 => slots[i] \notin B(d - 1))
  <2>1. d \in Nat /\ (d > 0 => d - 1 \in Nat)
    BY <1>2
  <2>2. i \in b[d] <=> slots[i] \in B(d)
    BY <1>6, <2>1
  <2>3. d > 0 => (i \in b[d - 1] <=> slots[i] \in B(d - 1))
    BY <1>6, <2>1
  <2> QED BY <2>2, <2>3 DEF AtDistance
<1>11. ASSUME NEW f \in found PROVE <<slots[f[1]], f[2]>> \in right
  <2>1. f = <<f[1], f[2]>> /\ f[1] \in Between /\ f[2] \in 0..limit /\ AtDistance(f, b)
    BY <1>8
  <2>2. /\ slots[f[1]] \in B(f[2]) /\ (f[2] > 0 => slots[f[1]] \notin B(f[2] - 1))
        /\ slots[f[1]] \in nodes
    BY <1>1, <1>10, <2>1
  <2> QED BY <2>1, <2>2
<1>12. ASSUME NEW p \in right PROVE \E f \in found : p = <<slots[f[1]], f[2]>>
  <2>1. /\ p = <<p[1], p[2]>> /\ p[1] \in nodes /\ p[2] \in 0..limit
        /\ p[1] \in B(p[2]) /\ (p[2] > 0 => p[1] \notin B(p[2] - 1))
    OBVIOUS
  <2> DEFINE i == node_indices[p[1]]
  <2>2. i \in Between /\ slots[i] = p[1]
    BY <1>1, <2>1
  <2> HIDE DEF i
  <2>3. <<i, p[2]>> \in found
    BY <1>8, <1>10, <2>1, <2>2
  <2> QED BY <2>1, <2>2, <2>3
<1>13. {<<slots[f[1]], f[2]>> : f \in found} = right
  <2> HIDE DEF right
  <2>1. right \subseteq {<<slots[f[1]], f[2]>> : f \in found}
    BY <1>12
  <2> QED BY <1>11, <2>1
<1> QED BY <1>9, <1>13 DEF limit, B

(* Whatever was added, removed and loaded, a neighbourhood has the nodes   *)
(* within the radius with their distances, and what is read off the list   *)
(* of edges is what petgraph's arcs say (algorithms.rs:124-200).           *)
THEOREM AnswersRight == GraphSpec => []AnswersAreRight
<1>1. GraphInv => AnswersAreRight
  BY NeighborhoodsRight, ListsAgree DEF AnswersAreRight
<1> QED BY <1>1, GraphViewsAgree, PTL DEF GraphInv

-----------------------------------------------------------------------------
(* The search for prerequisites, without a limit that it reaches.          *)

(* What is found leads on to what is found, or waits in the queue.  The    *)
(* start is in the queue at first, and found only if a search leads back.  *)
ClosureInv(s, n, start, neighbors) ==
    /\ s \in SearchStates /\ IsFiniteSet(s.found)
    /\ \A f, g \in s.found : f[1] = g[1] => f = g
    /\ \A f \in s.found : InQueue(f, s) \/ neighbors[f[1]] \subseteq Positions(s.found)
    /\ InQueue(<<start, 0>>, s) \/ neighbors[start] \subseteq Positions(s.found)
    /\ \A k \in 1..Len(s.queue) :
          /\ s.queue[k][2] <= n
          /\ s.queue[k][1] = start \/ s.queue[k][1] \in Positions(s.found)
    /\ s.queue # <<>> => n + Len(s.queue) = 1 + Cardinality(s.found)

(* Nothing is found but what the start leads to.                           *)
LeadsInto(start, neighbors, T) ==
    neighbors[start] \subseteq T /\ \A i \in T : neighbors[i] \subseteq T

LEMMA ClosureStarts ==
    ASSUME Len(slots) \in Nat, NEW start \in Between, NEW neighbors,
           NEW s, s = [queue |-> <<<<start, 0>>>>, found |-> {}]
    PROVE  ClosureInv(s, 0, start, neighbors) /\ Positions(s.found) = {}
<1> DEFINE h == <<start, 0>>
<1>1. s.queue = <<h>> /\ s.found = {} /\ h \in Between \X Nat /\ h[1] = start /\ h[2] = 0
  OBVIOUS
<1> HIDE DEF h
<1>2. Len(s.queue) = 1 /\ s.queue[1] = h /\ \A k \in 1..Len(s.queue) : k = 1
  BY <1>1
<1>3. IsFiniteSet(s.found) /\ Cardinality(s.found) = 0
  BY <1>1, FS_EmptySet
<1>4. s \in SearchStates
  BY <1>1 DEF SearchStates, h
<1>5. InQueue(h, s)
  BY <1>2 DEF InQueue
<1>6. Positions(s.found) = {}
  BY <1>1 DEF Positions
<1>7. \A k \in 1..Len(s.queue) : s.queue[k][2] <= 0 /\ s.queue[k][1] = start
  BY <1>1, <1>2
<1>8. 0 + Len(s.queue) = 1 + Cardinality(s.found)
  BY <1>2, <1>3
<1> QED BY <1>1, <1>3, <1>4, <1>5, <1>6, <1>7, <1>8 DEF ClosureInv, h

LEMMA ClosureGoesOn ==
    ASSUME Len(slots) \in Nat, NEW start \in Between, NEW neighbors \in Neighbors,
           NEW limit \in Nat, NEW s, NEW n \in Nat, n < limit,
           ClosureInv(s, n, start, neighbors),
           s.queue # <<>>, NEW t, t = Pop(s, limit, neighbors)
    PROVE  /\ ClosureInv(t, n + 1, start, neighbors)
           /\ \A T : LeadsInto(start, neighbors, T) /\ Positions(s.found) \subseteq T
                       => Positions(t.found) \subseteq T
<1> DEFINE h == s.queue[1]
           i == h[1]
           d == h[2]
           met == Met(s, limit, neighbors)
<1>1. s \in SearchStates /\ IsFiniteSet(s.found)
  BY DEF ClosureInv
<1>2. t \in SearchStates /\ Popped(s, t, met) /\ met \in SUBSET Between
  BY <1>1, PopIs
<1>3. /\ Len(s.queue) \in Nat /\ Len(s.queue) > 0 /\ 1 \in 1..Len(s.queue)
      /\ h \in Between \X Nat /\ i \in Between /\ d \in Nat /\ h = <<i, d>>
      /\ d <= n /\ (i = start \/ i \in Positions(s.found))
      /\ s.found \in SUBSET (Between \X Nat)
      /\ Len(t.queue) \in Nat /\ t.found \in SUBSET (Between \X Nat)
  <2>1. Len(s.queue) \in Nat /\ Len(s.queue) > 0 /\ 1 \in 1..Len(s.queue)
    BY <1>1, QueueTyped
  <2>2. h \in Between \X Nat /\ d <= n /\ (i = start \/ i \in Positions(s.found))
    BY <1>1, <2>1, QueueTyped DEF ClosureInv
  <2>3. i \in Between /\ d \in Nat /\ h = <<i, d>>
    BY <2>2
  <2> HIDE DEF h, i, d, met
  <2> QED BY <1>1, <1>2, <2>1, <2>2, <2>3, QueueTyped
<1>4. met = neighbors[i] \ Positions(s.found)
  <2>1. ~(d >= limit)
    BY <1>3
  <2> QED BY <2>1 DEF Met
<1>5. /\ IsFiniteSet(met) /\ Cardinality(met) \in Nat
      /\ t.found = s.found \cup {<<x, d + 1>> : x \in met}
      /\ Len(t.queue) = Len(s.queue) - 1 + Cardinality(met)
      /\ \A k \in 1..(Len(s.queue) - 1) : t.queue[k] = s.queue[k + 1]
      /\ \A k \in Len(s.queue)..Len(t.queue) : \E x \in met : t.queue[k] = <<x, d + 1>>
      /\ \A x \in met : \E k \in Len(s.queue)..Len(t.queue) : t.queue[k] = <<x, d + 1>>
  BY <1>2 DEF Popped
<1> HIDE DEF h, i, d, met
<1>6. /\ \A f \in t.found : f \in s.found \/ \E x \in met : f = <<x, d + 1>>
      /\ \A x \in met : <<x, d + 1>> \in t.found /\ x \in Positions(t.found)
      /\ s.found \subseteq t.found /\ Positions(s.found) \subseteq Positions(t.found)
      /\ Positions(t.found) \subseteq Positions(s.found) \cup met
  <2>1. \A x \in met : <<x, d + 1>> \in t.found /\ <<x, d + 1>>[1] = x
    BY <1>5
  <2> QED BY <1>5, <2>1 DEF Positions
<1>7. t.found = With(s.found, met, d + 1) /\ Apart(s.found, met)
  BY <1>4, <1>5 DEF With, Apart
<1>8. neighbors[i] \subseteq Positions(t.found)
  BY <1>4, <1>6
<1>9. ASSUME NEW f, InQueue(f, s) PROVE InQueue(f, t) \/ f[1] = i
  <2>1. PICK k \in 1..Len(s.queue) : s.queue[k] = f
    BY <1>9 DEF InQueue
  <2>2. CASE k = 1
    BY <2>1, <2>2 DEF h, i
  <2>3. CASE k # 1
    <3>1. k - 1 \in 1..(Len(s.queue) - 1) /\ (k - 1) + 1 = k
      BY <1>3, <2>3
    <3>2. t.queue[k - 1] = f
      BY <1>5, <2>1, <3>1
    <3>3. k - 1 \in 1..Len(t.queue)
      BY <1>3, <1>5, <3>1
    <3> QED BY <3>2, <3>3 DEF InQueue
  <2> QED BY <2>2, <2>3
<1>10. \A f \in t.found : InQueue(f, t) \/ neighbors[f[1]] \subseteq Positions(t.found)
  <2> TAKE f \in t.found
  <2>1. CASE \E x \in met : f = <<x, d + 1>>
    <3>1. \E k \in Len(s.queue)..Len(t.queue) : t.queue[k] = f
      BY <1>5, <2>1
    <3>2. \A k \in Len(s.queue)..Len(t.queue) : k \in 1..Len(t.queue)
      BY <1>3
    <3> QED BY <3>1, <3>2 DEF InQueue
  <2>2. CASE f \in s.found
    <3>1. InQueue(f, s) \/ neighbors[f[1]] \subseteq Positions(s.found)
      BY <2>2 DEF ClosureInv
    <3> QED BY <1>6, <1>8, <1>9, <3>1
  <2> QED BY <1>6, <2>1, <2>2
<1>11. InQueue(<<start, 0>>, t) \/ neighbors[start] \subseteq Positions(t.found)
  <2>1. InQueue(<<start, 0>>, s) \/ neighbors[start] \subseteq Positions(s.found)
    BY DEF ClosureInv
  <2>2. <<start, 0>>[1] = start
    OBVIOUS
  <2>3. CASE InQueue(<<start, 0>>, s)
    <3>1. InQueue(<<start, 0>>, t) \/ start = i
      BY <1>9, <2>2, <2>3
    <3> QED BY <1>8, <3>1
  <2>4. CASE ~InQueue(<<start, 0>>, s)
    BY <1>6, <2>1, <2>4
  <2> QED BY <2>3, <2>4
<1>12. \A f, g \in t.found : f[1] = g[1] => f = g
  <2> TAKE f, g \in t.found
  <2>1. CASE f \in s.found /\ g \in s.found
    BY <2>1 DEF ClosureInv
  <2>2. CASE f \in s.found /\ \E x \in met : g = <<x, d + 1>>
    BY <1>4, <2>2 DEF Positions
  <2>3. CASE g \in s.found /\ \E x \in met : f = <<x, d + 1>>
    BY <1>4, <2>3 DEF Positions
  <2>4. CASE (\E x \in met : f = <<x, d + 1>>) /\ \E x \in met : g = <<x, d + 1>>
    BY <2>4
  <2> QED BY <1>6, <2>1, <2>2, <2>3, <2>4
<1>13. \A k \in 1..Len(t.queue) :
          /\ t.queue[k][2] <= n + 1
          /\ t.queue[k][1] = start \/ t.queue[k][1] \in Positions(t.found)
  <2> TAKE k \in 1..Len(t.queue)
  <2>1. CASE k \in 1..(Len(s.queue) - 1)
    <3>1. k + 1 \in 1..Len(s.queue) /\ t.queue[k] = s.queue[k + 1]
      BY <1>3, <1>5, <2>1
    <3>2. /\ s.queue[k + 1][2] <= n
          /\ s.queue[k + 1][1] = start \/ s.queue[k + 1][1] \in Positions(s.found)
      BY <3>1 DEF ClosureInv
    <3>3. s.queue[k + 1][2] \in Nat
      BY <1>1, <3>1, QueueTyped
    <3>4. s.queue[k + 1][2] <= n + 1
      BY <3>2, <3>3
    <3> QED BY <1>6, <3>1, <3>2, <3>4
  <2>2. CASE k \in Len(s.queue)..Len(t.queue)
    <3>1. PICK x \in met : t.queue[k] = <<x, d + 1>>
      BY <1>5, <2>2
    <3>2. t.queue[k][1] = x /\ t.queue[k][2] = d + 1
      BY <3>1
    <3>4. x \in Positions(t.found)
      BY <1>6
    <3>3. d + 1 <= n + 1
      BY <1>3
    <3> QED BY <3>2, <3>3, <3>4
  <2> QED BY <1>3, <2>1, <2>2
<1>14. ASSUME t.queue # <<>> PROVE (n + 1) + Len(t.queue) = 1 + Cardinality(t.found)
  <2>1. n + Len(s.queue) = 1 + Cardinality(s.found) /\ Cardinality(s.found) \in Nat
    BY <1>1, FS_CardinalityType DEF ClosureInv
  <2>2. Cardinality(With(s.found, met, d + 1)) = Cardinality(s.found) + Cardinality(met)
    BY <1>1, <1>5, <1>7, FreshCount
  <2> DEFINE p == Len(s.queue)
             q == Len(t.queue)
             u == Cardinality(s.found)
             v == Cardinality(t.found)
             w == Cardinality(met)
  <2>3. p \in Nat /\ q \in Nat /\ w \in Nat /\ u \in Nat
        /\ q = p - 1 + w /\ n + p = 1 + u /\ v = u + w
    BY <1>3, <1>5, <1>7, <2>1, <2>2
  <2> HIDE DEF p, q, u, v, w
  <2>4. (n + 1) + q = 1 + v
    BY <2>3
  <2> QED BY <2>4 DEF q, v
<1>15. IsFiniteSet(t.found)
  <2>1. IsFiniteSet(With(s.found, met, d + 1))
    BY <1>1, <1>5, <1>7, FreshCount
  <2> QED BY <1>7, <2>1
<1>16. ClosureInv(t, n + 1, start, neighbors)
  BY <1>2, <1>10, <1>11, <1>12, <1>13, <1>14, <1>15 DEF ClosureInv
<1>17. ASSUME NEW T, LeadsInto(start, neighbors, T), Positions(s.found) \subseteq T
       PROVE  Positions(t.found) \subseteq T
  <2>1. neighbors[i] \subseteq T
    BY <1>3, <1>17 DEF LeadsInto
  <2> QED BY <1>4, <1>6, <1>17, <2>1
<1> QED BY <1>16, <1>17

(* What the start leads to is found, and nothing else.                     *)
LEMMA SearchFindsClosure ==
    ASSUME Len(slots) \in Nat, NEW start \in Between, NEW neighbors \in Neighbors,
           NEW found, found = Positions(Search(start, {}, Len(slots) + 1, neighbors))
    PROVE  /\ found \subseteq Between /\ LeadsInto(start, neighbors, found)
           /\ \A T : LeadsInto(start, neighbors, T) => found \subseteq T
<1> DEFINE N == Len(slots) + 1
           Good(s, n) ==
              /\ ClosureInv(s, n, start, neighbors)
              /\ \A T : LeadsInto(start, neighbors, T) => Positions(s.found) \subseteq T
<1>1. PICK g : /\ IsRun(g, start, {}, N, neighbors)
               /\ Search(start, {}, N, neighbors) = g[N].found
  BY SearchRuns
<1> DEFINE S == {n \in Nat : n <= N => Good(g[n], n)}
<1>2. 0 \in S
  <2>1. g[0] = [queue |-> <<<<start, 0>>>>, found |-> {}]
    BY <1>1 DEF IsRun
  <2> QED BY <2>1, ClosureStarts
<1>3. ASSUME NEW n \in Nat, n \in S PROVE n + 1 \in S
  <2> SUFFICES ASSUME n + 1 <= N PROVE Good(g[n + 1], n + 1)
    OBVIOUS
  <2>1. n + 1 \in 1..N /\ (n + 1) - 1 = n /\ Good(g[n], n) /\ n < N
    BY <1>3
  <2>2. g[n + 1] = SearchStep(g[n], N, neighbors)
    BY <1>1, <2>1 DEF IsRun
  <2>3. CASE g[n].queue = <<>>
    <3>1. g[n + 1] = g[n]
      BY <2>2, <2>3 DEF SearchStep
    <3>2. ClosureInv(g[n], n + 1, start, neighbors)
      <4>1. Len(g[n].queue) = 0
        BY <2>3
      <4> QED BY <2>1, <2>3, <4>1 DEF ClosureInv
    <3> QED BY <2>1, <3>1, <3>2
  <2>4. CASE g[n].queue # <<>>
    <3>1. g[n + 1] = Pop(g[n], N, neighbors) /\ N \in Nat
      BY <2>2, <2>4 DEF SearchStep
    <3> HIDE DEF N
    <3> QED BY <2>1, <2>4, <3>1, ClosureGoesOn
  <2> QED BY <2>3, <2>4
<1> DEFINE s == g[N]
<1>4. Good(s, N)
  <2> HIDE DEF S
  <2>1. N \in S
    BY <1>2, <1>3, SetInduction
  <2> QED BY <2>1 DEF S
<1> HIDE DEF S, s
<1>5. s \in SearchStates /\ s.found \in SUBSET (Between \X Nat)
  BY <1>4, QueueTyped DEF ClosureInv
<1>6. s.queue = <<>>
  <2> SUFFICES ASSUME s.queue # <<>> PROVE FALSE
    OBVIOUS
  <2>1. \A f, h \in s.found : f[1] = h[1] => f = h
    BY <1>4 DEF ClosureInv
  <2>2. Cardinality(s.found) <= Len(slots) /\ Cardinality(s.found) \in Nat
    BY <1>5, <2>1, FoundFits, FS_CardinalityType
  <2>3. N + Len(s.queue) = 1 + Cardinality(s.found) /\ Len(s.queue) \in Nat /\ Len(s.queue) > 0
    BY <1>4, <1>5, QueueTyped DEF ClosureInv
  <2> DEFINE p == Len(s.queue)
             u == Cardinality(s.found)
             l == Len(slots)
  <2>4. p \in Nat /\ p > 0 /\ u \in Nat /\ l \in Nat /\ u <= l /\ l + 1 + p = 1 + u
    BY <2>2, <2>3
  <2> HIDE DEF p, u, l
  <2> QED BY <2>4
<1>7. \A f : ~InQueue(f, s)
  <2>1. Len(s.queue) = 0
    BY <1>6
  <2> QED BY <2>1 DEF InQueue
<1>8. found = Positions(s.found)
  BY <1>1 DEF s
<1>9. found \subseteq Between
  BY <1>5, <1>8 DEF Positions
<1>10. LeadsInto(start, neighbors, found)
  <2>1. neighbors[start] \subseteq found
    BY <1>4, <1>7, <1>8 DEF ClosureInv
  <2>2. ASSUME NEW i \in found PROVE neighbors[i] \subseteq found
    <3>1. PICK f \in s.found : f[1] = i
      BY <1>8 DEF Positions
    <3> QED BY <1>4, <1>7, <1>8, <3>1 DEF ClosureInv
  <2> QED BY <2>1, <2>2 DEF LeadsInto
<1> QED BY <1>4, <1>8, <1>9, <1>10

LEMMA PrerequisitesAre ==
    ASSUME GraphInv, NEW target \in nodes
    PROVE  \E found \in SUBSET Between :
              /\ Prerequisites(target) = {slots[i] : i \in found}
              /\ LeadsInto(node_indices[target],
                    [i \in Between |-> Incoming(i, {"prerequisite"})], found)
              /\ \A T : LeadsInto(node_indices[target],
                           [i \in Between |-> Incoming(i, {"prerequisite"})], T) => found \subseteq T
<1> DEFINE start == node_indices[target]
           neighbors == [i \in Between |-> Incoming(i, {"prerequisite"})]
           found == Positions(Search(start, {}, Len(slots) + 1, neighbors))
<1>1. Len(slots) \in Nat /\ start \in Between
  BY PositionsRight
<1>2. neighbors \in Neighbors
  <2>1. \A i \in Between : Incoming(i, {"prerequisite"}) \in SUBSET Between
    BY IncomingIs
  <2> QED BY <2>1 DEF Neighbors
<1>3. Prerequisites(target) = {slots[i] : i \in found}
  BY DEF Prerequisites, IdsOf
<1> HIDE DEF start, neighbors
<1>4. /\ found \subseteq Between /\ LeadsInto(start, neighbors, found)
      /\ \A T : LeadsInto(start, neighbors, T) => found \subseteq T
  <2>1. PICK P : P = found
    OBVIOUS
  <2>2. P = Positions(Search(start, {}, Len(slots) + 1, neighbors))
    BY <2>1
  <2> HIDE DEF found
  <2> QED BY <1>1, <1>2, <2>1, <2>2, SearchFindsClosure
<1> HIDE DEF found
<1> QED BY <1>3, <1>4 DEF start, neighbors

(* Whatever the target or one of its prerequisites has as a prerequisite   *)
(* is one, and there are no others in any set of which this is true.       *)
LEMMA PrerequisitesClosed ==
    ASSUME GraphInv, NEW target \in nodes
    PROVE  /\ Prerequisites(target) \subseteq nodes
           /\ \A m \in nodes, n \in Prerequisites(target) \cup {target} :
                 PrerequisiteEdge(m, n) => m \in Prerequisites(target)
           /\ \A T \in SUBSET nodes :
                 (\A m \in nodes, n \in T \cup {target} : PrerequisiteEdge(m, n) => m \in T)
                    => Prerequisites(target) \subseteq T
<1> DEFINE start == node_indices[target]
           neighbors == [i \in Between |-> Incoming(i, {"prerequisite"})]
<1>1. PICK found \in SUBSET Between :
              /\ Prerequisites(target) = {slots[i] : i \in found}
              /\ LeadsInto(start, neighbors, found)
              /\ \A T : LeadsInto(start, neighbors, T) => found \subseteq T
  BY PrerequisitesAre
<1>2. /\ start \in Between /\ slots[start] = target
      /\ \A i \in Between : slots[i] \in nodes /\ node_indices[slots[i]] = i
      /\ \A n \in nodes : node_indices[n] \in Between /\ slots[node_indices[n]] = n
  BY PositionsRight
<1>3. \A m, n : PrerequisiteEdge(m, n) <=> Joined(m, n, {"prerequisite"})
  BY DEF PrerequisiteEdge, Joined
<1>4. \A i, j \in Between : j \in neighbors[i] <=> PrerequisiteEdge(slots[j], slots[i])
  BY <1>3, IncomingIs
<1>5. \A i \in Between : neighbors[i] \subseteq Between
  BY IncomingIs
<1> HIDE DEF start, neighbors
<1>6. Prerequisites(target) \subseteq nodes
  BY <1>1, <1>2
<1>7. ASSUME NEW m \in nodes, NEW n \in Prerequisites(target) \cup {target}, PrerequisiteEdge(m, n)
      PROVE  m \in Prerequisites(target)
  <2>1. PICK i \in found \cup {start} : slots[i] = n
    BY <1>1, <1>2
  <2>2. i \in Between /\ node_indices[m] \in Between /\ slots[node_indices[m]] = m
    BY <1>2, <2>1
  <2>3. node_indices[m] \in neighbors[i]
    BY <1>4, <1>7, <2>1, <2>2
  <2>4. node_indices[m] \in found
    BY <1>1, <2>1, <2>3 DEF LeadsInto
  <2> QED BY <1>1, <2>2, <2>4
<1>8. ASSUME NEW T \in SUBSET nodes,
             \A m \in nodes, n \in T \cup {target} : PrerequisiteEdge(m, n) => m \in T
      PROVE  Prerequisites(target) \subseteq T
  <2> DEFINE P == {i \in Between : slots[i] \in T}
  <2>1. ASSUME NEW i \in Between, slots[i] \in T \cup {target} PROVE neighbors[i] \subseteq P
    <3> SUFFICES ASSUME NEW j \in neighbors[i] PROVE j \in P
      OBVIOUS
    <3>1. j \in Between /\ PrerequisiteEdge(slots[j], slots[i]) /\ slots[j] \in nodes
      BY <1>2, <1>4, <1>5
    <3> QED BY <1>8, <2>1, <3>1
  <2>2. LeadsInto(start, neighbors, P)
    BY <1>2, <2>1 DEF LeadsInto
  <2>3. found \subseteq P
    BY <1>1, <2>2
  <2> QED BY <1>1, <2>3
<1> QED BY <1>6, <1>7, <1>8

-----------------------------------------------------------------------------
(* Learning paths.                                                         *)

(* f lists V from the smallest to the largest.                             *)
Rising(f, V) ==
    /\ f \in [1..Cardinality(V) -> V]
    /\ \A x \in V : \E k \in 1..Cardinality(V) : f[k] = x
    /\ \A j, k \in 1..Cardinality(V) : f[j] < f[k] => j < k

LEMMA RisingExists ==
    ASSUME NEW N \in Nat, NEW V \in SUBSET (1..N)
    PROVE  IsFiniteSet(V) /\ Cardinality(V) \in Nat /\ \E f : Rising(f, V)
<1> DEFINE Low(n) == {x \in V : x <= n}
           Can(W) == IsFiniteSet(W) /\ Cardinality(W) \in Nat /\ \E f : Rising(f, W)
           S == {n \in Nat : Can(Low(n))}
<1>0. \A x \in V : x \in Nat /\ 0 < x /\ x <= N
  OBVIOUS
<1>1. 0 \in S
  <2>1. Low(0) = {}
    <3>1. ASSUME NEW x \in Low(0) PROVE FALSE
      <4>1. x \in V /\ x <= 0
        OBVIOUS
      <4> QED BY <1>0, <4>1
    <3> QED BY <3>1
  <2>2. IsFiniteSet({}) /\ Cardinality({}) = 0
    BY FS_EmptySet
  <2>3. Rising([k \in {} |-> k], {})
    <3>1. 1..0 = {}
      OBVIOUS
    <3> QED BY <2>2, <3>1 DEF Rising
  <2>4. Can({})
    BY <2>2, <2>3
  <2> QED BY <2>1, <2>4
<1>2. ASSUME NEW n \in Nat, n \in S PROVE n + 1 \in S
  <2>1. CASE n + 1 \notin V
    <3>1. \A x \in V : x <= n + 1 <=> x <= n
      BY <1>0, <2>1
    <3>2. Low(n + 1) = Low(n)
      BY <3>1
    <3>3. Can(Low(n))
      BY <1>2
    <3>4. Can(Low(n + 1))
      <4> HIDE DEF Can, Low
      <4> QED BY <3>2, <3>3
    <3> HIDE DEF Can, Low
    <3> QED BY <3>4
  <2>2. CASE n + 1 \in V
    <3> DEFINE W == Low(n)
               c == Cardinality(W)
    <3>0. \A x \in V : x <= n + 1 <=> x <= n \/ x = n + 1
      BY <1>0
    <3>1. Low(n + 1) = W \cup {n + 1} /\ n + 1 \notin W /\ \A x \in W : x \in Nat /\ x < n + 1
      <4>1. Low(n + 1) = W \cup {n + 1}
        BY <2>2, <3>0
      <4>2. \A x \in W : x \in Nat /\ x < n + 1
        BY <1>0
      <4> QED BY <4>1, <4>2
    <3>2. IsFiniteSet(W) /\ c \in Nat /\ \E f : Rising(f, W)
      BY <1>2
    <3> DEFINE X == Low(n + 1)
    <3> HIDE DEF S, Low
    <3>3. IsFiniteSet(X) /\ Cardinality(X) = c + 1
      BY <3>1, <3>2, FS_AddElement
    <3>4. PICK f : Rising(f, W)
      BY <3>2
    <3> HIDE DEF W, c, X
    <3>5. /\ f \in [1..c -> W] /\ \A x \in W : \E k \in 1..c : f[k] = x
          /\ \A j, k \in 1..c : f[j] < f[k] => j < k
      BY <3>4 DEF Rising, c
    <3>6. X = W \cup {n + 1}
      BY <3>1 DEF W, X
    <3> DEFINE g == [k \in 1..(c + 1) |-> IF k = c + 1 THEN n + 1 ELSE f[k]]
    <3>7. \A k \in 1..(c + 1) : k # c + 1 => k \in 1..c /\ g[k] = f[k] /\ f[k] \in W
      BY <3>2, <3>5
    <3>8. g \in [1..(c + 1) -> X] /\ g[c + 1] = n + 1 /\ c + 1 \in 1..(c + 1)
      BY <3>2, <3>6, <3>7
    <3>9. \A k \in 1..c : k \in 1..(c + 1) /\ g[k] = f[k]
      BY <3>2
    <3> HIDE DEF g
    <3>10. ASSUME NEW x \in X PROVE \E k \in 1..(c + 1) : g[k] = x
      <4>1. CASE x = n + 1
        BY <3>8, <4>1
      <4>2. CASE x # n + 1
        <5>1. PICK k \in 1..c : f[k] = x
          BY <3>5, <3>6, <4>2
        <5> QED BY <3>9, <5>1
      <4> QED BY <4>1, <4>2
    <3>11. ASSUME NEW j \in 1..(c + 1), NEW k \in 1..(c + 1), g[j] < g[k] PROVE j < k
      <4>1. CASE j # c + 1 /\ k # c + 1
        BY <3>5, <3>7, <3>11, <4>1
      <4>2. CASE j = c + 1
        <5>1. g[k] \in Nat /\ g[k] <= n + 1
          <6>1. CASE k = c + 1
            BY <3>8, <6>1
          <6>2. CASE k # c + 1
            BY <3>1, <3>7, <6>2 DEF W
          <6> QED BY <6>1, <6>2
        <5> QED BY <3>8, <3>11, <4>2, <5>1
      <4>3. CASE j # c + 1 /\ k = c + 1
        BY <3>2, <4>3
      <4> QED BY <4>1, <4>2, <4>3
    <3>12. Rising(g, X)
      BY <3>3, <3>8, <3>10, <3>11 DEF Rising
    <3>13. Can(Low(n + 1))
      BY <3>2, <3>3, <3>12 DEF X
    <3> QED BY <3>13 DEF S
  <2> QED BY <2>1, <2>2
<1>3. N \in S
  <2> HIDE DEF S
  <2> QED BY <1>1, <1>2, SetInduction
<1>4. Low(N) = V
  BY <1>0
<1> QED BY <1>3, <1>4

(* An order of a finite set has no element twice.                          *)
LEMMA LinearOnce ==
    ASSUME NEW V, IsFiniteSet(V), NEW order \in Linear(V)
    PROVE  /\ Cardinality(V) \in Nat /\ order \in [1..Cardinality(V) -> V]
           /\ \A x \in V : \E k \in 1..Cardinality(V) : order[k] = x
           /\ \A j, k \in 1..Cardinality(V) : order[j] = order[k] => j = k
<1> DEFINE size == Cardinality(V)
<1>1. size \in Nat
  BY FS_CardinalityType
<1>2. order \in [1..size -> V] /\ \A x \in V : \E k \in 1..size : order[k] = x
  BY DEF Linear
<1>3. \A j, k \in 1..size : order[j] = order[k] => j = k
  <2>1. IsFiniteSet(1..size) /\ Cardinality(1..size) = size
    BY <1>1, FS_Interval
  <2>2. order \in Surjection(1..size, V)
    BY <1>2 DEF Surjection
  <2>3. order \in Injection(1..size, V)
    BY <2>1, <2>2, <1>1, FS_SurjSameCardinalityImpliesInj
  <2> QED BY <2>3 DEF Injection, IsInjective
<1> QED BY <1>1, <1>2, <1>3

LEMMA LinearExists == ASSUME NEW V, IsFiniteSet(V) PROVE Linear(V) # {}
<1>1. /\ SomeOrder(V) \in [1..Cardinality(V) -> V]
      /\ \A x \in V : \E k \in 1..Cardinality(V) : SomeOrder(V)[k] = x
  BY SomeOrderIs
<1> QED BY <1>1 DEF Linear

(* What a toposort says of the positions.                                  *)
LEMMA ToposortIs ==
    ASSUME GraphInv, NEW order \in Toposorts
    PROVE  /\ Len(slots) \in Nat /\ order \in [1..Len(slots) -> Between]
           /\ DOMAIN order = 1..Len(slots)
           /\ \A i \in Between : \E k \in 1..Len(slots) : order[k] = i
           /\ \A j, k \in 1..Len(slots) : order[j] = order[k] => j = k
           /\ \A j, k \in 1..Len(slots) :
                 PrerequisiteEdge(slots[order[j]], slots[order[k]]) => j < k
<1> DEFINE N == Len(slots)
<1>1. order \in Linear(Between) /\ IsFiniteSet(Between) /\ Cardinality(Between) = N
  BY AsManyPositions DEF Toposorts
<1>2. /\ N \in Nat /\ order \in [1..N -> Between]
      /\ \A i \in Between : \E k \in 1..N : order[k] = i
      /\ \A j, k \in 1..N : order[j] = order[k] => j = k
  BY <1>1, LinearOnce
<1>3. DOMAIN order = 1..N
  BY <1>2
<1>4. ASSUME NEW j \in 1..N, NEW k \in 1..N, PrerequisiteEdge(slots[order[j]], slots[order[k]])
      PROVE  j < k
  <2>1. PICK e \in edges : e.from = slots[order[j]] /\ e.to = slots[order[k]]
    BY <1>4 DEF PrerequisiteEdge
  <2>2. PICK arc \in arcs : arc.a = node_indices[e.from] /\ arc.b = node_indices[e.to]
    BY ArcsRight
  <2>3. order[j] \in Between /\ order[k] \in Between
    BY <1>2
  <2>4. arc.a = order[j] /\ arc.b = order[k]
    BY <2>1, <2>2, <2>3, PositionsRight
  <2> QED BY <1>3, <2>4 DEF Toposorts
<1> QED BY <1>2, <1>3, <1>4

(* Where a toposort has a node.                                            *)
LEMMA ToposortHas ==
    ASSUME GraphInv, NEW order \in Toposorts, NEW n \in nodes
    PROVE  \E k \in 1..Len(slots) : slots[order[k]] = n
<1>1. node_indices[n] \in Between /\ slots[node_indices[n]] = n
  BY PositionsRight
<1> QED BY <1>1, ToposortIs

(* A set of nodes has an order in which a toposort has them.               *)
LEMMA FollowerExists ==
    ASSUME GraphInv, NEW order \in Toposorts, NEW P \in SUBSET nodes
    PROVE  \E path \in Linear(P) : Follows(path, order)
<1> DEFINE N == Len(slots)
           at(k) == slots[order[k]]
           V == {k \in 1..N : at(k) \in P}
           c == Cardinality(V)
<1>1. /\ N \in Nat /\ order \in [1..N -> Between] /\ DOMAIN order = 1..N
      /\ \A j, k \in 1..N : order[j] = order[k] => j = k
  BY ToposortIs
<1>2. \A j, k \in 1..N : at(j) = at(k) => j = k
  <2> TAKE j, k \in 1..N
  <2> HAVE at(j) = at(k)
  <2>1. order[j] \in Between /\ order[k] \in Between
    BY <1>1
  <2>2. order[j] = order[k]
    BY <2>1, PositionsRight
  <2> QED BY <1>1, <2>2
<1>3. \A n \in P : \E k \in V : at(k) = n
  <2> TAKE n \in P
  <2>1. PICK k \in 1..N : at(k) = n
    BY ToposortHas
  <2> QED BY <2>1
<1>4. IsFiniteSet(V) /\ c \in Nat /\ \E f : Rising(f, V)
  <2>1. V \in SUBSET (1..N)
    OBVIOUS
  <2> HIDE DEF V, N
  <2> QED BY <1>1, <2>1, RisingExists
<1>5. PICK f : Rising(f, V)
  BY <1>4
<1>6. \A k \in V : k \in 1..N /\ at(k) \in P
  OBVIOUS
<1> HIDE DEF V
<1>7. Cardinality(P) = c
  <2> DEFINE id == [k \in V |-> at(k)]
  <2>1. id \in [V -> P] /\ (\A j, k \in V : id[j] = id[k] => j = k) /\ \A n \in P : \E k \in V : id[k] = n
    BY <1>2, <1>3, <1>6
  <2> HIDE DEF id
  <2>2. id \in Bijection(V, P)
    BY <2>1 DEF Bijection, Injection, Surjection, IsInjective
  <2> QED BY <1>4, <2>2, FS_Bijection DEF ExistsBijection
<1>8. /\ f \in [1..c -> V] /\ \A x \in V : \E k \in 1..c : f[k] = x
      /\ \A j, k \in 1..c : f[j] < f[k] => j < k
  BY <1>5 DEF Rising
<1> DEFINE path == [k \in 1..c |-> at(f[k])]
<1> HIDE DEF c
<1>9. path \in [1..c -> P] /\ DOMAIN path = 1..c /\ \A k \in 1..c : path[k] = at(f[k])
  BY <1>6, <1>8
<1> HIDE DEF path
<1>10. \A n \in P : \E k \in 1..c : path[k] = n
  <2> TAKE n \in P
  <2>1. PICK x \in V : at(x) = n
    BY <1>3
  <2>2. PICK k \in 1..c : f[k] = x
    BY <1>8
  <2> QED BY <1>9, <2>1, <2>2
<1>11. path \in Linear(P)
  BY <1>7, <1>9, <1>10 DEF Linear
<1>12. Follows(path, order)
  <2> SUFFICES ASSUME NEW j \in 1..N, NEW k \in 1..N, NEW l \in 1..c, NEW m \in 1..c,
                      j < k, at(j) = path[l], at(k) = path[m]
               PROVE  l < m
    BY <1>1, <1>9 DEF Follows
  <2>1. f[l] \in V /\ f[m] \in V /\ at(j) = at(f[l]) /\ at(k) = at(f[m])
    BY <1>8, <1>9
  <2>2. f[l] = j /\ f[m] = k
    BY <1>2, <1>6, <2>1
  <2> QED BY <1>8, <2>2
<1> QED BY <1>11, <1>12

(* Along a toposort, nothing is a prerequisite of itself.                  *)
LEMMA TargetIsLast ==
    ASSUME GraphInv, NEW order \in Toposorts, NEW target \in nodes
    PROVE  target \notin Prerequisites(target)
<1> DEFINE N == Len(slots)
           at(k) == slots[order[k]]
<1>1. PICK t \in 1..N : at(t) = target
  BY ToposortHas
<1> DEFINE T == {n \in nodes : \E k \in 1..N : at(k) = n /\ k < t}
<1>2. /\ N \in Nat
      /\ \A j, k \in 1..N : PrerequisiteEdge(at(j), at(k)) => j < k
      /\ \A j, k \in 1..N : at(j) = at(k) => j = k
  <2>1. \A k \in 1..N : order[k] \in Between
    BY ToposortIs
  <2>2. \A j, k \in 1..N : at(j) = at(k) => j = k
    BY <2>1, ToposortIs, PositionsRight
  <2> QED BY <2>2, ToposortIs
<1>3. ASSUME NEW m \in nodes, NEW n \in T \cup {target}, PrerequisiteEdge(m, n) PROVE m \in T
  <2>1. PICK k \in 1..N : at(k) = n /\ k <= t
    BY <1>1, <1>2
  <2>2. PICK j \in 1..N : at(j) = m
    BY ToposortHas
  <2>3. j < k
    BY <1>2, <1>3, <2>1, <2>2
  <2>4. j < t
    BY <1>2, <2>1, <2>3
  <2> QED BY <2>2, <2>4
<1>4. T \in SUBSET nodes
  OBVIOUS
<1>5. target \notin T
  BY <1>1, <1>2
<1> HIDE DEF T
<1>6. Prerequisites(target) \subseteq T
  BY <1>3, <1>4, PrerequisitesClosed
<1> QED BY <1>5, <1>6

LEMMA PathsFollowed == ASSUME GraphInv PROVE PathCanBeFollowed
<1> SUFFICES ASSUME NEW target \in nodes, ~HasCycles(target)
             PROVE  /\ LearningPaths(target) # {}
                    /\ \A path \in LearningPaths(target) :
                          /\ \A k \in DOMAIN path, m \in nodes : PrerequisiteEdge(m, path[k]) =>
                                \E j \in 1..(k - 1) : path[j] = m
                          /\ \A j, k \in 1..(Cardinality(Prerequisites(target)) + 1) :
                                path[j] = path[k] => j = k
  BY DEF PathCanBeFollowed
<1> DEFINE P == Prerequisites(target)
           c == Cardinality(P)
           steps == IF P = {} \/ Toposorts = {} THEN Linear(P)
                    ELSE {path \in Linear(P) : \E order \in Toposorts : Follows(path, order)}
<1>1. LearningPaths(target) = {Append(path, target) : path \in steps}
  BY DEF LearningPaths
<1>2. /\ P \subseteq nodes
      /\ \A m \in nodes, n \in P \cup {target} : PrerequisiteEdge(m, n) => m \in P
  BY PrerequisitesClosed
<1>3. IsFiniteSet(P) /\ c \in Nat
  BY <1>2, AsManyPositions, FS_Subset, FS_CardinalityType
<1>4. P = {} \/ Toposorts # {}
  BY DEF HasCycles
<1>5. target \notin P
  BY <1>4, TargetIsLast
<1> HIDE DEF P
<1>6. steps # {} /\ \A path \in steps : path \in Linear(P)
  <2>1. CASE P = {} \/ Toposorts = {}
    BY <1>3, <2>1, LinearExists
  <2>2. CASE ~(P = {} \/ Toposorts = {})
    BY <1>2, <2>2, FollowerExists
  <2> QED BY <2>1, <2>2
<1>7. ASSUME NEW path \in steps
      PROVE  /\ c \in Nat /\ path \in [1..c -> P]
             /\ \A x \in P : \E k \in 1..c : path[k] = x
             /\ \A j, k \in 1..c : path[j] = path[k] => j = k
             /\ \A j, k \in 1..c : PrerequisiteEdge(path[j], path[k]) => j < k
  <2>1. /\ c \in Nat /\ path \in [1..c -> P]
        /\ \A x \in P : \E k \in 1..c : path[k] = x
        /\ \A j, k \in 1..c : path[j] = path[k] => j = k
    BY <1>3, <1>6, LinearOnce
  <2>2. ASSUME NEW l \in 1..c, NEW m \in 1..c, PrerequisiteEdge(path[l], path[m]) PROVE l < m
    <3>1. path[l] \in P /\ path[m] \in P /\ P # {} /\ Toposorts # {}
      BY <1>4, <2>1
    <3>2. PICK order \in Toposorts : Follows(path, order)
      BY <1>7, <3>1
    <3>3. path[l] \in nodes /\ path[m] \in nodes
      BY <1>2, <3>1
    <3>4. PICK j \in 1..Len(slots) : slots[order[j]] = path[l]
      BY <3>3, ToposortHas
    <3>5. PICK k \in 1..Len(slots) : slots[order[k]] = path[m]
      BY <3>3, ToposortHas
    <3>6. j < k /\ DOMAIN order = 1..Len(slots)
      BY <2>2, <3>4, <3>5, ToposortIs
    <3>7. DOMAIN path = 1..c
      BY <2>1
    <3> QED BY <3>2, <3>4, <3>5, <3>6, <3>7 DEF Follows
  <2> QED BY <2>1, <2>2
<1> HIDE DEF steps, c
<1>8. ASSUME NEW p \in LearningPaths(target)
      PROVE  /\ \A k \in DOMAIN p, m \in nodes : PrerequisiteEdge(m, p[k]) =>
                   \E j \in 1..(k - 1) : p[j] = m
             /\ \A j, k \in 1..(c + 1) : p[j] = p[k] => j = k
  <2>1. PICK path \in steps : p = Append(path, target)
    BY <1>1
  <2>2. /\ path \in [1..c -> P] /\ \A x \in P : \E k \in 1..c : path[k] = x
        /\ \A j, k \in 1..c : path[j] = path[k] => j = k
        /\ \A j, k \in 1..c : PrerequisiteEdge(path[j], path[k]) => j < k
    BY <1>7
  <2>3. path \in Seq(P) /\ Len(path) = c
    BY <1>3, <2>2
  <2>4. DOMAIN p = 1..(c + 1) /\ p[c + 1] = target /\ \A k \in 1..c : p[k] = path[k]
    BY <1>3, <2>1, <2>3
  <2>5. \A k \in 1..(c + 1) : k = c + 1 \/ (k \in 1..c /\ p[k] = path[k] /\ path[k] \in P)
    BY <1>3, <2>2, <2>4
  <2>6. ASSUME NEW k \in 1..(c + 1), NEW m \in nodes, PrerequisiteEdge(m, p[k])
        PROVE  \E j \in 1..(k - 1) : p[j] = m
    <3>1. m \in P
      BY <1>2, <2>4, <2>5, <2>6
    <3>2. PICK j \in 1..c : path[j] = m
      BY <2>2, <3>1
    <3>3. j < k
      <4>1. CASE k = c + 1
        BY <1>3, <4>1
      <4>2. CASE k # c + 1
        BY <2>2, <2>5, <2>6, <3>2, <4>2
      <4> QED BY <4>1, <4>2
    <3>4. j \in 1..(k - 1) /\ p[j] = m
      BY <1>3, <2>4, <3>2, <3>3
    <3> QED BY <3>4
  <2>7. ASSUME NEW j \in 1..(c + 1), NEW k \in 1..(c + 1), p[j] = p[k] PROVE j = k
    <3>1. CASE j = c + 1 /\ k # c + 1
      BY <1>5, <2>4, <2>5, <2>7, <3>1
    <3>2. CASE j # c + 1 /\ k = c + 1
      BY <1>5, <2>4, <2>5, <2>7, <3>2
    <3>3. CASE j # c + 1 /\ k # c + 1
      BY <2>2, <2>5, <2>7, <3>3
    <3> QED BY <3>1, <3>2, <3>3
  <2> QED BY <2>4, <2>6, <2>7
<1>9. LearningPaths(target) # {}
  BY <1>1, <1>6
<1>10. c = Cardinality(Prerequisites(target))
  BY DEF c, P
<1> QED BY <1>8, <1>9, <1>10

(* ... and a learning path without has_cycles exists and can be followed,  *)
(* in every graph that is built, changed and loaded                        *)
(* (algorithms.rs:205-330).                                                *)
THEOREM PathsCanBeFollowed == GraphSpec => []PathCanBeFollowed
<1>1. GraphInv => PathCanBeFollowed
  BY PathsFollowed
<1> QED BY <1>1, GraphViewsAgree, PTL DEF GraphInv
=============================================================================
