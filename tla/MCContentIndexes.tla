--------------------------- MODULE MCContentIndexes ---------------------------
(* What a Fabryk server answers from: the full-text index, the vectors and *)
(* the graph built from the same directories, the graph that it holds and  *)
(* changes, and the keys of its clients' tokens.  The builders share only  *)
(* the content, the rest nothing: a behaviour is one of one part.          *)
EXTENDS FtsIndex, VectorCache, GraphBuild, GraphQueries, KeyCache, TLC

CONSTANTS base, extra, x, y, b1, b2, n1, n2, n3

(* All files of base and none of extra's second.                           *)
MCExtractable == {<<base, x>>, <<base, y>>, <<extra, x>>}

(* The files link to each other; once x is edited it has the id of y too,  *)
(* to which it links still.                                                *)
MCNodeOf == x :> <<x, y>> @@ y :> <<y, y>>
MCLinks == x :> <<{y}, {y}>> @@ y :> <<{x}, {x}>>
MCManualEdges == {{}, {<<x, x>>}}

(* Saved graphs: a chain of prerequisites, whose last node may be missing, *)
(* and a circle of two kinds of edges.                                     *)
FirstEdge(m, n, r) == [from |-> m, to |-> n, relationship |-> r, copy |-> 1]
MCSavedGraphs ==
    {[whole |-> TRUE, nodes |-> ids, edges |-> E] : ids \in {Ids, {n1, n2}},
        E \in {{FirstEdge(n1, n2, "prerequisite"), FirstEdge(n2, n3, "prerequisite")},
               {FirstEdge(n1, n2, "prerequisite"), FirstEdge(n2, n1, "variant_of")}}}
MCFilters == {Relationships, {"prerequisite"}}

VARIABLE part

buildVars == <<contentVars, ftsVars, vectorVars, graphBuildVars>>
allVars == <<part, buildVars, graphVars, keyVars>>

Init ==
    /\ part \in {"fts", "vector", "builder", "graph", "keys"}
    /\ part \in {"graph", "keys"} => content = [d \in Dirs |-> [n \in Names |-> 0]]
    /\ part # "fts" => content \in {[d \in Dirs |-> IF d = base THEN files ELSE [n \in Names |-> 0]] :
                                      files \in [Names -> {0, 1}]}
    /\ part # "builder" => manual = {}
    /\ part # "graph" => file = CHOOSE g \in SavedGraphs : TRUE
    /\ part # "keys" => online = FALSE /\ published = {}
    /\ ContentInit /\ FtsInit /\ VectorInit /\ GraphBuildInit
    /\ GraphInit /\ KeyInit
Next ==
    /\ UNCHANGED part
    /\ \/ /\ part = "fts" /\ FtsStep
          /\ UNCHANGED <<vectorVars, graphBuildVars, graphVars, keyVars>>
       \/ /\ part = "vector" /\ VectorStep
          /\ UNCHANGED <<ftsVars, graphBuildVars, graphVars, keyVars>>
       \/ /\ part = "builder" /\ GraphBuildStep
          /\ UNCHANGED <<ftsVars, vectorVars, graphVars, keyVars>>
       \/ /\ \/ part = "fts" /\ ContentStep
             \/ part \in {"vector", "builder"} /\ ContentStep /\ content'[extra] = content[extra]
          /\ UNCHANGED <<ftsVars, vectorVars, graphBuildVars, graphVars, keyVars>>
       \/ part = "graph" /\ GraphStep /\ UNCHANGED <<buildVars, keyVars>>
       \/ part = "keys" /\ KeyStep /\ UNCHANGED <<buildVars, graphVars>>
Spec == Init /\ [][Next]_allVars

TypeOK == FtsTypeOK /\ VectorTypeOK /\ GraphBuildTypeOK /\ GraphTypeOK /\ KeyTypeOK

Symmetries == Permutations({b1, b2})
=============================================================================
