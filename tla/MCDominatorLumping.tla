------------------------ MODULE MCDominatorLumping ------------------------
(***************************************************************************)
(* All levels of Size nodes and at most Edges edges, numbered from 1 in    *)
(* preorder of the dominator tree, with any set of mapped nodes that holds *)
(* the entry.  A node leads to at most two others, and only to itself if   *)
(* it is the header of the level.                                          *)
(***************************************************************************)
EXTENDS DominatorLumping, TLC

CONSTANTS
    Size,   \* number of nodes
    Edges   \* number of edges, at most

Nodes == 1 .. Size

Targets(n) == {S \in SUBSET (Nodes \ ({n} \ {1})) : Cardinality(S) <= 2}

\* The out-edges of the first k nodes.
EdgeSets ==
    LET upTo[k \in 0 .. Size] ==
            IF k = 0 THEN {{}}
            ELSE {E \in {F \cup ({k} \X T) : F \in upTo[k - 1], T \in Targets(k)} :
                     Cardinality(E) <= Edges}
    IN  upTo[Size]

MCLevels ==
    LET graphs == {[node |-> Nodes, entry |-> 1, edge |-> E] : E \in
                      {F \in EdgeSets : \A n \in Nodes \ {1} : \E e \in F : e[2] = n}}
        levels == {g \in graphs : ReachableNodes(g) = Nodes /\ NumberedInPreorder(g)}
    IN  UNION {{g @@ [mapped |-> {1} \cup S] : S \in SUBSET (Nodes \ {1})} : g \in levels}
=============================================================================
