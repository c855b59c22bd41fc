------------------------ MODULE MCControlDependence ------------------------
(***************************************************************************)
(* Small flows for ControlDependence: node 0 is the exit, node 1 the entry,*)
(* which leads to node 2 and nothing else; the others lead to at most two  *)
(* nodes, as the blocks of a binary do.  What the entry does not reach has *)
(* been pruned, the exit too.  The nodes from 3 on differ by name only, so *)
(* they are taken in the order of their out-edges.                         *)
(***************************************************************************)
EXTENDS ControlDependence

CONSTANTS
    Size,     \* number of nodes between entry and exit
    TreeSize  \* number of nodes of a tree that is asked by itself

\* All trees of TreeSize nodes: node 0 is the root, and the parent of a node has a
\* smaller number, which is no restriction but for the names.
MCTrees ==
    LET Lower == 1 .. TreeSize - 1
    IN  {[node |-> 0 .. TreeSize - 1, root |-> 0, parent |-> up] :
            up \in {f \in [Lower -> 0 .. TreeSize - 1] : \A n \in Lower : f[n] < n}}

Inner == 2 .. Size + 1

Flow(to) ==
    LET full == [node  |-> {0, 1} \cup Inner,
                 edge  |-> {<<1, 2>>} \cup UNION {{<<n, s>> : s \in to[n]} : n \in Inner},
                 entry |-> 1]
        kept == Subgraph(full, ReachableNodes(full))
    IN  kept @@ [exit |-> IF 0 \in kept.node THEN 0 ELSE NoNode]

MCControlFlows ==
    LET choices == {S \in SUBSET (Inner \cup {0}) : Cardinality(S) \in 0 .. 2}
    IN  {Flow(to) : to \in {t \in [Inner -> choices] :
            \A n \in Inner \ {2} : \A m \in Inner :
                n < m => Cardinality(t[n]) >= Cardinality(t[m])}}
=============================================================================
