----------------------------- MODULE FlowGraph -----------------------------
(***************************************************************************)
(* The directed graphs the mapper works on (ControlFlow.digraph in         *)
(* src/py-mapping/fparser/control_flow.py, a networkx DiGraph) and what    *)
(* textbooks say of them: reachability, dominance, natural loops.          *)
(*                                                                         *)
(* A graph is a record of its nodes, its edges and its entry (_entryId).   *)
(***************************************************************************)
EXTENDS FiniteSetsExt, Integers

\* Flows of both programs get an entry node of their own: nothing leads to it.
IsFlowGraph(g) ==
    /\ {"node", "edge", "entry"} \subseteq DOMAIN g
    /\ g.node \subseteq Int /\ IsFiniteSet(g.node)
    /\ g.edge \subseteq g.node \X g.node
    /\ g.entry \in g.node
    /\ \A e \in g.edge : e[2] # g.entry

Succs(g, n) == {e[2] : e \in {d \in g.edge : d[1] = n}}
Preds(g, n) == {e[1] : e \in {d \in g.edge : d[2] = n}}

Subgraph(g, S) == [g EXCEPT !.node = @ \cap S, !.edge = @ \cap (S \X S)]

Transposed(g) == [g EXCEPT !.edge = {<<e[2], e[1]>> : e \in @}]

-----------------------------------------------------------------------------
(* Reference definitions.                                                  *)

\* What can be reached from the nodes in S by way of nodes in Through.
ReachedFrom(g, S, Through) ==
    LET within[n \in Nat] ==
            IF n = 0 THEN S \cap Through
            ELSE LET less == within[n - 1]
                 IN  less \cup ({e[2] : e \in {d \in g.edge : d[1] \in less}} \cap Through)
    IN  within[Cardinality(g.node)]

ReachableNodes(g) == ReachedFrom(g, {g.entry}, g.node)

\* Every path from the entry to b goes through a.
Dominates(g, a, b) == b \notin ReachedFrom(g, {g.entry}, g.node \ {a})

Dominators(g, b) == {a \in g.node : Dominates(g, a, b)}

Acyclic(g) == \A n \in g.node : n \notin ReachedFrom(g, Succs(g, n), g.node)

\* Edges to a dominator of their tail.
BackEdges(g) == {e \in g.edge : Dominates(g, e[2], e[1])}

Reducible(g) == Acyclic([g EXCEPT !.edge = @ \ BackEdges(g)])

\* The natural loop of each target of a back edge: the head, and what reaches a
\* tail of its back edges without passing it.
NaturalLoops(g) ==
    LET back  == BackEdges(g)
        rev   == Transposed(g)
        Tails(head) == {e[1] : e \in {d \in back : d[2] = head}}
    IN  {[head  |-> head,
          tails |-> Tails(head),
          nodes |-> {head} \cup ReachedFrom(rev, Tails(head), g.node \ {head})]
            : head \in {e[2] : e \in back}}

\* Of a set of loops: those around a node, and the smallest of nested ones.
Around(nest, n) == {loop \in nest : n \in loop.nodes}

InnermostHead(nest, otherwise) ==
    IF nest = {} THEN otherwise
    ELSE (CHOOSE loop \in nest : \A other \in nest : loop.nodes \subseteq other.nodes).head
=============================================================================
