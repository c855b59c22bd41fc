-------------------------- MODULE HierarchicalFlow --------------------------
(***************************************************************************)
(* What get_reduced_hierarchy (src/py-mapping/flow/transformer.py) returns *)
(* for a flow, in closed form: a level for the flow and one for each of    *)
(* its loops, where the loops directly inside are surrogate nodes.         *)
(* LoopReduction shows that the code computes these levels.                *)
(***************************************************************************)
EXTENDS FlowGraph

\* The level of the flow itself; every other level is called by its loop_id, the
\* header of the loop.
Top == 0

\* A node that is not in the flow ("n > get_max_id()"), one for each loop.
Surrogate(g, head) == Max(g.node) + 1 + head

IsVirtual(g, n) == n > Max(g.node)

HeaderOf(g, surrogate) == surrogate - Max(g.node) - 1

WholeFlow(g) == [head |-> Top, tails |-> {}, nodes |-> g.node]

\* The loops directly inside a loop, or inside the whole flow.
Subloops(nest, loop) ==
    LET inside == {l \in nest \ {loop} : l.nodes \subseteq loop.nodes}
    IN  {l \in inside : \A m \in inside \ {l} : ~(l.nodes \subseteq m.nodes)}

\* The flow graph of a level (_subGraph of the loop's region, or _curr_graph).
LevelGraph(g, nest, loop) ==
    LET subs     == Subloops(nest, loop)
        image    == [n \in loop.nodes |->
                       IF Around(subs, n) = {} THEN n
                       ELSE Surrogate(g, InnermostHead(Around(subs, n), n))]
        nodes    == {image[n] : n \in loop.nodes}
        edges    == {<<image[e[1]], image[e[2]]>> :
                        e \in g.edge \cap (loop.nodes \X loop.nodes)}
    IN  [node  |-> nodes,
         edge  |-> edges \ {<<n, n>> : n \in nodes \ g.node},
         entry |-> IF loop.head = Top THEN g.entry ELSE loop.head]

\* Per level: its graph, the levels below it (subflows) and all nodes of its loop.
Hierarchy(g) ==
    LET nest == NaturalLoops(g)
        all  == nest \cup {WholeFlow(g)}
        At(id) == CHOOSE loop \in all : loop.head = id
    IN  [id \in {loop.head : loop \in all} |->
            [graph    |-> LevelGraph(g, nest, At(id)),
             subflows |-> {loop.head : loop \in Subloops(nest, At(id))},
             nodes    |-> At(id).nodes]]
=============================================================================
