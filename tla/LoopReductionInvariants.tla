---------------------- MODULE LoopReductionInvariants ----------------------
(***************************************************************************)
(* The inductive invariant behind the theorems about LoopReduction, on top *)
(* of the one of the analysis, which is over when the reduction begins.    *)
(***************************************************************************)
EXTENDS LoopReduction, LoopAnalysisInvariants

\* The current graph is one, and holds the analysed graph until loops are reduced.
CurrentGraph ==
    /\ {"node", "edge", "entry"} \subseteq DOMAIN curr
    /\ IsFiniteSet(curr.node) /\ curr.node \subseteq Int
    /\ curr.edge \subseteq curr.node \X curr.node
    /\ stage = "waiting" => regions = << >> /\ graph.node \subseteq curr.node

NodesOf(h) == (CHOOSE loop \in NaturalLoops(graph) : loop.head = h).nodes

\* Surrogates are new nodes, one for each of the loops reduced so far; and inner loops are
\* reduced before the loops around them.
SurrogatesAreNew ==
    /\ nextId \in Int /\ \A n \in graph.node : n < nextId
    /\ IsFiniteSet(DOMAIN regions)
    /\ \A r \in DOMAIN regions :
        /\ r \in Int /\ r < nextId /\ regions[r].header \in Headers
        /\ \A n \in graph.node : n < r
        /\ \A q \in DOMAIN regions : regions[q].header = regions[r].header => q = r
    /\ \A h \in Reduced : Headers \cap NodesOf(h) \subseteq Reduced

\* Of the loops reduced so far, a surrogate is in the region of the loop around its loop
\* or, as long as that is not reduced, in the current graph.
SurrogatesAreKept ==
    /\ \A h \in Reduced : loops[h].parent \in Reduced \/ SurrogateOf(h) \in curr.node
    /\ \A r \in DOMAIN regions :
        /\ regions[r].level = LoopLevel[regions[r].header]
        /\ \A n \in regions[r].graph.node : n \in Int /\ n < nextId
        /\ \A m \in Headers : loops[m].parent = regions[r].header
              => SurrogateOf(m) \in regions[r].graph.node
        /\ \A q \in DOMAIN regions \cap regions[r].graph.node :
              loops[regions[q].header].parent = regions[r].header

\* Which surrogate a header has.
SurrogatesIn(rg) == [h \in {rg[r].header : r \in DOMAIN rg} |->
                        CHOOSE r \in DOMAIN rg : rg[r].header = h]

\* The loops of a flow with their heads in S.
LoopsAt(g, S) == {loop \in NaturalLoops(g) : loop.head \in S}

\* ImageIn, for surrogates s.
ImageBy(nest, s, n) ==
    LET outer == {loop \in Around(nest, n) :
                    \A other \in Around(nest, n) : other.nodes \subseteq loop.nodes}
    IN  IF outer = {} THEN n ELSE s[(CHOOSE loop \in outer : TRUE).head]

IsQuotient(g, flow, nodes, S, rg) ==
    LET I == [n \in nodes |-> ImageBy(LoopsAt(flow, S), SurrogatesIn(rg), n)]
    IN  /\ g.node = {I[n] : n \in nodes}
        /\ g.edge = {<<I[e[1]], I[e[2]]>> : e \in flow.edge \cap (nodes \X nodes)}
                    \ {<<r, r>> : r \in DOMAIN rg}

\* What is left is the quotient by the loops reduced so far, and a region is that of its
\* loop by the loops inside.
Quotients ==
    /\ IsQuotient(curr, graph, graph.node, Reduced, regions)
    /\ \A r \in DOMAIN regions : /\ {"node", "edge", "entry"} \subseteq DOMAIN regions[r].graph
                                  /\ regions[r].graph.entry = regions[r].header
    /\ \A loop \in NaturalLoops(graph) : \A r \in DOMAIN regions :
          loop.head = regions[r].header =>
            IsQuotient(regions[r].graph, graph, loop.nodes,
                       (Headers \cap loop.nodes) \ {loop.head}, regions)

Assembled ==
    /\ stage \in {"assemble", "done"} => Headers = Reduced
    /\ stage # "aborted"
    /\ stage = "done" =>
        \A r \in DOMAIN regions :
            IF loops[regions[r].header].parent = Root
            THEN hierarchy[r] = Top
            ELSE hierarchy[r] = SurrogateOf(loops[regions[r].header].parent)

ReductionInvariant ==
    /\ InductiveInvariant
    /\ stage \in Stages
    /\ CurrentGraph
    /\ Assembled
    /\ stage # "waiting" =>
        /\ phase = "analyzed"
        /\ SurrogatesAreNew
        /\ SurrogatesAreKept
        /\ ~HasDeepBackEdge(graph) => Quotients
=============================================================================
