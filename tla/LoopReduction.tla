--------------------------- MODULE LoopReduction ---------------------------
(***************************************************************************)
(* get_reduced_hierarchy (src/py-mapping/flow/transformer.py): once loops  *)
(* are analysed, reduce_all_loops collapses each of them, innermost first, *)
(* into a new node that carries the loop's own graph as a region, and      *)
(* get_individual_loops_as_hierarchy hangs the regions into each other.    *)
(***************************************************************************)
EXTENDS LoopAnalysis

VARIABLES
    stage,      \* what get_reduced_hierarchy is doing
    curr,       \* _curr_graph
    regions,    \* loop regions (_regions, _loopRegions): surrogate node -> region
    nextId,     \* _currentCount, the next surrogate
    hierarchy   \* surrogate -> the surrogate of the parent flow, or Top

reduction == <<stage, curr, regions, nextId, hierarchy>>

allVars == <<vars, reduction>>

Hier == INSTANCE HierarchicalFlow

Stages == {"waiting", "reduce", "assemble", "done", "aborted"}

Top == 0

InitReduction ==
    /\ Init
    /\ stage = "waiting"
    /\ curr = graph
    /\ regions = << >>
    /\ nextId = 0
    /\ hierarchy = << >>

Analyze == AnalysisStep /\ UNCHANGED reduction

\* The skeleton graph; get_max_id also counts the nodes that were pruned.
StartReduction ==
    /\ phase = "analyzed" /\ stage = "waiting"
    /\ stage' = "reduce"
    /\ nextId' = Max(curr.node) + 1
    /\ curr' = graph
    /\ UNCHANGED <<vars, regions, hierarchy>>

-----------------------------------------------------------------------------
(* reduce_all_loops.                                                       *)

Reduced == {regions[r].header : r \in DOMAIN regions}

SurrogateOf(h) == CHOOSE r \in DOMAIN regions : regions[r].header = h

\* translate_node_id: only the headers of reduced loops have a new id.
TranslateNodeId(n) == IF n \in Reduced THEN SurrogateOf(n) ELSE n

\* Mutant: inner loops are not replaced by their surrogates.
LoopNodesUntranslated(n) == BodyNodes(n) \cup {n}

LoopNodes(n) == {TranslateNodeId(b) : b \in BodyNodes(n)} \cup {n}

\* Mutant: the tails of back edges are not translated.
EntryEdgesUntranslated(n) ==
    {e \in curr.edge : e[2] = n} \ {<<b, n>> : b \in loops[n].backPreds}

EntryEdges(n) ==
    {e \in curr.edge : e[2] = n} \ {<<TranslateNodeId(b), n>> : b \in loops[n].backPreds}

ExitEdgesOf(S) == {e \in curr.edge : e[1] \in S /\ e[2] \notin S}

\* The next of get_sorted_plist; loops with equal numbers come in any order.
DeepestLeft(left) ==
    {n \in left : \A m \in left : LoopPreorderNumber[m] <= LoopPreorderNumber[n]}

FollowingId == nextId + 1

\* add_edges_from brings back a node it does not find.
ReduceSingleLoop ==
    /\ stage = "reduce"
    /\ \E n \in DeepestLeft(Headers \ Reduced) :
        LET lNodes == LoopNodes(n)
            entries == {<<e[1], nextId>> : e \in EntryEdges(n)}
            exits   == {<<nextId, e[2]>> : e \in ExitEdgesOf(lNodes)}
        IN  /\ curr' = [curr EXCEPT
                 !.node = (@ \ lNodes) \cup {nextId} \cup {e[1] : e \in entries},
                 !.edge = {e \in @ : e[1] \notin lNodes /\ e[2] \notin lNodes}
                          \cup entries \cup exits]
            /\ regions' = [r \in DOMAIN regions \cup {nextId} |->
                 IF r # nextId THEN regions[r]
                 ELSE [header     |-> n,
                       graph      |-> [Subgraph(curr, lNodes) EXCEPT !.entry = n],
                       level      |-> LoopLevel[n],
                       parentloop |-> loops[n].parent]]
    /\ nextId' = FollowingId
    /\ UNCHANGED <<vars, stage, hierarchy>>

FinishReduction ==
    /\ stage = "reduce" /\ Headers = Reduced
    /\ stage' = "assemble"
    /\ UNCHANGED <<vars, curr, regions, nextId, hierarchy>>

-----------------------------------------------------------------------------
(* get_individual_loops_as_hierarchy: a subflow goes to a flow one level   *)
(* up that holds its surrogate, those of level 0 to the top.               *)

\* Mutant: any flow one level up.
FlowsOneLevelUp(r) == {q \in DOMAIN regions : regions[q].level = regions[r].level - 1}

FlowsHolding(r) ==
    {q \in DOMAIN regions : /\ regions[q].level = regions[r].level - 1
                            /\ r \in regions[q].graph.node}

AssembleHierarchy ==
    /\ stage = "assemble"
    /\ LET inner == {r \in DOMAIN regions : regions[r].level > 0}
       IN  IF \E r \in inner : FlowsHolding(r) = {}
           THEN stage' = "aborted" /\ UNCHANGED hierarchy
           ELSE /\ stage' = "done"
                /\ hierarchy' \in
                     [DOMAIN regions -> DOMAIN regions \cup {Top}]
                /\ \A r \in DOMAIN regions :
                     IF r \in inner THEN hierarchy'[r] \in FlowsHolding(r)
                     ELSE hierarchy'[r] = Top
    /\ UNCHANGED <<vars, curr, regions, nextId>>

Reduction ==
    StartReduction \/ ReduceSingleLoop \/ FinishReduction \/ AssembleHierarchy

Ended ==
    /\ phase = "aborted" \/ stage \in {"done", "aborted"}
    /\ UNCHANGED allVars

NextReduction == Analyze \/ Reduction \/ Ended

SpecReduction == InitReduction /\ [][NextReduction]_allVars /\ WF_allVars(NextReduction)

-----------------------------------------------------------------------------
(* Correctness of the reduction.                                           *)

\* The analysis keeps its types, and the surrogates are new nodes, one for each loop
\* reduced so far.
TypeOKReduction ==
    /\ TypeOK
    /\ stage \in Stages
    /\ curr.node \subseteq Int /\ curr.edge \subseteq curr.node \X curr.node
    /\ stage # "waiting" =>
         /\ DOMAIN regions \subseteq Int \ graph.node
         /\ \A r \in DOMAIN regions : r < nextId
         /\ Reduced \subseteq Headers
         /\ Cardinality(Reduced) = Cardinality(DOMAIN regions)

\* An edge leads from inside an inner loop to the header of an outer one: reduction
\* fails, since translate_node_id knows the headers only.
HasDeepBackEdge(g) ==
    LET nest == NaturalLoops(g)
    IN  \E outer, inner \in nest :
            /\ inner # outer /\ inner.head \in outer.nodes
            /\ (outer.tails \cap inner.nodes) \ {inner.head} # {}

\* The surrogate a node of the analysed graph has gone into, or the node.
ImageIn(nest, n) ==
    LET outer == {loop \in Around(nest, n) :
                    \A other \in Around(nest, n) : other.nodes \subseteq loop.nodes}
    IN  IF outer = {} THEN n ELSE SurrogateOf((CHOOSE loop \in outer : TRUE).head)

\* After every single reduction the graph is the analysed graph with the loops
\* reduced so far collapsed to a point each: no node or edge is lost or invented
\* (reduce_all_loops:
\* "collapse all loops into single nodes").
CurrentIsQuotient ==
    stage \in {"reduce", "assemble", "done"} =>
        LET nest == {loop \in NaturalLoops(graph) : loop.head \in Reduced}
        IN  /\ curr.node = {ImageIn(nest, n) : n \in graph.node}
            /\ curr.edge = {<<ImageIn(nest, e[1]), ImageIn(nest, e[2])>> : e \in graph.edge}
                           \ {<<r, r>> : r \in DOMAIN regions}

\* Every region is the graph of one level of the nest: the nodes its loop is the
\* innermost of, its inner loops as surrogates and the edges between them; and when
\* all loops are reduced no cycle is left, in a region none but through its header.
RegionsAreLevels ==
    LET nest == NaturalLoops(graph)
        Named(n) == IF n \in DOMAIN regions THEN Hier!Surrogate(graph, regions[n].header)
                    ELSE n
    IN  /\ \A r \in DOMAIN regions :
             LET g    == regions[r].graph
                 loop == CHOOSE l \in nest : l.head = regions[r].header
             IN  /\ [node  |-> {Named(n) : n \in g.node},
                     edge  |-> {<<Named(e[1]), Named(e[2])>> : e \in g.edge},
                     entry |-> g.entry] = Hier!LevelGraph(graph, nest, loop)
                 /\ Acyclic([g EXCEPT !.edge = {e \in @ : e[2] # regions[r].header}])
        /\ stage \in {"assemble", "done"} => Acyclic(curr)

\* The hierarchy of flows can always be built, and is the loop tree.
HierarchyIsLoopTree ==
    /\ stage # "aborted"
    /\ stage = "done" =>
        \A r \in DOMAIN regions :
            IF loops[regions[r].header].parent = Root
            THEN hierarchy[r] = Top
            ELSE hierarchy[r] = SurrogateOf(loops[regions[r].header].parent)
=============================================================================
