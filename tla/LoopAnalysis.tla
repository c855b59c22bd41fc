---------------------------- MODULE LoopAnalysis ----------------------------
(***************************************************************************)
(* Loop analysis of a control flow (ControlFlow._post_init and             *)
(* _analyze_loops, src/py-mapping/fparser/control_flow.py, with DfsTree,   *)
(* analyze_loops and LoopInfo, src/py-mapping/flow/loop_analysis.py):      *)
(* unreachable nodes are pruned, a depth-first search numbers the nodes,   *)
(* and Havlak's algorithm finds the loops from the highest number down,    *)
(* collapsing each loop it has found in a union-find structure.            *)
(*                                                                         *)
(* The order in which a networkx graph yields the successors of a node is  *)
(* that of a Python 2 dict: the model leaves it open.                      *)
(***************************************************************************)
EXTENDS FlowGraph, SequencesExt

CONSTANT Graphs  \* the flow graphs to analyse

ASSUME GraphsAreFlowGraphs == \A g \in Graphs : IsFlowGraph(g)

VARIABLES
    graph,         \* digraph and _entryId
    phase,         \* what _post_init is doing
    path,          \* the nodes DfsTree._dfs is in, outermost first
    preorderList,  \* the nodes in the order _dfs numbered them, from 0
    last,          \* per node _dfs has left: the number of its last descendant
    attrs,         \* per number: the loop attributes of the node
    nodeLookup,    \* per number: the collapsed loop it is in (nodeSets inverted)
    w,             \* the number of the node tried as a loop header, plus 1
    body,          \* P
    worklist,      \* the part of P that is not expanded yet
    loops          \* the loop tree, without its root: per header its record

vars == <<graph, phase, path, preorderList, last, attrs, nodeLookup, w, body,
          worklist, loops>>

Phases == {"init", "dfs", "backedges", "headers", "tree", "analyzed", "aborted"}

Init ==
    /\ graph \in Graphs
    /\ phase = "init"
    /\ path = << >> /\ preorderList = << >> /\ last = << >>
    /\ attrs = << >> /\ nodeLookup = << >>
    /\ w = 0 /\ body = {} /\ worklist = {}
    /\ loops = << >>

-----------------------------------------------------------------------------
(* DfsTree.                                                                *)

Numbers == 0 .. Len(preorderList) - 1

NodeAt(i) == preorderList[i + 1]

NumberOf(n) == (CHOOSE i \in DOMAIN preorderList : preorderList[i] = n) - 1

Visited == {preorderList[i] : i \in DOMAIN preorderList}

\* Mutant: the comparison with the last descendant is left out.
IsAncestorByNumber(i, j) == i <= j

\* isAncestor: both arguments are numbers.
IsAncestor(i, j) == i <= j /\ j <= last[NodeAt(i)]

\* _prune_unreachable, and the call of _dfs for the entry.  A flow without a
\* second node does not pass _validate_graph.
PruneUnreachable ==
    /\ phase = "init"
    /\ graph' = Subgraph(graph, ReachableNodes(graph))
    /\ IF Cardinality(graph'.node) < 2
       THEN phase' = "aborted" /\ UNCHANGED <<path, preorderList>>
       ELSE /\ phase' = "dfs"
            /\ path' = <<graph.entry>>
            /\ preorderList' = <<graph.entry>>
    /\ UNCHANGED <<last, attrs, nodeLookup, w, body, worklist, loops>>

VisitSuccessor ==
    /\ phase = "dfs" /\ path # << >>
    /\ \E s \in Succs(graph, Last(path)) \ Visited :
        /\ path' = Append(path, s)
        /\ preorderList' = Append(preorderList, s)
    /\ UNCHANGED <<graph, phase, last, attrs, nodeLookup, w, body, worklist, loops>>

\* Mutant: the counter, which is one ahead of the last number given.
NextNumber == Len(preorderList)

LastNumber == Len(preorderList) - 1

LeaveNode ==
    /\ phase = "dfs" /\ path # << >>
    /\ Succs(graph, Last(path)) \subseteq Visited
    /\ last' = [n \in DOMAIN last \cup {Last(path)} |->
                  IF n = Last(path) THEN LastNumber ELSE last[n]]
    /\ path' = Front(path)
    /\ UNCHANGED <<graph, phase, preorderList, attrs, nodeLookup, w, body, worklist, loops>>

\* _checkTree: every node has been visited.
CheckTree ==
    /\ phase = "dfs" /\ path = << >>
    /\ phase' = IF Visited = graph.node THEN "backedges" ELSE "aborted"
    /\ UNCHANGED <<graph, path, preorderList, last, attrs, nodeLookup, w, body, worklist,
                   loops>>

-----------------------------------------------------------------------------
(* analyze_loops.  Attributes and loops are kept by number.                *)

PredNumbers(i) == {NumberOf(p) : p \in Preds(graph, NodeAt(i))}

\* Part [A].
FindBackEdges ==
    /\ phase = "backedges"
    /\ phase' = "headers"
    /\ attrs' = [i \in Numbers |->
                   [backPreds    |-> {v \in PredNumbers(i) : IsAncestor(i, v)},
                    nonBackPreds |-> {v \in PredNumbers(i) : ~IsAncestor(i, v)},
                    header       |-> 0,
                    type         |-> "nonheader"]]
    /\ nodeLookup' = [i \in Numbers |-> i]
    /\ w' = Len(preorderList)
    /\ UNCHANGED <<graph, path, preorderList, last, body, worklist, loops>>

Idle == body = {} /\ worklist = {}

\* Part [B] for the next lower number: P gets the tails of the back edges.
TryHeader ==
    /\ phase = "headers" /\ Idle /\ w > 0
    /\ LET h     == w - 1
           tails == attrs[h].backPreds
           found == {nodeLookup[v] : v \in tails \ {h}}
       IN  /\ body' = found
           /\ worklist' = found
           /\ attrs' = [attrs EXCEPT ![h].type =
                          IF found # {} THEN "reducible"
                          ELSE IF h \in tails THEN "self" ELSE @]
           /\ w' = IF found = {} THEN h ELSE w
    /\ UNCHANGED <<graph, phase, path, preorderList, last, nodeLookup, loops>>

\* Mutant: the predecessors themselves, not the loops they were collapsed into.
PlainSources(x) == attrs[x].nonBackPreds

\* The collapsed loops that lead to x from outside.
Sources(x) == {nodeLookup[y] : y \in attrs[x].nonBackPreds}

Alien(x) == {y \in Sources(x) : ~IsAncestor(w - 1, y)}

\* Mutant: what is in P already is pushed again.
PushedAgain(x) == Sources(x) \ (Alien(x) \cup {w - 1})

Pushed(x) == Sources(x) \ (Alien(x) \cup body \cup {w - 1})

ExpandBody ==
    /\ phase = "headers"
    /\ \E x \in worklist :
        /\ body' = body \cup Pushed(x)
        /\ worklist' = (worklist \ {x}) \cup Pushed(x)
        /\ attrs' = IF Alien(x) = {} THEN attrs
                    ELSE [attrs EXCEPT ![w - 1].type = "irreducible",
                                       ![w - 1].nonBackPreds = @ \cup Alien(x)]
    /\ UNCHANGED <<graph, phase, path, preorderList, last, nodeLookup, w, loops>>

\* Mutant: the representative changes, but not for the nodes already in its set.
UnionOfRepresentatives(S, h) ==
    [i \in Numbers |-> IF i \in S THEN h ELSE nodeLookup[i]]

\* Union(x, h) for every x in S.
UnionInto(S, h) == [i \in Numbers |-> IF nodeLookup[i] \in S THEN h ELSE nodeLookup[i]]

CollapseLoop ==
    /\ phase = "headers" /\ worklist = {} /\ body # {}
    /\ attrs' = [i \in Numbers |->
                   IF i \in body THEN [attrs[i] EXCEPT !.header = w - 1] ELSE attrs[i]]
    /\ nodeLookup' = UnionInto(body, w - 1)
    /\ body' = {}
    /\ w' = w - 1
    /\ UNCHANGED <<graph, phase, path, preorderList, last, worklist, loops>>

FinishHeaders ==
    /\ phase = "headers" /\ Idle /\ w = 0
    /\ phase' = "tree"
    /\ UNCHANGED <<graph, path, preorderList, last, attrs, nodeLookup, w, body, worklist,
                   loops>>

-----------------------------------------------------------------------------
(* _build_loop_tree and LoopInfo.  The root stands for the flow and is no  *)
(* loop.                                                                   *)

OfType(types) == {i \in Numbers \ {0} : attrs[i].type \in types}

HeaderNode(i) == NodeAt(attrs[i].header)

LoopInfoOf(i) ==
    [parent    |-> HeaderNode(i),
     type      |-> attrs[i].type,
     backPreds |-> {NodeAt(v) : v \in attrs[i].backPreds},
     nonheader |-> {NodeAt(j) : j \in {k \in OfType({"nonheader"}) : attrs[k].header = i}}]

BuildLoopTree ==
    /\ phase = "tree"
    /\ IF OfType({"irreducible"}) # {}
       THEN phase' = "aborted" /\ UNCHANGED loops
       ELSE /\ phase' = "analyzed"
            /\ loops' = [h \in {NodeAt(i) : i \in OfType({"reducible", "self"})} |->
                           LoopInfoOf(NumberOf(h))]
    /\ UNCHANGED <<graph, path, preorderList, last, attrs, nodeLookup, w, body, worklist>>

Root == graph.entry

Headers == DOMAIN loops

\* get_body_nodes: of inner loops, only the headers.
BodyNodes(h) == loops[h].nonheader \cup {m \in Headers : loops[m].parent = h}

\* Mutant: the back edges of a loop count as exits.
ExitEdgesWithBack(h) ==
    {e \in graph.edge : e[1] \in loops[h].nonheader \cup {h} /\ e[2] \notin BodyNodes(h)}

\* get_exit_edges.
ExitEdges(h) ==
    {e \in graph.edge : /\ e[1] \in loops[h].nonheader \cup {h}
                        /\ e[2] \notin BodyNodes(h) \cup {h}}

\* lookup_node: the loop headers known for a node.
LookupNode(n) == IF n \in Headers THEN {n} ELSE {h \in Headers : n \in BodyNodes(h)}

\* get_loop_level.
LoopLevel ==
    LET level[h \in Headers] ==
            IF loops[h].parent = Root THEN 0 ELSE level[loops[h].parent] + 1
    IN  level

\* _note_preorder_number passes its counter by value.
LoopPreorderNumber ==
    LET number[h \in Headers \cup {Root}] ==
            IF h = Root THEN 1 ELSE number[loops[h].parent] + 1
    IN  number

Stopped ==
    /\ phase \in {"analyzed", "aborted"}
    /\ UNCHANGED vars

AnalysisStep ==
    \/ PruneUnreachable \/ VisitSuccessor \/ LeaveNode \/ CheckTree
    \/ FindBackEdges \/ TryHeader \/ ExpandBody \/ CollapseLoop \/ FinishHeaders
    \/ BuildLoopTree

Next == AnalysisStep \/ Stopped

Spec == Init /\ [][Next]_vars /\ WF_vars(Next)

-----------------------------------------------------------------------------
(* Type invariant.                                                         *)

Attributes == [backPreds    : SUBSET Numbers,
               nonBackPreds : SUBSET Numbers,
               header       : Numbers,
               type         : {"nonheader", "self", "reducible", "irreducible"}]

\* Every variable keeps its type; what is kept by number is kept for the numbers
\* _dfs has given, once each.
TypeOK ==
    /\ phase \in Phases
    /\ IsFlowGraph(graph)
    /\ path \in Seq(graph.node) /\ IsInjective(path)
    /\ preorderList \in Seq(graph.node) /\ IsInjective(preorderList)
    /\ \A n \in DOMAIN last : n \in Visited /\ last[n] \in Numbers
    /\ phase \in {"headers", "tree", "analyzed"} =>
         attrs \in [Numbers -> Attributes] /\ nodeLookup \in [Numbers -> Numbers]
    /\ w \in 0 .. Len(preorderList)
    /\ worklist \subseteq body /\ body \subseteq Numbers
    /\ Headers \subseteq graph.node

-----------------------------------------------------------------------------
(* Correctness of the analysis.                                            *)

\* Whatever the order of the search, the edges analyze_loops takes for back edges
\* are those of the cycles: without them the graph is acyclic, and in a reducible
\* graph they are the edges to a dominator (DfsTree, isAncestor, part [A]).
BackEdgesFound ==
    phase = "headers" /\ w = Len(preorderList) =>
        LET found == {e \in graph.edge :
                         NumberOf(e[1]) \in attrs[NumberOf(e[2])].backPreds}
        IN  /\ Acyclic([graph EXCEPT !.edge = @ \ found])
            /\ Reducible(graph) => found = BackEdges(graph)

\* Between two headers, Find yields the outermost loop found so far that holds the
\* node: Union has collapsed each loop into its header and nothing else.
RepresentativesOutermost ==
    phase = "headers" /\ Idle /\ Reducible(graph) =>
        LET nest  == NaturalLoops(graph)
            found == {loop \in nest : NumberOf(loop.head) >= w}
        IN  \A i \in Numbers :
                nodeLookup[i] =
                    Min({i} \cup {NumberOf(loop.head) : loop \in Around(found, NodeAt(i))})

\* The loop tree is the nesting of the natural loops: their heads, their tails, the
\* innermost loop around each of them, and the nodes each loop is innermost for; and
\* lookup_node returns the innermost loop (its FIXME asks whether it does).
LoopNestCorrect ==
    phase = "analyzed" =>
        LET nest == NaturalLoops(graph)
        IN  /\ Headers = {loop.head : loop \in nest}
            /\ \A loop \in nest :
                loops[loop.head] =
                    [parent    |-> InnermostHead(Around(nest, loop.head) \ {loop}, Root),
                     type      |-> IF loop.tails = {loop.head} THEN "self" ELSE "reducible",
                     backPreds |-> loop.tails,
                     nonheader |-> {n \in loop.nodes \ Headers :
                                      InnermostHead(Around(nest, n), Root) = loop.head}]
            /\ \A n \in graph.node :
                LookupNode(n) = {InnermostHead(Around(nest, n), Root)} \ {Root}

LeavingEdges(loop) ==
    {e \in graph.edge : e[1] \in loop.nodes /\ e[2] \notin loop.nodes}

\* The exit edges of a loop are the edges that leave it from nodes it is the
\* innermost loop of.
ExitEdgesLeave ==
    phase = "analyzed" =>
        \A loop \in NaturalLoops(graph) :
            ExitEdges(loop.head) =
                {e \in LeavingEdges(loop) : LookupNode(e[1]) = {loop.head}}

\* The analysis gives up on a flow exactly if it is irreducible, or has nothing
\* but its entry.
RejectsIrreducible ==
    /\ phase = "analyzed" => Reducible(graph)
    /\ phase = "aborted" => ~Reducible(graph) \/ graph.node = {Root}

\* Every step leaves less to do, so the analysis comes to an end, on irreducible
\* flows too: P and the predecessors of the header grow while P is expanded, but no
\* node gets into the worklist of one header twice.
AnalysisProgresses ==
    [][ \/ phase' # phase
        \/ /\ phase = "dfs"
           /\ \/ Len(preorderList') > Len(preorderList)
              \/ DOMAIN last' \ DOMAIN last # {}
        \/ /\ phase = "headers"
           /\ \/ w' < w
              \/ body' \ body # {} /\ body \subseteq body'
              \/ body' = body /\ worklist' \subseteq worklist /\ worklist' # worklist ]_vars
=============================================================================
