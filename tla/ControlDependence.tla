------------------------- MODULE ControlDependence -------------------------
(***************************************************************************)
(* ControlFlow.get_control_dependencies (src/py-mapping/fparser/           *)
(* control_flow.py): which nodes an edge decides about.  It builds the     *)
(* post-dominator tree of the flow, numbers it so that dominance is a      *)
(* comparison of numbers (src/py-mapping/flow/dominator.py), and asks the  *)
(* tree for the nearest common dominator of the two ends of every edge     *)
(* that is a decision.  The queries are those of CommonDominator.          *)
(***************************************************************************)
EXTENDS CommonDominator

CONSTANTS
    ControlFlows,  \* flows as _post_init leaves them; exit may be NoNode
    NoNode         \* None

ASSUME NoNodeIsNone == NoNode \notin Nat

IsControlFlow(c) ==
    /\ IsFlowGraph(c)
    /\ ReachableNodes(c) = c.node
    /\ c.exit \in c.node \cup {NoNode}
    /\ \A e \in c.edge : e[1] # c.exit
    /\ 0 \in c.node => c.exit = 0

ASSUME ControlFlowsUsable == \A c \in ControlFlows : IsControlFlow(c)

VARIABLES
    digraph,  \* the ControlFlow
    phase,    \* what get_control_dependencies is at
    num,      \* the 'num' marks of the tree
    las,      \* its 'las' marks
    path,     \* the calls of dfs in progress
    edge,     \* the edge asked about, a set of at most one
    left,     \* edges the loop has not come to yet
    ctrldep   \* _ctrldep

treeVars  == <<tree, num, las, path>>
queryVars == <<pc, nodes, stacks, turn, visited, reentered, arcs, result>>
depVars   == <<digraph, phase, edge, left, ctrldep>>
allVars   == <<treeVars, queryVars, depVars>>

\* A tree by itself, to be asked about any nodes.
InitQueries ==
    /\ Init
    /\ digraph = NoNode /\ phase = "asked"
    /\ num = << >> /\ las = << >> /\ path = << >>
    /\ edge = {} /\ left = {} /\ ctrldep = << >>

NoTree == [node |-> {}, root |-> NoNode, parent |-> << >>]

InitDependence ==
    /\ digraph \in ControlFlows
    /\ phase = "tree"
    /\ tree = NoTree /\ num = << >> /\ las = << >> /\ path = << >>
    /\ edge = {} /\ left = digraph.edge /\ ctrldep = << >>
    /\ pc = "idle" /\ nodes = {} /\ result = NoNode
    /\ stacks = << >> /\ turn = 1
    /\ visited = {} /\ reentered = {} /\ arcs = {}

AbortDependence == phase' = "aborted" /\ UNCHANGED <<digraph, edge, left, ctrldep>>

-----------------------------------------------------------------------------
(* AbstractDominatorTree.__init__ on the reversed graph.                   *)

\* Every path from b to the exit goes through a.
PostDominates(c, a, b) == c.exit \notin ReachedFrom(c, {b}, c.node \ {a})

\* networkx.immediate_dominators, whose answer has the nodes that reach the exit.
ImmediatePostDominators(c) ==
    LET ends  == ReachedFrom(Transposed(c), {c.exit}, c.node)
        above == {p \in ends \X ends : p[1] # p[2] /\ PostDominates(c, p[1], p[2])}
    IN  [n \in ends \ {c.exit} |->
            CHOOSE a \in ends :
                /\ <<a, n>> \in above
                /\ \A d \in ends \ {a} : <<d, n>> \in above => <<d, a>> \in above]

BuildTree ==
    /\ phase = "tree"
    /\ IF digraph.exit \notin digraph.node
       THEN AbortDependence /\ UNCHANGED treeVars
       ELSE LET up == ImmediatePostDominators(digraph)
            IN  /\ tree' = [node   |-> {digraph.exit} \cup DOMAIN up,
                            root   |-> digraph.exit,
                            parent |-> up]
                /\ num' = [n \in {digraph.exit} |-> 0]
                /\ path' = <<digraph.exit>>
                /\ phase' = "number"
                /\ UNCHANGED <<las, digraph, edge, left, ctrldep>>
    /\ UNCHANGED queryVars

\* f, with v for x.
With(f, x, v) == [n \in DOMAIN f \cup {x} |-> IF n = x THEN v ELSE f[n]]

Children(n) == {c \in DOMAIN tree.parent : tree.parent[c] = n}

Unnumbered(n) == Children(n) \ DOMAIN num

\* _mark_dfs_preorder_number; successors come in the order of a dict.
NumberChild ==
    /\ phase = "number"
    /\ \E c \in Unnumbered(Last(path)) :
        /\ num' = With(num, c, Cardinality(DOMAIN num))
        /\ path' = Append(path, c)
    /\ UNCHANGED <<tree, las, depVars, queryVars>>

\* Mutant: the number of the next node, not of the last one in the subtree.
NextNumber == Cardinality(DOMAIN num)

LastNumber == Cardinality(DOMAIN num) - 1

LeaveNode ==
    /\ phase = "number" /\ path # << >>
    /\ Unnumbered(Last(path)) = {}
    /\ las' = With(las, Last(path), LastNumber)
    /\ path' = Front(path)
    /\ phase' = IF path' = << >> THEN "edges" ELSE phase
    /\ UNCHANGED <<tree, num, digraph, edge, left, ctrldep, queryVars>>

-----------------------------------------------------------------------------
(* The loop of get_control_dependencies.                                   *)

TestDominance(a, b) == num[a] <= num[b] /\ num[b] <= las[a]

Decides(u, v) == ~TestDominance(v, u)

\* get_preorder_number fails on a node that is not in the tree.
LookAtEdge ==
    /\ phase = "edges" /\ edge = {}
    /\ \E e \in left :
        IF ~({e[1], e[2]} \subseteq tree.node)
        THEN AbortDependence /\ UNCHANGED queryVars
        ELSE /\ left' = left \ {e}
             /\ IF Decides(e[1], e[2])
                THEN /\ edge' = {e} /\ nodes' = {e[1], e[2]}
                     /\ pc' = "stacks" /\ stacks' = << >> /\ turn' = 1
                     /\ MarksReset
                     /\ UNCHANGED result
                ELSE UNCHANGED <<edge, queryVars>>
             /\ UNCHANGED <<digraph, phase, ctrldep>>
    /\ UNCHANGED treeVars

\* A turn of nearest_common_dominator.
Query ==
    /\ phase = "asked" \/ edge # {}
    /\ MakeStack \/ StepStack \/ ExamineStack
    /\ UNCHANGED <<num, las, path, depVars>>

Ask ==
    /\ phase = "asked"
    /\ AskForOne \/ AskForMany
    /\ UNCHANGED <<num, las, path, depVars>>

\* Mutant: a loop header does not decide about itself.
ControlledBelow(u, v, lca) == PathUp(tree, v) \ PathUp(tree, lca)

Controlled(u, v, lca) ==
    (PathUp(tree, v) \ PathUp(tree, lca)) \cup (IF lca = u THEN {lca} ELSE {})

NoteDependence ==
    /\ phase = "edges" /\ pc = "idle"
    /\ \E e \in edge : ctrldep' = With(ctrldep, e, Controlled(e[1], e[2], result))
    /\ edge' = {}
    /\ UNCHANGED <<digraph, phase, left, treeVars, queryVars>>

Finish ==
    /\ phase = "edges" /\ edge = {} /\ left = {}
    /\ phase' = "done"
    /\ UNCHANGED <<digraph, edge, left, ctrldep, treeVars, queryVars>>

Ended ==
    /\ phase \in {"done", "aborted"} \/ pc = "aborted"
    /\ UNCHANGED allVars

NextDependence ==
    \/ BuildTree \/ NumberChild \/ LeaveNode
    \/ LookAtEdge \/ Query \/ Ask \/ NoteDependence \/ Finish
    \/ Ended

SpecDependence ==
    /\ InitDependence \/ InitQueries
    /\ [][NextDependence]_allVars /\ WF_allVars(Query)

-----------------------------------------------------------------------------
\* Every variable keeps its type; numbers are given to nodes of the tree, and every edge
\* is left, asked about or done.
TypeOKDependence ==
    /\ TypeOK
    /\ phase \in {"asked", "tree", "number", "edges", "done", "aborted"}
    /\ DOMAIN las \subseteq DOMAIN num /\ DOMAIN num \subseteq tree.node
    /\ Range(path) \subseteq DOMAIN num \ DOMAIN las
    /\ phase # "asked" => edge \cup left \cup DOMAIN ctrldep \subseteq digraph.edge
    /\ Cardinality(edge) <= 1 /\ edge \cap left = {}

-----------------------------------------------------------------------------
(* Correctness.                                                            *)

\* test_dominance, two comparisons of numbers, is post-dominance of the flow,
\* whatever order the children of a node were numbered in.
DominanceTested ==
    phase \in {"done", "aborted"} =>
        \A a, b \in tree.node : TestDominance(a, b) <=> PostDominates(digraph, a, b)

\* The edges recorded are those whose target is not on every way from their source
\* to the exit; and such an edge (u, v) controls the nodes that are on every way
\* from v, but not on every way from u on (the header of a loop among them, when
\* taking the edge is what leads back to it).
DependenceCorrect ==
    /\ TypeOKDependence
    /\ phase = "done" =>
        /\ DOMAIN ctrldep = {e \in digraph.edge : ~PostDominates(digraph, e[2], e[1])}
        /\ \A e \in DOMAIN ctrldep :
            ctrldep[e] = {w \in digraph.node :
                            /\ PostDominates(digraph, w, e[2])
                            /\ w = e[1] \/ ~PostDominates(digraph, w, e[1])}

\* Nodes from which the function does not come to its exit.
Endless(c) == {n \in c.node : c.exit \notin ReachedFrom(c, {n}, c.node)}

\* No assertion of a query fails: the rounds end with one stack, it holds a re-entered
\* node, and no mark of a re-entered node is taken back.  Any other assertion fails only
\* if control can get stuck for ever, and then no result is returned: the tree lacks exactly the nodes that do not reach the exit.
FailsIfEndless ==
    /\ pc # "aborted"
    /\ phase = "aborted" => Endless(digraph) # {}
    /\ phase = "done" => Endless(digraph) = {}

=============================================================================
