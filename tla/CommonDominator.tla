-------------------------- MODULE CommonDominator --------------------------
(***************************************************************************)
(* AbstractDominatorTree.nearest_common_dominator                          *)
(* (src/py-mapping/flow/dominator.py): the nearest node above a set of     *)
(* nodes in a dominator tree.  One stack per node walks up the tree; a     *)
(* node found a second time is re-entered; when one stack is left, what is *)
(* above its topmost re-entered node is undone and the rest of it become   *)
(* stacks of their own.  Stacks take turns, in the order of a Python set.  *)
(* The marks are attributes of the shared tree and outlive a query.        *)
(***************************************************************************)
EXTENDS FlowGraph, SequencesExt

CONSTANT Trees  \* the dominator trees to query

(* A tree is a record of its nodes, its root and the parents of the other  *)
(* nodes.  Node 0 counts as no node in the test `if below_v:`, which does  *)
(* no harm to a root (the exit of a source flow is node 0, the root of its *)
(* post-dominator tree).                                                   *)
IsTree(t) ==
    /\ t.node \subseteq Int /\ IsFiniteSet(t.node)
    /\ t.root \in t.node
    /\ t.parent \in [t.node \ {t.root} -> t.node]
    /\ \A S \in SUBSET (t.node \ {t.root}) : S # {} => \E n \in S : t.parent[n] \notin S
    /\ 0 \in t.node => t.root = 0

ASSUME TreesAreTrees == \A t \in Trees : IsTree(t)

VARIABLES
    tree,       \* _domTree
    pc,         \* where the query is
    nodes,      \* the nodes of the last query
    stacks,     \* stacks, without those that were used up
    turn,       \* the stack do_multi_dfs_round is at
    visited,    \* nodes marked 'vi'
    reentered,  \* nodes marked 're'
    arcs,       \* arcs marked 'vi', each by its lower end
    result      \* the answer to the last query

Init ==
    /\ tree \in Trees
    /\ pc = "idle"
    /\ nodes = {tree.root} /\ result = tree.root
    /\ stacks = << >> /\ turn = 1
    /\ visited = {} /\ reentered = {} /\ arcs = {}

-----------------------------------------------------------------------------
Nonempty == {i \in DOMAIN stacks : stacks[i] # << >>}

AskForOne ==
    /\ pc = "idle"
    /\ \E n \in tree.node : nodes' = {n} /\ result' = n
    /\ UNCHANGED <<tree, pc, stacks, turn, visited, reentered, arcs>>

\* Mutant: the marks of the last query stay (dominator.py:205-206).
MarksKept == UNCHANGED <<visited, reentered, arcs>>

MarksReset == visited' = {} /\ reentered' = {} /\ arcs' = {}

AskForMany ==
    /\ pc = "idle"
    /\ \E S \in SUBSET tree.node : Cardinality(S) > 1 /\ nodes' = S
    /\ MarksReset
    /\ pc' = "stacks"
    /\ stacks' = << >>
    /\ turn' = 1
    /\ UNCHANGED <<tree, result>>

\* mark_node_reentered also marks the node as visited.
MarkVisited(S) == visited \cup S

\* make_stack for the next node of the set.
MakeStack ==
    /\ pc = "stacks"
    /\ \E n \in nodes \ {stacks[i][1] : i \in DOMAIN stacks} :
        /\ stacks' = Append(stacks, <<n>>)
        /\ visited' = MarkVisited({n})
        /\ reentered' = reentered \cup {n}
    /\ pc' = IF Len(stacks') = Cardinality(nodes) THEN "rounds" ELSE pc
    /\ UNCHANGED <<tree, nodes, turn, arcs, result>>

\* Mutant: arcs are followed again and again.
NotAtRoot(st) == SubSeq(st, 1, Max({0} \cup {i \in DOMAIN st : st[i] # tree.root}))

\* do_dfs_step first pops the nodes that have no unvisited arc into them.
Unfinished(st) ==
    SubSeq(st, 1, Max({0} \cup {i \in DOMAIN st : st[i] \notin arcs \cup {tree.root}}))

ReachesRoot(st) == Last(st) = tree.root

\* One turn of do_multi_dfs_round, which begins only with two stacks or more.
StepStack ==
    /\ pc = "rounds"
    /\ turn = 1 => Cardinality(Nonempty) > 1
    /\ IF turn \notin Nonempty \/ ReachesRoot(stacks[turn])
       THEN UNCHANGED <<stacks, visited, reentered, arcs>>
       ELSE LET st == Unfinished(stacks[turn])
                u  == tree.parent[Last(st)]
            IN  IF st = << >>
                THEN /\ stacks' = [stacks EXCEPT ![turn] = st]
                     /\ UNCHANGED <<visited, reentered, arcs>>
                ELSE /\ arcs' = arcs \cup {Last(st)}
                     /\ visited' = visited \cup {u}
                     /\ IF u \notin visited
                        THEN /\ stacks' = [stacks EXCEPT ![turn] = Append(st, u)]
                             /\ UNCHANGED reentered
                        ELSE /\ stacks' = [stacks EXCEPT ![turn] = st]
                             /\ reentered' = reentered \cup {u}
    /\ turn' = IF turn = Len(stacks) THEN 1 ELSE turn + 1
    /\ UNCHANGED <<tree, pc, nodes, result>>

ReenteredIn(st) == {i \in DOMAIN st : st[i] \in reentered}

\* Mutant: the lowest re-entered node instead of the topmost.
Lowest(S) == Min(S)

Topmost(S) == Max(S)

\* What happens to the one stack left; an assertion fails if there is none ("Not
\* exactly one non-empty stack").  The arc above node 0 stays marked.
ExamineStack ==
    /\ pc = "rounds" /\ turn = 1
    /\ Cardinality(Nonempty) <= 1
    /\ LET st    == stacks[CHOOSE i \in Nonempty : TRUE]
           top   == Topmost(ReenteredIn(st))
           above == {st[i] : i \in top + 1 .. Len(st)}
           lower == {st[i] : i \in top .. Len(st) - 1}
           kept  == {st[i] : i \in 1 .. top}
       IN  IF Nonempty = {} \/ ReenteredIn(st) = {} \/ above \cap reentered # {}
           THEN pc' = "aborted" /\ UNCHANGED <<stacks, visited, reentered, arcs, result>>
           ELSE /\ arcs' = arcs \ (lower \ {0})
                /\ visited' = (visited \ above) \cup kept
                /\ reentered' = reentered \cup kept
                /\ stacks' = [i \in 1 .. top |-> <<st[i]>>]
                /\ IF top = 1 THEN pc' = "idle" /\ result' = st[1]
                              ELSE UNCHANGED <<pc, result>>
    /\ UNCHANGED <<tree, nodes, turn>>

-----------------------------------------------------------------------------
(* Type invariant.                                                         *)

\* Every variable keeps its type; a re-entered node is visited.
TypeOK ==
    /\ pc \in {"idle", "stacks", "rounds", "aborted"}
    /\ nodes \subseteq tree.node /\ (nodes # {} => result \in tree.node \/ pc # "idle")
    /\ stacks \in Seq(Seq(tree.node)) /\ turn \in 1 .. Len(stacks) + 1
    /\ visited \subseteq tree.node /\ reentered \subseteq visited
    /\ arcs \subseteq tree.node \ {tree.root}

-----------------------------------------------------------------------------
(* Correctness.                                                            *)

\* The nodes from n up to the root of the tree t.
PathUp(t, n) ==
    LET upwards == [node |-> t.node,
                    edge |-> {<<m, t.parent[m]>> : m \in t.node \ {t.root}}]
    IN  ReachedFrom(upwards, {n}, t.node)

NearestCommon(S) ==
    LET common == {a \in tree.node : \A n \in S : a \in PathUp(tree, n)}
    IN  CHOOSE a \in common : common \subseteq PathUp(tree, a)

\* A query answers with the nearest node that is above, or is, each of the nodes,
\* whatever the order of the stacks and whatever queries came before.
AnswersNearest == (pc = "idle" /\ nodes # {}) => result = NearestCommon(nodes)

\* Every query is answered.
QueriesAnswered == pc = "stacks" ~> pc = "idle"
=============================================================================
