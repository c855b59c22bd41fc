-------------------------- MODULE DominatorLumping --------------------------
(***************************************************************************)
(* DominatorLumping (src/py-mapping/mapping/domlump_mapper.py) completes   *)
(* the map of one level: every unmapped binary node is lumped into a       *)
(* mapped one, first along simple paths, preferably downwards, then the    *)
(* heads of simple paths, then the rest up the dominator tree.             *)
(*                                                                         *)
(* The nodes of a level are called by their preorder numbers in the        *)
(* dominator tree, so all orders of the tree are covered when all graphs   *)
(* numbered like that are.                                                 *)
(***************************************************************************)
EXTENDS Lumping

CONSTANT Levels  \* graphs with the set of nodes that are mapped already

\* The nodes n dominates.
Below(g, n) == g.node \ ReachedFrom(g, {g.entry}, g.node \ {n})

\* A node comes after its dominators, and before what they do not dominate.
NumberedInPreorder(g) ==
    \A n \in g.node :
        LET below == Below(g, n) IN below = {m \in g.node : n <= m /\ m <= Max(below)}

\* Every mapper before maps the entry, or the header, of a level.
IsLevel(g) ==
    /\ g.node \subseteq Nat /\ IsFiniteSet(g.node)
    /\ g.edge \subseteq g.node \X g.node
    /\ g.entry \in g.mapped /\ g.mapped \subseteq g.node
    /\ ReachableNodes(g) = g.node
    /\ NumberedInPreorder(g)

ASSUME LevelsAreLevels == \A g \in Levels : IsLevel(g)

VARIABLES
    level,    \* btfg_flow, and the mapped nodes of input_map
    up,       \* the dominator tree
    pass,     \* what _map_subgraph is doing
    left,     \* the nodes the pass has not looked at
    merged,   \* nodes_merged, first_pass_merged_nodes
    lookup    \* node_lookup

vars == <<level, up, pass, left, merged, lookup>>

Unmapped == level.node \ level.mapped

Init ==
    /\ level \in Levels
    /\ up = ImmediateDominators(level)
    /\ pass = "simple"
    /\ left = Unmapped
    /\ merged = {}
    /\ lookup = Unlumped(level)

\* Next of a list in reversed preorder.
Bottom(S) == Max(S)

\* The next of the unmapped nodes, from the last to the first; it fails if there are
\* two nodes below it ("Invalid dominator tree").
MergeSimplePath ==
    /\ pass = "simple" /\ left # {}
    /\ LET n == Bottom(left)
       IN  IF OnSimplePath(level, n) /\ Cardinality(Children(up, n)) > 1
           THEN pass' = "aborted" /\ UNCHANGED <<left, merged, lookup>>
           ELSE /\ lookup' = LumpSimplePath(level, up, level.mapped, lookup, n)
                /\ merged' = IF OnSimplePath(level, n) THEN merged \cup {n} ELSE merged
                /\ left' = left \ {n}
                /\ UNCHANGED pass
    /\ UNCHANGED <<level, up>>

Emptied(S) == \A m \in level.node : lookup[m] \notin S

\* "Algorithm failed, must fix."
FinishSimplePaths ==
    /\ pass = "simple" /\ left = {}
    /\ pass' = IF Emptied(merged) THEN "heads" ELSE "aborted"
    /\ left' = Unmapped \ merged
    /\ UNCHANGED <<level, up, merged, lookup>>

\* last_nodes is a set: heads come in any order.
MergeHead ==
    /\ pass = "heads"
    /\ \E n \in left :
        /\ lookup' = LumpHead(level, up, level.mapped, lookup, n)
        /\ merged' = IF lookup'[n] # lookup[n] THEN merged \cup {n} ELSE merged
        /\ left' = left \ {n}
    /\ UNCHANGED <<level, up, pass>>

FinishHeads ==
    /\ pass = "heads" /\ left = {}
    /\ pass' = "contract"
    /\ left' = Unmapped \ merged
    /\ UNCHANGED <<level, up, merged, lookup>>

Contract ==
    /\ pass = "contract" /\ left # {}
    /\ LET n == Bottom(left)
       IN  /\ lookup' = LumpUp(up, lookup, n)
           /\ merged' = merged \cup {n}
           /\ left' = left \ {n}
    /\ UNCHANGED <<level, up, pass>>

\* "Not all unmapped nodes were assigned to mapped points."
Finish ==
    /\ pass = "contract" /\ left = {}
    /\ pass' = IF \A n \in level.node : lookup[n] \in level.mapped THEN "done" ELSE "aborted"
    /\ UNCHANGED <<level, up, left, merged, lookup>>

Ended ==
    /\ pass \in {"done", "aborted"}
    /\ UNCHANGED vars

Next ==
    \/ MergeSimplePath \/ FinishSimplePaths \/ MergeHead \/ FinishHeads
    \/ Contract \/ Finish
    \/ Ended

Spec == Init /\ [][Next]_vars /\ WF_vars(Next)

-----------------------------------------------------------------------------
\* What control runs through from n on before it can turn off.
StraightOn(g, n) ==
    LET straight == {e \in g.edge : IsOne(Succs(g, e[1]))}
    IN  ReachedFrom([node |-> g.node, edge |-> straight], {n}, g.node)

\* Instructions end up where they are sure to be accounted for: with a node that
\* has run whenever they run (a dominator), or one that control goes straight on to;
\* in every pass, whatever has been moved together before.
LumpedSoundly ==
    \A n \in level.node :
        Dominates(level, lookup[n], n) \/ lookup[n] \in StraightOn(level, n)

TypeOK ==
    /\ pass \in {"simple", "heads", "contract", "done", "aborted"}
    /\ left \subseteq Unmapped /\ merged \subseteq Unmapped
    /\ lookup \in [level.node -> level.node]

\* Nodes that were mapped keep their image, and in the end all others have one.
EveryNodeMapped ==
    /\ \A n \in level.mapped : lookup[n] = n
    /\ pass = "done" => \A n \in level.node : lookup[n] \in level.mapped

\* The map is completed, and no assertion fails on the way.  Neither the order of the
\* dominator tree nor what the passes leave behind for each other matters, only the order
\* of the heads, which are a set.
LumpingComplete ==
    /\ TypeOK
    /\ pass # "aborted"
    /\ EveryNodeMapped
    /\ pass = "done" => lookup \in Completions(level, level.mapped)
=============================================================================
