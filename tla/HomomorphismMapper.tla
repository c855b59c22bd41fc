------------------------- MODULE HomomorphismMapper -------------------------
(***************************************************************************)
(* HomomorphismMapper._map_subgraph (src/py-mapping/mapping/               *)
(* homo_mapper.py): a map from the binary nodes of a level to source nodes *)
(* that debug information allows and that keeps dominance.  Round by round *)
(* the first node of the worklist is mapped to its first reference without *)
(* a known conflict; pairs of mapped nodes that violate dominance become   *)
(* conflicts and go back to the worklist.                                  *)
(***************************************************************************)
EXTENDS FiniteSetsExt, SequencesExt, Naturals

(* An input has the dominator trees of both flows, bin and src, each with  *)
(* its nodes, its root and the parents of the other nodes; the nodes of    *)
(* the level (nodes_b); their references (potential_map_bin2src); the      *)
(* fixed points, where surrogates go by the headers of their loops         *)
(* (translate_id); and the two orders (hom_order, hom_order_src) as the    *)
(* positions of the nodes.                                                 *)
CONSTANTS Inputs, NoNode

\* The nodes from n up to the root.
PathUp(t, n) ==
    LET within[k \in Nat] ==
            IF k = 0 THEN {n}
            ELSE LET less == within[k - 1]
                 IN  less \cup {t.parent[m] : m \in less \ {t.root}}
    IN  within[Cardinality(t.node)]

IsTree(t) ==
    /\ IsFiniteSet(t.node) /\ NoNode \notin t.node
    /\ t.parent \in [t.node \ {t.root} -> t.node]
    /\ \A n \in t.node : t.root \in PathUp(t, n)

IsInput(i) ==
    /\ IsTree(i.bin) /\ IsTree(i.src)
    /\ i.nodes \subseteq i.bin.node
    /\ i.refs \in [i.nodes -> SUBSET i.src.node]
    /\ DOMAIN i.fixed \subseteq i.bin.node /\ i.fixed \in [DOMAIN i.fixed -> i.src.node]
    /\ i.order \in [i.bin.node -> Nat] /\ IsInjective(i.order)
    /\ i.srcOrder \in [i.src.node -> Nat] /\ IsInjective(i.srcOrder)

ASSUME InputsAreInputs == \A i \in Inputs : IsInput(i)

VARIABLES
    input,
    stage,
    worklist,
    f_map,    \* a node may be in the map and be mapped to NoNode
    f_confl   \* <<b, a, b_, a_>>: b -> a conflicts with b_ -> a_

vars == <<input, stage, worklist, f_map, f_confl>>

Mapped(map) == {b \in DOMAIN map : map[b] # NoNode}

\* predom_tree().test_dominance
BinDominates(b, b_) == b \in PathUp(input.bin, b_)
SrcDominates(a, a_) == a \in PathUp(input.src, a_)

\* Mutant: what dominates must still dominate, and no more.
LosesDominance(map, b, b_) ==
    \/ BinDominates(b, b_) /\ ~SrcDominates(map[b], map[b_])
    \/ BinDominates(b_, b) /\ ~SrcDominates(map[b_], map[b])

Fails(map, b, b_) ==
    \/ BinDominates(b, b_) # SrcDominates(map[b], map[b_])
    \/ BinDominates(b_, b) # SrcDominates(map[b_], map[b])

IsHomomorphism(map) ==
    \A b, b_ \in Mapped(map) : b # b_ =>
        /\ BinDominates(b, b_) <=> SrcDominates(map[b], map[b_])
        /\ BinDominates(b_, b) <=> SrcDominates(map[b_], map[b])

Init ==
    /\ input \in Inputs
    /\ stage = "start"
    /\ worklist = input.nodes
    /\ f_map = input.fixed
    /\ f_confl = {}

\* "Initial homomorphism test failed for fixed points."
TestFixedPoints ==
    /\ stage = "start"
    /\ stage' = IF \A b, b_ \in DOMAIN f_map : b # b_ => ~Fails(f_map, b, b_)
                THEN "rounds" ELSE "aborted"
    /\ UNCHANGED <<input, worklist, f_map, f_confl>>

-----------------------------------------------------------------------------
(* A round.                                                                *)

\* check_conflict
Conflicting(b, a) ==
    \E c \in f_confl : /\ c[1] = b /\ c[2] = a
                       /\ c[3] \in DOMAIN f_map /\ f_map[c[3]] = c[4]

Selectable(b) == {a \in input.refs[b] : ~Conflicting(b, a)}

First(S, order) == CHOOSE x \in S : \A y \in S : order[x] <= order[y]

Assign(map, b, a) == [n \in DOMAIN map \cup {b} |-> IF n = b THEN a ELSE map[n]]

\* Mutant: the conflict is noted for one of the two.
ConflictOfOne(map, b, b_) == {<<b_, map[b_], b, map[b]>>}

Conflict(map, b, b_) == {<<b, map[b], b_, map[b_]>>, <<b_, map[b_], b, map[b]>>}

\* add_conflict and add_back_to_worklist, for a pair that is still in the map.
Reject(found, b, b_) ==
    LET back == {b, b_} \ DOMAIN input.fixed
    IN  IF b = b_ \/ ~({b, b_} \subseteq Mapped(found.map)) \/ ~Fails(found.map, b, b_)
        THEN found
        ELSE [map   |-> [n \in DOMAIN found.map |-> IF n \in back THEN NoNode ELSE found.map[n]],
              confl |-> found.confl \cup Conflict(found.map, b, b_),
              back  |-> found.back \cup back]

\* test_nodes is a set: it is iterated in any order, the same in both loops.
RejectedFor(found, order, b) ==
    LET after[j \in Nat] == IF j = 0 THEN found ELSE Reject(after[j - 1], b, order[j])
    IN  after[Len(order)]

RejectedAlong(map, order) ==
    LET after[i \in Nat] ==
            IF i = 0 THEN [map |-> map, confl |-> {}, back |-> {}]
            ELSE RejectedFor(after[i - 1], order, order[i])
    IN  after[Len(order)]

Rejections(map) ==
    LET failing == {b \in Mapped(map) : \E b_ \in Mapped(map) \ {b} : Fails(map, b, b_)}
    IN  {RejectedAlong(map, order) : order \in SetToSeqs(failing)}

\* Nodes before the first that can be mapped are popped for good, if they are fixed
\* or if all of their references are in conflict.
Round ==
    /\ stage = "rounds" /\ worklist # {}
    /\ LET able == {b \in worklist \ DOMAIN input.fixed : Selectable(b) # {}}
           b    == First(able, input.order)
           map  == IF able = {} THEN f_map
                   ELSE Assign(f_map, b, First(Selectable(b), input.srcOrder))
           rest == IF able = {} THEN {}
                   ELSE {n \in worklist : input.order[n] > input.order[b]}
       IN  \E found \in Rejections(map) :
              /\ f_map' = found.map
              /\ f_confl' = f_confl \cup found.confl
              /\ worklist' = rest \cup found.back
    /\ UNCHANGED <<input, stage>>

-----------------------------------------------------------------------------
Children(t, n) == {c \in DOMAIN t.parent : t.parent[c] = n}

\* Children of n that are in the map, be it to NoNode, and have no children.
LeavesInMap(n) == {c \in Children(input.bin, n) \cap input.nodes \cap DOMAIN f_map :
                       Children(input.bin, c) = {}}

Ambiguous ==
    UNION {{c \in LeavesInMap(n) : \E d \in LeavesInMap(n) \ {c} :
                input.refs[c] \cap input.refs[d] # {}} : n \in input.bin.node}

RemoveAmbiguous ==
    /\ stage = "rounds" /\ worklist = {}
    /\ f_map' = Restrict(f_map, DOMAIN f_map \ Ambiguous)
    /\ stage' = "done"
    /\ UNCHANGED <<input, worklist, f_confl>>

Ended ==
    /\ stage \in {"done", "aborted"}
    /\ UNCHANGED vars

Next == TestFixedPoints \/ Round \/ RemoveAmbiguous \/ Ended

Spec == Init /\ [][Next]_vars /\ WF_vars(Next)

-----------------------------------------------------------------------------
TypeOK ==
    /\ stage \in {"start", "rounds", "done", "aborted"}
    /\ worklist \subseteq input.nodes
    /\ DOMAIN f_map \subseteq input.nodes \cup DOMAIN input.fixed
    /\ \A b \in Mapped(f_map) \ DOMAIN input.fixed : f_map[b] \in input.refs[b]
    /\ f_confl \subseteq input.bin.node \X input.src.node \X input.bin.node \X input.src.node

\* After every round the map keeps dominance both ways, so that no two nodes go to the
\* same source node, and it agrees with the fixed points and the debug information.
HomomorphismKept ==
    /\ TypeOK
    /\ stage \in {"rounds", "done"} => IsHomomorphism(f_map)
    /\ stage = "rounds" => \A b \in DOMAIN input.fixed : f_map[b] = input.fixed[b]

\* A round leaves less on the worklist, or it has learnt a conflict that was not
\* known: the rounds come to an end, whatever the order of the pairs.
RoundsProgress ==
    [][stage = "rounds" /\ stage' = "rounds" =>
          \/ f_confl' = f_confl /\ worklist' \subseteq worklist /\ worklist' # worklist
          \/ f_confl \subseteq f_confl' /\ f_confl' # f_confl]_vars

\* What else the map could be: also a homomorphism that debug information allows.
CouldBe(map) ==
    /\ \A b \in Mapped(map) \ DOMAIN input.fixed : map[b] \in input.refs[b]
    /\ IsHomomorphism(map)

Switched(map, b, b_) == [map EXCEPT ![b] = map[b_], ![b_] = map[b]]

\* homo_mapper.py:279: "Remove all entries from f_map that where we could have confused
\* siblings", and 285: "if has children, their dom. relationships will make it unambig.":
\* switching the images of two siblings does not give another map that is as good.
SiblingsUnmistakable ==
    stage = "done" => \A n \in input.bin.node :
        \A b, b_ \in (Children(input.bin, n) \cap Mapped(f_map)) \ DOMAIN input.fixed :
            b # b_ => ~CouldBe(Switched(f_map, b, b_))
=============================================================================
