----------------------------- MODULE MCMapping -----------------------------
(***************************************************************************)
(* Jobs for Mapping.  Node 1 is the entry of a flow, which leads to node 2 *)
(* and nothing else, the last node is its exit; the others lead to at most *)
(* two.  Both flows have been analysed and reduced, and their control      *)
(* dependencies computed, before they are mapped: they are reducible, have *)
(* no back edge out of an inner loop, and control never gets stuck.        *)
(***************************************************************************)
EXTENDS Mapping

CONSTANTS
    Sizes,       \* numbers of nodes between entry and exit, if nothing is lost or changed
    LostSizes,   \* if places of up to Lost nodes are unknown on one side
    MatchSizes,  \* if loops are changed, skipped and matched in all ways
    Lost

Flow(size, to) ==
    LET nodes == 1 .. size + 2
    IN  [node  |-> nodes,
         edge  |-> {<<1, 2>>} \cup UNION {{<<n, s>> : s \in to[n]} : n \in DOMAIN to},
         entry |-> 1,
         exit  |-> size + 2,
         place |-> [n \in nodes |-> n]]

HasDeepBackEdge(f) ==
    LET nest == NaturalLoops(f)
    IN  \E outer, inner \in nest :
            /\ inner # outer /\ inner.head \in outer.nodes
            /\ (outer.tails \cap inner.nodes) \ {inner.head} # {}

Prepared(f) ==
    /\ ReachedFrom(Transposed(f), {f.exit}, f.node) = f.node
    /\ Reducible(f) /\ ~HasDeepBackEdge(f)

\* Nodes are numbered as a breadth-first search comes to them.
BreadthFirst(f) ==
    LET first(n) == Min(Preds(f, n))
    IN  \A n \in f.node \ {1, f.exit} :
            first(n) < n /\ (n + 1 < f.exit => first(n) <= first(n + 1))

Flows(size) ==
    LET choices == {S \in SUBSET (2 .. size + 2) : Cardinality(S) \in 1 .. 2}
        all     == {Flow(size, to) : to \in [2 .. size + 1 -> choices]}
    IN  {f \in {g \in all : ReachableNodes(g) = g.node} : BreadthFirst(f) /\ Prepared(f)}

Job(bin, src, matches, annotated, mistaken) ==
    [bin |-> bin, src |-> src, matches |-> matches,
     annotated |-> annotated, mistaken |-> mistaken]

Itself(S) == [x \in S |-> x]

\* A flow without the back edges of some loops.
Unrolled(f, heads) ==
    [f EXCEPT !.edge = @ \ {e \in BackEdges(f) : e[2] \in heads}]

Forgotten(f, nodes) ==
    [f EXCEPT !.place = [n \in f.node |-> IF n \in nodes THEN NoPlace ELSE @[n]]]

PartialInjections(S, T) ==
    UNION {{m \in [D -> T] : IsInjective(m)} : D \in SUBSET S}

\* The same flow twice.
SameJobs == {Job(f, f, Itself(Heads(f)), {}, {}) : f \in UNION {Flows(n) : n \in Sizes}}

LostJobs ==
    UNION {UNION {{Job(Forgotten(f, lost), f, Itself(Heads(f)), {}, {}),
                   Job(f, Forgotten(f, lost), Itself(Heads(f)), {}, {})} :
                      lost \in {S \in SUBSET f.node : Cardinality(S) \in 1 .. Lost}} :
              f \in UNION {Flows(n) : n \in LostSizes}}

\* Node 6 has conditions of its own, and no decision leads to it directly.
Crossing == Flow(5, <<{2}, {3, 4}, {5, 7}, {6}, {6}, {7}>>)

CrossingJobs == {Job(Crossing, Forgotten(Crossing, {6}), Itself({}), {}, {})}

\* Loops the compiler has added, one or all, with any matching and any annotations.
MatchJobs ==
    LET Ways(f, g) ==
            LET bheads == Heads(f)
                matchings == PartialInjections(Heads(g), bheads)
            IN  {Job(f, g, m, a, {}) : m \in matchings, a \in SUBSET bheads}
                \cup {Job(f, g, m, a, a) : m \in matchings, a \in {S \in SUBSET bheads : IsOne(S)}}
        Unrollings(f) == {Unrolled(f, S) : S \in {{}, Heads(f)} \cup {{h} : h \in Heads(f)}}
    IN  UNION {UNION {Ways(f, g) : g \in {u \in Unrollings(f) : ReachableNodes(u) = u.node /\ Prepared(u)}} :
                  f \in UNION {Flows(n) : n \in MatchSizes}}

MCJobs == SameJobs \cup LostJobs \cup CrossingJobs \cup MatchJobs
=============================================================================
