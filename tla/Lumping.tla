------------------------------ MODULE Lumping ------------------------------
(***************************************************************************)
(* The steps of DominatorLumping._map_subgraph                             *)
(* (src/py-mapping/mapping/domlump_mapper.py) on one level of a binary     *)
(* flow: which set of nodes goes into which.  lookup is node_lookup: it    *)
(* takes each node to the node whose set it is in (node_sets is its        *)
(* inverse); up takes each node but the entry to its immediate dominator.  *)
(***************************************************************************)
EXTENDS FlowGraph

ImmediateDominators(g) ==
    LET above == {p \in g.node \X g.node : p[1] # p[2] /\ Dominates(g, p[1], p[2])}
    IN  [n \in g.node \ {g.entry} |->
            CHOOSE a \in g.node :
                /\ <<a, n>> \in above
                /\ \A d \in g.node \ {a} : <<d, n>> \in above => <<d, a>> \in above]

Children(up, n) == {c \in DOMAIN up : up[c] = n}

Unlumped(g) == [n \in g.node |-> n]

Union(lookup, a, b) == [n \in DOMAIN lookup |-> IF lookup[n] = a THEN b ELSE lookup[n]]

TheOne(S) == CHOOSE x \in S : TRUE

IsOne(S) == Cardinality(S) = 1

-----------------------------------------------------------------------------
(* merge_simple_paths, with maintain_order.                                *)

OnSimplePath(g, n) ==
    /\ IsOne(Preds(g, n)) /\ IsOne(Succs(g, n))
    /\ IsOne(Succs(g, TheOne(Preds(g, n))))
    /\ IsOne(Preds(g, TheOne(Succs(g, n))))

\* "prefer downwards": to where the node below has gone, if that is mapped.
SimpleTarget(up, mapped, lookup, n) ==
    LET below == {lookup[c] : c \in Children(up, n)} \cap mapped
    IN  IF below = {} THEN up[n] ELSE TheOne(below)

LumpSimplePath(g, up, mapped, lookup, n) ==
    IF OnSimplePath(g, n)
    THEN Union(lookup, n, SimpleTarget(up, mapped, lookup, n))
    ELSE lookup

-----------------------------------------------------------------------------
(* contract_dominator_tree: the heads of simple paths, and then the rest.  *)

\* Mutant: nodes that branch, too.
LeadsDown(g, up, n) == Cardinality(Preds(g, n)) > 1 /\ Children(up, n) # {}

IsHead(g, up, n) ==
    /\ Cardinality(Preds(g, n)) > 1 /\ IsOne(Succs(g, n))
    /\ IsOne(Children(up, n))

LumpHead(g, up, mapped, lookup, n) ==
    LET down == {lookup[s] : s \in Succs(g, n)}
    IN  IF IsHead(g, up, n) /\ down \cap mapped # {}
        THEN Union(lookup, n, TheOne(down \cap mapped))
        ELSE lookup

\* Mutant: into the set of the dominator, which may have been emptied.
LumpNextUp(up, lookup, n) == Union(lookup, n, up[n])

LumpUp(up, lookup, n) == Union(lookup, n, lookup[up[n]])

-----------------------------------------------------------------------------
(* The same in one go: from the leaves of the dominator tree to its root,  *)
(* except that heads come in any order.                                    *)

Depth(g) == [n \in g.node |-> Cardinality(Dominators(g, n))]

Topmost(depth, S) ==
    CHOOSE n \in S : \A m \in S : depth[n] < depth[m] \/ (depth[n] = depth[m] /\ n <= m)

\* A pass takes the set of nodes it has come to so far to what it has made of them, or to
\* all that it may have made of them.
SimplePass(g, up, depth, mapped) ==
    LET simple[S \in SUBSET (g.node \ mapped)] ==
            IF S = {} THEN Unlumped(g)
            ELSE LET n == Topmost(depth, S)
                 IN  LumpSimplePath(g, up, mapped, simple[S \ {n}], n)
    IN  simple

HeadPass(g, up, mapped, start, tops) ==
    LET heads[S \in SUBSET tops] ==
            IF S = {} THEN {start}
            ELSE UNION {{LumpHead(g, up, mapped, lookup, n) : lookup \in heads[S \ {n}]} : n \in S}
    IN  heads

LastPass(up, depth, start, left) ==
    LET rest[S \in SUBSET left] ==
            IF S = {} THEN start
            ELSE LET n == Topmost(depth, S) IN LumpUp(up, rest[S \ {n}], n)
    IN  rest

Completions(g, mapped) ==
    LET up       == ImmediateDominators(g)
        depth    == Depth(g)
        unmapped == g.node \ mapped
        simple   == SimplePass(g, up, depth, mapped)[unmapped]
        tops     == {n \in unmapped : simple[n] = n /\ IsHead(g, up, n)}
        Left(lookup) == {n \in unmapped : lookup[n] = n}
    IN  {LastPass(up, depth, lookup, Left(lookup))[Left(lookup)] :
            lookup \in HeadPass(g, up, mapped, simple, tops)[tops]}
=============================================================================
