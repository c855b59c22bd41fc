------------------------ MODULE MCHomomorphismMapper ------------------------
(***************************************************************************)
(* Pairs of dominator trees of BinSize and SrcSize nodes, numbered from 0  *)
(* in preorder.  Every source node is at one of Lines source lines, every  *)
(* binary node has code of some of them.  The roots, entries of both flows,*)
(* are fixed, and so may be one more pair, the surrogates of a loop.  The  *)
(* worklist goes down the preorder numbers or up.                          *)
(***************************************************************************)
EXTENDS HomomorphismMapper

CONSTANTS BinSize, SrcSize, Lines, Fixed

\* The parent of the next node in preorder is the last node or one above it.
Trees(size) ==
    LET nodes == 0 .. size - 1
    IN  {t \in {[node |-> nodes, root |-> 0, parent |-> up] :
                   up \in {f \in [1 .. size - 1 -> nodes] : \A n \in DOMAIN f : f[n] < n}} :
            \A n \in 2 .. size - 1 : t.parent[n] \in PathUp(t, n - 1)}

\* Line numbers without their names: a new line is the next number.
Located == {at \in [1 .. SrcSize - 1 -> 1 .. Lines] :
              \A n \in DOMAIN at : at[n] = 1 \/ \E m \in 1 .. n - 1 : at[m] = at[n] - 1}

Pairs == {<<0, 0>>} \cup {<<b, s>> : b \in 1 .. BinSize - 1, s \in 1 .. SrcSize - 1}

Orders == {[n \in 0 .. BinSize - 1 |-> n], [n \in 0 .. BinSize - 1 |-> BinSize - n]}

InputOf(bin, src, at, of, pair, order) ==
    [bin |-> bin, src |-> src, nodes |-> bin.node,
     refs |-> [b \in bin.node |->
                 IF b = 0 THEN {} ELSE {s \in src.node \ {0} : at[s] \in of[b]}],
     fixed |-> (0 :> 0) @@ (pair[1] :> pair[2]),
     order |-> order, srcOrder |-> [n \in src.node |-> n]]

MCInputs ==
    {InputOf(bin, src, at, of, pair, order) :
        bin \in Trees(BinSize), src \in Trees(SrcSize), at \in Located,
        of \in [1 .. BinSize - 1 -> SUBSET (1 .. Lines) \ {{}}],
        pair \in IF Fixed THEN Pairs ELSE {<<0, 0>>}, order \in Orders}
=============================================================================
