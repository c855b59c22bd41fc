-------------------------- MODULE MCLoopReduction --------------------------
(***************************************************************************)
(* Small flow graphs for LoopReduction: node 1 is the entry, it leads to   *)
(* node 2 and nothing leads to it; the other nodes lead to at most Fanout  *)
(* nodes.  Reduction fails when an edge leads from inside an inner loop to *)
(* the header of an outer one: those graphs have a run of their own.       *)
(***************************************************************************)
EXTENDS LoopReduction

CONSTANTS
    Size,            \* number of nodes
    Fanout,          \* out-edges of a node
    DeepBackEdges    \* whether to keep the graphs reduction fails on

Inner == 2 .. Size

MCGraphs ==
    LET choices == {S \in SUBSET Inner : Cardinality(S) <= Fanout}
        all == {[node  |-> 1 .. Size,
                 edge  |-> {<<1, 2>>} \cup UNION {{<<n, s>> : s \in to[n]} : n \in Inner},
                 entry |-> 1] : to \in [Inner -> choices]}
    IN  {g \in all : DeepBackEdges \/ ~HasDeepBackEdge(g)}
=============================================================================
