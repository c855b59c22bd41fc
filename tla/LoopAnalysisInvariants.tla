----------------------- MODULE LoopAnalysisInvariants -----------------------
(***************************************************************************)
(* The inductive invariant behind the theorems about LoopAnalysis.  It has *)
(* four parts: what the search has numbered is a depth-first tree; each    *)
(* header is recorded for what it is; what has been collapsed can only be  *)
(* entered at its representative; and in a reducible graph it is a loop.   *)
(***************************************************************************)
EXTENDS LoopAnalysis

Numbering == phase \in {"dfs", "backedges", "headers", "tree", "analyzed"}

Analyzing == phase \in {"headers", "tree", "analyzed"}

-----------------------------------------------------------------------------
(* The search.                                                             *)

\* The last descendant so far.
LastOf(n) == IF n \in DOMAIN last THEN last[n] ELSE LastNumber

EntryIsFirst ==
    /\ graph.entry \in Visited /\ NumberOf(graph.entry) = 0
    /\ path # << >> => path[1] = graph.entry
    /\ graph.entry \in DOMAIN last => path = << >> /\ last[graph.entry] = LastNumber

PathDescends ==
    \A i \in DOMAIN path :
        /\ path[i] \in Visited
        /\ \A j \in DOMAIN path : i < j => NumberOf(path[i]) < NumberOf(path[j])

\* A node has been left when all that it leads to, and that it has led the search to, has
\* a number.
LeftNodes ==
    /\ DOMAIN last = {n \in Visited : \A i \in DOMAIN path : n # path[i]}
    /\ \A m \in DOMAIN last :
        /\ last[m] \in Numbers /\ NumberOf(m) <= last[m]
        /\ \A n \in Succs(graph, m) : n \in Visited /\ NumberOf(n) <= last[m]
        /\ \A n \in Visited : NumberOf(m) <= NumberOf(n) /\ NumberOf(n) <= last[m]
             => n \in DOMAIN last /\ last[n] <= last[m]

\* The search has come to n from m.
CameFrom(m, n) ==
    /\ <<m, n>> \in graph.edge
    /\ NumberOf(m) < NumberOf(n) /\ NumberOf(n) <= LastOf(m)
    /\ \A a \in Visited : NumberOf(a) < NumberOf(n) /\ NumberOf(n) <= LastOf(a)
          => NumberOf(a) <= NumberOf(m)

HaveParents == \A n \in Visited \ {graph.entry} : \E m \in Visited : CameFrom(m, n)

NothingYet ==
    /\ phase = "init" => path = << >> /\ preorderList = << >> /\ last = << >>
    /\ phase \in {"init", "dfs", "backedges"} => body = {} /\ loops = << >>

SearchInvariant ==
    Numbering =>
        /\ ReachableNodes(graph) = graph.node
        /\ EntryIsFirst
        /\ PathDescends
        /\ LeftNodes
        /\ HaveParents
        /\ phase # "dfs" => path = << >> /\ Visited = graph.node

-----------------------------------------------------------------------------
(* What is recorded for the headers.                                       *)

TailNumbers(i) == {v \in PredNumbers(i) : IsAncestor(i, v)}

\* The numbers that have been tried as headers.
Tried(i) == i >= w \/ (i = w - 1 /\ body # {})

TypeFound(i) == IF TailNumbers(i) \ {i} # {} THEN "reducible"
                ELSE IF i \in TailNumbers(i) THEN "self" ELSE "nonheader"

NoneIrreducible == \A i \in Numbers : attrs[i].type # "irreducible"

Recorded ==
    \A i \in Numbers :
        /\ attrs[i].backPreds = TailNumbers(i)
        /\ attrs[i].type # "irreducible" =>
             /\ attrs[i].nonBackPreds = PredNumbers(i) \ TailNumbers(i)
             /\ attrs[i].type = IF Tried(i) THEN TypeFound(i) ELSE "nonheader"
        /\ attrs[i].type = "irreducible" => Tried(i) /\ TailNumbers(i) # {}

-----------------------------------------------------------------------------
(* What has been collapsed.                                                *)

Collapsed ==
    \A i \in Numbers :
        /\ IsAncestor(nodeLookup[i], i)
        /\ nodeLookup[nodeLookup[i]] = nodeLookup[i]
        /\ nodeLookup[i] # i => nodeLookup[i] >= w

\* P holds what reaches the tails of the header being tried.
BodyFound ==
    body # {} =>
        /\ w > 0 /\ TailNumbers(w - 1) \ {w - 1} # {}
        /\ \A x \in body : x # w - 1 /\ nodeLookup[x] = x /\ IsAncestor(w - 1, x)
        /\ \A v \in TailNumbers(w - 1) \ {w - 1} : nodeLookup[v] \in body
        /\ NoneIrreducible => \A x \in body \ worklist : Sources(x) \subseteq body \cup {w - 1}

\* A region that has been collapsed can only be entered at its representative: the header
\* dominates it.
EnteredAtHeaders ==
    NoneIrreducible =>
        /\ \A i \in Numbers : nodeLookup[i] # i =>
             \A j \in PredNumbers(i) : nodeLookup[j] = nodeLookup[i]
        /\ \A b \in Numbers : b >= w =>
             \A v \in TailNumbers(b) :
                 /\ nodeLookup[v] = nodeLookup[b]
                 /\ Dominates(graph, NodeAt(b), NodeAt(v))

-----------------------------------------------------------------------------
(* What that comes to in a reducible graph.                                *)

IsHead(h) == h \in Numbers /\ \E loop \in NaturalLoops(graph) : loop.head = NodeAt(h)

InLoop(i, h) ==
    \E loop \in NaturalLoops(graph) : loop.head = NodeAt(h) /\ NodeAt(i) \in loop.nodes

LoopsCollapsed ==
    /\ NoneIrreducible
    /\ \A i \in Numbers :
        /\ nodeLookup[i] = i \/ InLoop(i, nodeLookup[i])
        /\ \A b \in Numbers : b >= w /\ InLoop(i, b) => nodeLookup[i] <= b
        /\ nodeLookup[i] = i => attrs[i].header = 0
        /\ nodeLookup[i] # i =>
             /\ attrs[i].header >= w /\ attrs[i].header # i /\ InLoop(i, attrs[i].header)
             /\ \A c \in Numbers \ {i} : InLoop(i, c) => c <= attrs[i].header
    /\ \A x \in body : InLoop(x, w - 1)

HeaderInvariant ==
    Analyzing =>
        /\ phase # "headers" => w = 0 /\ body = {}
        /\ Recorded
        /\ Collapsed
        /\ BodyFound
        /\ EnteredAtHeaders
        /\ Reducible(graph) => LoopsCollapsed

-----------------------------------------------------------------------------
(* The results.                                                            *)

LoopTree ==
    [h \in {NodeAt(i) : i \in OfType({"reducible", "self"})} |-> LoopInfoOf(NumberOf(h))]

ResultInvariant ==
    /\ phase = "analyzed" => OfType({"irreducible"}) = {} /\ loops = LoopTree
    /\ phase = "aborted" => ~Reducible(graph) \/ graph.node = {graph.entry}

InductiveInvariant ==
    /\ TypeOK
    /\ NothingYet
    /\ SearchInvariant
    /\ HeaderInvariant
    /\ ResultInvariant
=============================================================================
