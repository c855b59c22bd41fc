------------------------- MODULE LoopAnalysisProofs -------------------------
(***************************************************************************)
(* LoopAnalysis finds the natural loops of a flow and their nesting, or    *)
(* rejects the flow if it is irreducible, for any flow graphs and any      *)
(* order of the search and of the worklist. LoopReduction, on top of it,   *)
(* takes the flow apart into the levels of that nest: the second half,     *)
(* from "The nest of the natural loops" on.                                *)
(***************************************************************************)
EXTENDS LoopReductionInvariants, FlowGraphTheorems, SequenceTheorems

-----------------------------------------------------------------------------
(* Numbers.                                                                *)

\* Nodes and numbers are in one-to-one correspondence.
LEMMA NumberFacts ==
    ASSUME preorderList \in Seq(graph.node), IsInjective(preorderList)
    PROVE  /\ Visited \subseteq graph.node
           /\ Numbers \subseteq Nat
           /\ \A n \in Visited : NumberOf(n) \in Numbers /\ NodeAt(NumberOf(n)) = n
           /\ \A i \in Numbers : NodeAt(i) \in Visited /\ NumberOf(NodeAt(i)) = i
<1>1. /\ Len(preorderList) \in Nat /\ DOMAIN preorderList = 1 .. Len(preorderList)
      /\ \A i \in 1 .. Len(preorderList) : preorderList[i] \in graph.node
  OBVIOUS
<1>2. ASSUME NEW i \in DOMAIN preorderList
      PROVE  NumberOf(preorderList[i]) = i - 1
  <2> DEFINE c == CHOOSE j \in DOMAIN preorderList : preorderList[j] = preorderList[i]
  <2>1. c \in DOMAIN preorderList /\ preorderList[c] = preorderList[i]
    OBVIOUS
  <2> HIDE DEF c
  <2>2. c = i
    BY <2>1 DEF IsInjective
  <2> QED  BY <2>2 DEF NumberOf, c
<1>3. ASSUME NEW n \in Visited PROVE NumberOf(n) \in Numbers /\ NodeAt(NumberOf(n)) = n
  <2>1. PICK i \in DOMAIN preorderList : preorderList[i] = n
    BY DEF Visited
  <2>2. NumberOf(n) = i - 1
    BY <1>2, <2>1
  <2> QED  BY <1>1, <2>1, <2>2 DEF Numbers, NodeAt
<1>4. ASSUME NEW i \in Numbers PROVE NodeAt(i) \in Visited /\ NumberOf(NodeAt(i)) = i
  <2>1. i + 1 \in DOMAIN preorderList /\ i \in Nat /\ (i + 1) - 1 = i
    BY <1>1 DEF Numbers
  <2> QED  BY <1>2, <2>1 DEF NodeAt, Visited
<1>5. Visited \subseteq graph.node /\ Numbers \subseteq Nat
  BY <1>1 DEF Visited, Numbers
<1> QED  BY <1>3, <1>4, <1>5

\* The same, to be used after a step.
LEMMA NumbersMatch ==
    preorderList \in Seq(graph.node) /\ IsInjective(preorderList) =>
        /\ Visited \subseteq graph.node
        /\ Numbers \subseteq Nat
        /\ \A n \in Visited : NumberOf(n) \in Numbers /\ NodeAt(NumberOf(n)) = n
        /\ \A i \in Numbers : NodeAt(i) \in Visited /\ NumberOf(NodeAt(i)) = i
BY NumberFacts

\* Numbers stay while the list stays.
LEMMA NumbersStay ==
    ASSUME preorderList' = preorderList
    PROVE  /\ Visited' = Visited /\ Numbers' = Numbers /\ LastNumber' = LastNumber
           /\ \A n : NumberOf(n)' = NumberOf(n)
           /\ \A i : NodeAt(i)' = NodeAt(i)
<1>1. Visited' = Visited /\ Numbers' = Numbers /\ LastNumber' = LastNumber
  BY DEF Visited, Numbers, LastNumber
<1>2. \A n : NumberOf(n)' = NumberOf(n)
  BY Zenon DEF NumberOf
<1>3. \A i : NodeAt(i)' = NodeAt(i)
  BY DEF NodeAt
<1> QED  BY <1>1, <1>2, <1>3

\* The next node gets the next number.
LEMMA NumbersAppended ==
    ASSUME preorderList \in Seq(graph.node), IsInjective(preorderList),
           NEW s \in graph.node \ Visited, preorderList' = Append(preorderList, s), graph' = graph
    PROVE  /\ preorderList' \in Seq(graph.node) /\ IsInjective(preorderList')
           /\ Visited' = Visited \cup {s} /\ LastNumber' = LastNumber + 1
           /\ LastNumber \in Int
           /\ Numbers = 0 .. LastNumber /\ Numbers' = 0 .. LastNumber + 1
           /\ NumberOf(s)' = LastNumber + 1
           /\ \A n \in Visited : NumberOf(n)' = NumberOf(n)
<1> DEFINE n == Len(preorderList)
<1>1. /\ n \in Nat /\ DOMAIN preorderList = 1 .. n
      /\ preorderList' \in Seq(graph.node) /\ Len(preorderList') = n + 1
      /\ DOMAIN preorderList' = 1 .. n + 1
      /\ \A i \in 1 .. n : preorderList'[i] = preorderList[i]
      /\ preorderList'[n + 1] = s
  OBVIOUS
<1>2. s \notin {preorderList[i] : i \in 1 .. n}
  BY <1>1 DEF Visited
<1>3. IsInjective(preorderList')
  <2>1. ASSUME NEW a \in 1 .. n + 1, NEW b \in 1 .. n + 1, preorderList'[a] = preorderList'[b]
        PROVE  a = b
    <3>1. CASE a \in 1 .. n /\ b \in 1 .. n
      BY <1>1, <2>1, <3>1 DEF IsInjective
    <3>2. CASE a = n + 1 \/ b = n + 1
      BY <1>1, <1>2, <2>1, <3>2
    <3> QED  BY <1>1, <3>1, <3>2
  <2> QED  BY <1>1, <2>1 DEF IsInjective
<1>4. Visited' = Visited \cup {s}
  <2>1. \A x : x \in Visited' <=> x \in Visited \cup {s}
    BY <1>1 DEF Visited
  <2> QED  BY <2>1
<1>5. LastNumber = n - 1 /\ LastNumber' = n /\ Numbers = 0 .. n - 1 /\ Numbers' = 0 .. n
  BY <1>1 DEF LastNumber, Numbers
<1>6. ASSUME NEW m, NEW i \in 1 .. n + 1, preorderList'[i] = m PROVE NumberOf(m)' = i - 1
  <2> DEFINE c == CHOOSE j \in DOMAIN preorderList' : preorderList'[j] = m
  <2>1. c \in DOMAIN preorderList' /\ preorderList'[c] = m
    BY <1>1, <1>6
  <2>2. NumberOf(m)' = c - 1
    BY Zenon DEF NumberOf
  <2> HIDE DEF c
  <2>3. c = i
    BY <1>1, <1>3, <1>6, <2>1 DEF IsInjective
  <2> QED  BY <2>2, <2>3
<1>7. NumberOf(s)' = n
  BY <1>1, <1>6
<1>8. ASSUME NEW m \in Visited PROVE NumberOf(m)' = NumberOf(m)
  <2>1. PICK i \in 1 .. n : preorderList[i] = m
    BY <1>1 DEF Visited
  <2>2. NumberOf(m)' = i - 1
    BY <1>1, <1>6, <2>1
  <2>3. i - 1 \in Numbers /\ NodeAt(i - 1) = m
    BY <1>5, <2>1 DEF NodeAt
  <2>4. NumberOf(m) = i - 1
    BY <2>3, NumberFacts
  <2> QED  BY <2>2, <2>4
<1> QED  BY <1>1, <1>3, <1>4, <1>5, <1>7, <1>8

-----------------------------------------------------------------------------
(* The search.                                                             *)

\* The analysis starts in a state of the invariant.
LEMMA InitHolds == Init => InductiveInvariant
<1> SUFFICES ASSUME Init PROVE InductiveInvariant
  OBVIOUS
<1>1. IsFlowGraph(graph) /\ graph.entry \in graph.node
  BY GraphsAreFlowGraphs DEF Init, IsFlowGraph
<1>2. TypeOK
  BY <1>1 DEF Init, TypeOK, Phases, IsInjective, Visited, Headers
<1> QED  BY <1>2 DEF Init, InductiveInvariant, NothingYet, SearchInvariant, HeaderInvariant,
               ResultInvariant, Numbering, Analyzing

\* The search begins with the entry alone.
LEMMA PruneStep ==
    ASSUME InductiveInvariant, PruneUnreachable
    PROVE  InductiveInvariant'
<1>1. /\ phase = "init" /\ path = << >> /\ preorderList = << >> /\ last = << >>
      /\ body = {} /\ loops = << >> /\ IsFlowGraph(graph) /\ worklist = {}
  BY DEF InductiveInvariant, NothingYet, TypeOK, PruneUnreachable
<1>2. /\ graph' = Subgraph(graph, ReachableNodes(graph))
      /\ UNCHANGED <<last, attrs, nodeLookup, w, body, worklist, loops>>
  BY DEF PruneUnreachable
<1>3. /\ IsFlowGraph(graph') /\ graph'.entry = graph.entry /\ graph.entry \in graph'.node
      /\ ReachableNodes(graph') = graph'.node
  <2>1. IsFlowGraph(graph') /\ graph'.entry = graph.entry /\ ReachableNodes(graph') = graph'.node
    BY <1>1, <1>2, PrunedIsReached
  <2> QED  BY <2>1 DEF IsFlowGraph
<1>4. w = 0
  BY <1>1 DEF InductiveInvariant, TypeOK
<1>5. CASE phase' = "aborted" /\ Cardinality(graph'.node) < 2 /\ UNCHANGED <<path, preorderList>>
  <2>1. graph'.node = {graph'.entry}
    <3>1. IsFiniteSet(graph'.node)
      BY <1>3 DEF IsFlowGraph
    <3>2. {graph'.entry} \subseteq graph'.node /\ IsFiniteSet({graph'.entry})
          /\ Cardinality({graph'.entry}) = 1
      BY <1>3, FS_Singleton
    <3>3. Cardinality(graph'.node) \in Nat
      BY <3>1, FS_CardinalityType
    <3>4. {graph'.entry} # graph'.node => 1 < Cardinality(graph'.node)
      BY <3>1, <3>2, <3>3, FS_Subset
    <3> QED  BY <1>5, <3>3, <3>4
  <2>2. ResultInvariant'
    BY <1>5, <2>1 DEF ResultInvariant
  <2>3. TypeOK'
    BY <1>1, <1>2, <1>3, <1>4, <1>5 DEF TypeOK, Phases, Visited, Headers, IsInjective
  <2> QED  BY <1>5, <2>2, <2>3 DEF InductiveInvariant, NothingYet, SearchInvariant,
                HeaderInvariant, Numbering, Analyzing
<1>6. CASE phase' = "dfs" /\ path' = <<graph.entry>> /\ preorderList' = <<graph.entry>>
  <2>1. /\ path' \in Seq(graph'.node) /\ IsInjective(path')
        /\ preorderList' \in Seq(graph'.node) /\ IsInjective(preorderList')
        /\ Len(preorderList') = 1 /\ DOMAIN preorderList' = {1} /\ preorderList'[1] = graph.entry
        /\ DOMAIN path' = {1} /\ path'[1] = graph.entry /\ path' # << >>
    <3> DEFINE one == <<graph.entry>>
    <3>1. one \in Seq({graph.entry}) /\ Len(one) = 1 /\ one[1] = graph.entry /\ one # << >>
      OBVIOUS
    <3>2. DOMAIN one = {1}
      OBVIOUS
    <3> HIDE DEF one
    <3>3. IsInjective(one)
      BY <3>2 DEF IsInjective
    <3>4. path' = one /\ preorderList' = one
      BY <1>6 DEF one
    <3>5. one \in Seq(graph'.node)
      <4> HIDE DEF one
      <4> QED  BY <1>3, <3>1
    <3> QED  BY <3>1, <3>2, <3>3, <3>4, <3>5
  <2>2. Visited' = {graph.entry} /\ Numbers' = {0}
    BY <2>1 DEF Visited, Numbers
  <2>3. TypeOK'
    BY <1>1, <1>2, <1>3, <1>4, <1>6, <2>1 DEF TypeOK, Phases, Headers
  <2>4. NumberOf(graph.entry)' = 0
    <3>1. NumberOf(graph.entry)' \in Numbers'
      <4>1. (\A n \in Visited : NumberOf(n) \in Numbers /\ NodeAt(NumberOf(n)) = n)'
        <5>1. (preorderList \in Seq(graph.node) /\ IsInjective(preorderList))'
          BY <2>1
        <5> QED  BY <5>1, NumbersMatch, PTL
      <4> QED  BY <1>3, <2>2, <4>1
    <3> QED  BY <2>2, <3>1
  <2>5. SearchInvariant'
    <3>1. EntryIsFirst'
      BY <1>1, <1>2, <1>3, <2>1, <2>2, <2>4 DEF EntryIsFirst
    <3>2. PathDescends'
      BY <2>1, <2>2 DEF PathDescends
    <3>3. LeftNodes'
      BY <1>1, <1>2, <2>1, <2>2 DEF LeftNodes
    <3>4. HaveParents'
      BY <1>3, <2>2 DEF HaveParents
    <3> QED  BY <1>3, <1>6, <3>1, <3>2, <3>3, <3>4 DEF SearchInvariant
  <2> QED  BY <1>1, <1>2, <1>6, <2>3, <2>5 DEF InductiveInvariant, NothingYet, HeaderInvariant,
                ResultInvariant, Analyzing
<1> QED  BY <1>5, <1>6 DEF PruneUnreachable

\* A sequence without its tail.
LEMMA PrefixFacts ==
    ASSUME NEW S, NEW s \in Seq(S), NEW k \in Nat, k >= 1, k <= Len(s)
    PROVE  /\ SubSeq(s, 1, k - 1) \in Seq(S) /\ Len(SubSeq(s, 1, k - 1)) = k - 1
           /\ \A i \in 1 .. k - 1 : SubSeq(s, 1, k - 1)[i] = s[i]
OBVIOUS

\* Types of what the search has numbered.
LEMMA SearchTypes ==
    ASSUME TypeOK
    PROVE  /\ IsFlowGraph(graph) /\ LastNumber \in Int /\ Numbers = 0 .. LastNumber
           /\ \A n \in Visited : NumberOf(n) \in 0 .. LastNumber /\ n \in graph.node
           /\ \A m, n \in Visited : NumberOf(m) = NumberOf(n) => m = n
           /\ \A n \in DOMAIN last : n \in Visited /\ last[n] \in 0 .. LastNumber
           /\ \A n \in Visited : LastOf(n) \in 0 .. LastNumber
<1>1. /\ preorderList \in Seq(graph.node) /\ IsInjective(preorderList) /\ IsFlowGraph(graph)
      /\ \A n \in DOMAIN last : n \in Visited /\ last[n] \in Numbers
  BY DEF TypeOK
<1>2. LastNumber \in Int /\ Numbers = 0 .. LastNumber
  BY <1>1 DEF LastNumber, Numbers
<1>3. \A n \in Visited : NumberOf(n) \in Numbers /\ NodeAt(NumberOf(n)) = n /\ n \in graph.node
  BY <1>1, NumberFacts
<1>4. \A m, n \in Visited : NumberOf(m) = NumberOf(n) => m = n
  BY <1>3
<1>5. \A n \in Visited : LastOf(n) \in 0 .. LastNumber
  BY <1>1, <1>2, <1>3 DEF LastOf
<1> QED  BY <1>1, <1>2, <1>3, <1>4, <1>5

\* A node that is visited becomes the last descendant of the nodes on the path, and its
\* parent is the one the path ended with.
LEMMA VisitKeepsSearch ==
    ASSUME TypeOK, SearchInvariant, phase = "dfs", path # << >>,
           NEW s \in Succs(graph, Last(path)) \ Visited,
           path' = Append(path, s), preorderList' = Append(preorderList, s),
           UNCHANGED <<graph, phase, last>>
    PROVE  /\ SearchInvariant'
           /\ path' \in Seq(graph.node) /\ IsInjective(path')
           /\ preorderList' \in Seq(graph.node) /\ IsInjective(preorderList')
           /\ Visited' = Visited \cup {s} /\ Numbers \subseteq Numbers'
<1> DEFINE N == LastNumber
           k == Len(path)
<1>0. PICK top : top = Last(path)
  OBVIOUS
<1>1. /\ N \in Int /\ Numbers = 0 .. N
      /\ \A n \in Visited : NumberOf(n) \in 0 .. N
      /\ \A n \in DOMAIN last : n \in Visited /\ last[n] \in 0 .. N
      /\ preorderList \in Seq(graph.node) /\ IsInjective(preorderList) /\ IsFlowGraph(graph)
      /\ path \in Seq(graph.node) /\ IsInjective(path)
  BY SearchTypes DEF TypeOK
<1>2. ReachableNodes(graph) = graph.node /\ EntryIsFirst /\ PathDescends /\ LeftNodes /\ HaveParents
  BY DEF SearchInvariant, Numbering
<1>3. k \in Nat /\ k >= 1 /\ DOMAIN path = 1 .. k /\ top = path[k]
  BY <1>0, <1>1 DEF Last
<1>4. /\ top \in Visited /\ top \notin DOMAIN last /\ graph.entry \in Visited
      /\ \A i \in 1 .. k : path[i] \in Visited /\ NumberOf(path[i]) <= NumberOf(top)
  <2>1. top \in Visited /\ \A i \in 1 .. k : path[i] \in Visited
    BY <1>2, <1>3 DEF PathDescends
  <2>2. ASSUME NEW i \in 1 .. k PROVE NumberOf(path[i]) <= NumberOf(top)
    <3>1. CASE i < k
      <4>1. NumberOf(path[i]) < NumberOf(path[k])
        BY <1>2, <1>3, <3>1 DEF PathDescends
      <4>2. NumberOf(path[i]) < NumberOf(top)
        BY <1>3, <4>1
      <4>3. NumberOf(path[i]) \in Int /\ NumberOf(top) \in Int
        BY <1>1, <2>1
      <4> QED  BY <4>2, <4>3
    <3>2. CASE i = k
      <4>1. path[i] = top
        BY <1>3, <3>2
      <4>2. NumberOf(path[i]) = NumberOf(top)
        BY <4>1
      <4>3. NumberOf(top) \in Int
        BY <1>1, <2>1
      <4> QED  BY <4>2, <4>3
    <3>3. i < k \/ i = k
      <4> HIDE DEF k
      <4> QED  BY <1>3
    <3> QED  BY <3>1, <3>2, <3>3
  <2>3. top \notin DOMAIN last
    BY <1>2, <1>3 DEF LeftNodes
  <2> QED  BY <1>2, <2>1, <2>2, <2>3 DEF EntryIsFirst
<1>5. s \in graph.node /\ s \notin Visited /\ <<top, s>> \in graph.edge
  <2>1. PICK e \in graph.edge : e[1] = top /\ e[2] = s
    BY <1>0 DEF Succs
  <2>2. e = <<top, s>> /\ s \in graph.node
    BY <1>1, <2>1 DEF IsFlowGraph
  <2> QED  BY <2>2
<1>6. /\ preorderList' \in Seq(graph.node) /\ IsInjective(preorderList')
      /\ Visited' = Visited \cup {s} /\ LastNumber' = N + 1 /\ Numbers' = 0 .. N + 1
      /\ NumberOf(s)' = N + 1
      /\ \A n \in Visited : NumberOf(n)' = NumberOf(n)
  BY <1>1, <1>5, NumbersAppended
<1>7. /\ path' \in Seq(graph.node) /\ Len(path') = k + 1 /\ DOMAIN path' = 1 .. k + 1
      /\ path'[k + 1] = s /\ \A i \in 1 .. k : path'[i] = path[i]
  BY <1>1, <1>3, <1>5
<1>8. IsInjective(path')
  <2>1. ASSUME NEW a \in 1 .. k + 1, NEW b \in 1 .. k + 1, path'[a] = path'[b] PROVE a = b
    <3>1. CASE a \in 1 .. k /\ b \in 1 .. k
      BY <1>1, <1>3, <1>7, <2>1, <3>1 DEF IsInjective
    <3>2. CASE a = k + 1 /\ b \in 1 .. k
      BY <1>4, <1>5, <1>7, <2>1, <3>2
    <3>3. CASE b = k + 1 /\ a \in 1 .. k
      BY <1>4, <1>5, <1>7, <2>1, <3>3
    <3>4. CASE a = k + 1 /\ b = k + 1
      BY <3>4
    <3> QED  BY <1>3, <3>1, <3>2, <3>3, <3>4
  <2> QED  BY <1>7, <2>1 DEF IsInjective
<1> HIDE DEF N, k
<1>9. EntryIsFirst'
  <2>1. NumberOf(graph.entry)' = 0 /\ graph.entry \in Visited' /\ graph.entry \notin DOMAIN last
    <3>1. NumberOf(graph.entry) = 0 /\ graph.entry \in Visited /\ graph.entry \notin DOMAIN last
      BY <1>2 DEF EntryIsFirst
    <3> QED  BY <1>6, <3>1
  <2>2. path'[1] = graph.entry
    BY <1>2, <1>3, <1>7 DEF EntryIsFirst
  <2> QED  BY <2>1, <2>2 DEF EntryIsFirst
<1>10. PathDescends'
  <2>1. ASSUME NEW i \in 1 .. k + 1 PROVE path'[i] \in Visited'
    BY <1>3, <1>4, <1>6, <1>7
  <2>2. ASSUME NEW i \in 1 .. k + 1, NEW j \in 1 .. k + 1, i < j
        PROVE  NumberOf(path[i])' < NumberOf(path[j])'
    <3>1. i \in 1 .. k /\ path'[i] = path[i] /\ path[i] \in Visited
      BY <1>3, <1>4, <1>7, <2>2
    <3>2. NumberOf(path[i])' = NumberOf(path[i])
      BY <1>6, <3>1
    <3>3. CASE j \in 1 .. k
      <4>1. path'[j] = path[j] /\ path[j] \in Visited
        BY <1>4, <1>7, <3>3
      <4>2. NumberOf(path[j])' = NumberOf(path[j])
        BY <1>6, <4>1
      <4>3. NumberOf(path[i]) < NumberOf(path[j])
        BY <1>2, <1>3, <2>2, <3>1, <3>3 DEF PathDescends
      <4> QED  BY <3>2, <4>2, <4>3
    <3>4. CASE j = k + 1
      <4>1. NumberOf(path[j])' = N + 1
        BY <1>6, <1>7, <3>4
      <4> QED  BY <1>1, <3>1, <3>2, <4>1
    <3> QED  BY <1>3, <3>3, <3>4
  <2> QED  BY <1>7, <2>1, <2>2 DEF PathDescends
<1>11. LeftNodes'
  <2>1. \A n : n \in DOMAIN last <=> n \in Visited' /\ \A i \in 1 .. k + 1 : n # path'[i]
    <3>1. \A n : n \in DOMAIN last <=> n \in Visited /\ \A i \in 1 .. k : n # path[i]
      BY <1>2, <1>3 DEF LeftNodes
    <3> QED  BY <1>3, <1>5, <1>6, <1>7, <3>1
  <2>2. ASSUME NEW m \in DOMAIN last
        PROVE  /\ last[m] \in Numbers' /\ NumberOf(m)' <= last[m]
               /\ \A n \in Succs(graph, m) : n \in Visited' /\ NumberOf(n)' <= last[m]
               /\ \A n \in Visited' : NumberOf(m)' <= NumberOf(n)' /\ NumberOf(n)' <= last[m]
                    => n \in DOMAIN last /\ last[n] <= last[m]
    <3>1. /\ m \in Visited /\ last[m] \in 0 .. N /\ NumberOf(m) <= last[m]
          /\ \A n \in Succs(graph, m) : n \in Visited /\ NumberOf(n) <= last[m]
          /\ \A n \in Visited : NumberOf(m) <= NumberOf(n) /\ NumberOf(n) <= last[m]
                    => n \in DOMAIN last /\ last[n] <= last[m]
      BY <1>1, <1>2 DEF LeftNodes
    <3>2. ~(NumberOf(s)' <= last[m])
      BY <1>1, <1>6, <3>1
    <3>3. NumberOf(m)' = NumberOf(m) /\ last[m] \in Numbers'
      BY <1>1, <1>6, <3>1
    <3> QED  BY <1>6, <3>1, <3>2, <3>3
  <2>3. DOMAIN last = {n \in Visited' : \A i \in DOMAIN path' : n # path'[i]}
    <3>1. \A n : n \in DOMAIN last <=> n \in {m \in Visited' : \A i \in DOMAIN path' : m # path'[i]}
      BY <1>7, <2>1
    <3> QED  BY <3>1
  <2> QED  BY <2>2, <2>3 DEF LeftNodes
<1>12. HaveParents'
  <2>1. /\ \A a \in DOMAIN last : LastOf(a)' = last[a]
        /\ \A a : a \notin DOMAIN last => LastOf(a)' = N + 1
    BY <1>6 DEF LastOf
  <2>2. CameFrom(top, s)'
    <3>1. LastOf(top)' = N + 1 /\ NumberOf(top)' = NumberOf(top) /\ NumberOf(top) < N + 1
      BY <1>1, <1>4, <1>6, <2>1
    <3>2. ASSUME NEW a \in Visited', NumberOf(a)' < N + 1, N + 1 <= LastOf(a)'
          PROVE  NumberOf(a)' <= NumberOf(top)'
      <4>1. a \in Visited /\ NumberOf(a)' = NumberOf(a)
        <5>1. a # s
          BY <1>1, <1>6, <3>2
        <5> QED  BY <1>6, <5>1
      <4>2. a \notin DOMAIN last
        BY <1>1, <2>1, <3>2
      <4>3. PICK i \in 1 .. k : a = path[i]
        BY <1>2, <1>3, <4>1, <4>2 DEF LeftNodes
      <4> QED  BY <1>4, <3>1, <4>1, <4>3
    <3> QED  BY <1>1, <1>5, <1>6, <3>1, <3>2 DEF CameFrom
  <2>3. ASSUME NEW n \in Visited \ {graph.entry} PROVE \E m \in Visited' : CameFrom(m, n)'
    <3>1. PICK m \in Visited : CameFrom(m, n)
      BY <1>2 DEF HaveParents
    <3>2. NumberOf(m)' = NumberOf(m) /\ NumberOf(n)' = NumberOf(n) /\ NumberOf(n) \in 0 .. N
      BY <1>1, <1>6
    <3>3. \A a \in Visited : NumberOf(n) <= LastOf(a)' <=> NumberOf(n) <= LastOf(a)
      <4>1. /\ \A a \in DOMAIN last : LastOf(a) = last[a]
            /\ \A a : a \notin DOMAIN last => LastOf(a) = N
        BY DEF LastOf, N
      <4> QED  BY <1>1, <2>1, <3>2, <4>1
    <3>4. ASSUME NEW a \in Visited', NumberOf(a)' < NumberOf(n)', NumberOf(n)' <= LastOf(a)'
          PROVE  NumberOf(a)' <= NumberOf(m)'
      <4>1. a \in Visited
        BY <1>1, <1>6, <3>2, <3>4
      <4>2. NumberOf(a)' = NumberOf(a)
        BY <1>6, <4>1
      <4> QED  BY <3>1, <3>2, <3>3, <3>4, <4>1, <4>2 DEF CameFrom
    <3>5. CameFrom(m, n)'
      <4>1. <<m, n>> \in graph.edge /\ NumberOf(m) < NumberOf(n) /\ NumberOf(n) <= LastOf(m)
        BY <3>1 DEF CameFrom
      <4> QED  BY <3>2, <3>3, <3>4, <4>1 DEF CameFrom
    <3> QED  BY <1>6, <3>5
  <2> QED  BY <1>4, <1>6, <2>2, <2>3 DEF HaveParents
<1>13. SearchInvariant'
  BY <1>2, <1>9, <1>10, <1>11, <1>12 DEF SearchInvariant
<1>14. Numbers \subseteq Numbers'
  BY <1>1, <1>6
<1> QED  BY <1>6, <1>7, <1>8, <1>13, <1>14

\* A node is left when all its successors have numbers, so no edge leads beyond its last
\* descendant.
LEMMA LeaveKeepsSearch ==
    ASSUME TypeOK, SearchInvariant, LeaveNode
    PROVE  /\ SearchInvariant'
           /\ path' \in Seq(graph.node) /\ IsInjective(path')
           /\ \A n \in DOMAIN last' : n \in Visited /\ last'[n] \in Numbers
<1> DEFINE N == LastNumber
           k == Len(path)
<1>0. PICK top : top = Last(path)
  OBVIOUS
<1>1. /\ N \in Int /\ Numbers = 0 .. N
      /\ \A n \in Visited : NumberOf(n) \in 0 .. N
      /\ \A n \in DOMAIN last : n \in Visited /\ last[n] \in 0 .. N
      /\ path \in Seq(graph.node) /\ IsInjective(path)
  BY SearchTypes DEF TypeOK
<1>2. /\ ReachableNodes(graph) = graph.node /\ EntryIsFirst /\ PathDescends /\ LeftNodes /\ HaveParents
      /\ phase = "dfs" /\ path # << >> /\ UNCHANGED <<graph, phase, preorderList>>
      /\ Succs(graph, top) \subseteq Visited
      /\ last' = [n \in DOMAIN last \cup {top} |-> IF n = top THEN N ELSE last[n]]
      /\ path' = Front(path)
  BY <1>0 DEF SearchInvariant, Numbering, LeaveNode
<1>3. /\ k \in Nat /\ k >= 1 /\ DOMAIN path = 1 .. k /\ top = path[k]
      /\ path' \in Seq(graph.node) /\ DOMAIN path' = 1 .. k - 1
      /\ \A i \in 1 .. k - 1 : path'[i] = path[i]
      /\ k = 1 <=> path' = << >>
  <2>1. /\ k \in Nat /\ k >= 1 /\ k <= Len(path) /\ DOMAIN path = 1 .. k /\ top = path[k]
        /\ path' = SubSeq(path, 1, k - 1)
    BY <1>0, <1>1, <1>2 DEF Last, Front
  <2>2. /\ path' \in Seq(graph.node) /\ Len(path') = k - 1
        /\ \A i \in 1 .. k - 1 : path'[i] = path[i]
    <3> HIDE DEF k
    <3> QED  BY <1>1, <2>1, PrefixFacts
  <2>3. DOMAIN path' = 1 .. k - 1 /\ (k - 1 = 0 <=> path' = << >>)
    <3> HIDE DEF k
    <3> QED  BY <2>1, <2>2
  <2> QED  BY <2>1, <2>2, <2>3
<1> HIDE DEF k
<1>4. top \in Visited /\ \A i \in 1 .. k - 1 : NumberOf(path[i]) < NumberOf(top) /\ path[i] # top
  <2>1. top \in Visited /\ \A i \in 1 .. k : path[i] \in Visited
    BY <1>2, <1>3 DEF PathDescends
  <2>2. ASSUME NEW i \in 1 .. k - 1 PROVE NumberOf(path[i]) < NumberOf(top)
    <3>1. i \in DOMAIN path /\ k \in DOMAIN path /\ i < k
      BY <1>3
    <3>2. NumberOf(path[i]) < NumberOf(path[k])
      BY <1>2, <3>1 DEF PathDescends
    <3> QED  BY <1>3, <3>2
  <2>3. NumberOf(top) \in Int
    BY <1>1, <2>1
  <2>4. \A i \in 1 .. k - 1 : path[i] # top
    BY <2>2, <2>3
  <2> QED  BY <2>1, <2>2, <2>4
<1>5. /\ Visited' = Visited /\ Numbers' = Numbers /\ LastNumber' = N
      /\ \A n : NumberOf(n)' = NumberOf(n)
  BY <1>2, NumbersStay
<1> HIDE DEF N
<1>6. IsInjective(path')
  BY <1>1, <1>3 DEF IsInjective
<1>7. /\ DOMAIN last' = DOMAIN last \cup {top} /\ top \notin DOMAIN last
      /\ last'[top] = N /\ \A n \in DOMAIN last : last'[n] = last[n]
      /\ \A n : n \in DOMAIN last <=> n \in Visited /\ \A i \in 1 .. k : n # path[i]
  <2>1. \A n : n \in DOMAIN last <=> n \in Visited /\ \A i \in 1 .. k : n # path[i]
    BY <1>2, <1>3 DEF LeftNodes
  <2>2. top \notin DOMAIN last
    BY <1>3, <2>1
  <2> QED  BY <1>2, <2>1, <2>2
<1>8. \A n \in DOMAIN last' : n \in Visited /\ last'[n] \in 0 .. N
  <2>1. N \in 0 .. N
    BY <1>1, <1>4
  <2> QED  BY <1>1, <1>4, <1>7, <2>1
<1>9. EntryIsFirst'
  <2>1. graph.entry \in Visited /\ NumberOf(graph.entry) = 0 /\ path[1] = graph.entry
        /\ graph.entry \notin DOMAIN last
    BY <1>2 DEF EntryIsFirst
  <2>2. ASSUME k # 1 PROVE path' # << >> /\ path'[1] = graph.entry /\ graph.entry \notin DOMAIN last'
    <3>1. 1 \in 1 .. k - 1
      BY <1>3, <2>2
    <3>2. path[1] # top
      BY <1>4, <3>1
    <3> QED  BY <1>3, <1>7, <2>1, <2>2, <3>1, <3>2
  <2>3. ASSUME k = 1 PROVE path' = << >> /\ last'[graph.entry] = N
    <3>1. top = graph.entry
      BY <1>3, <2>1, <2>3
    <3> QED  BY <1>3, <1>7, <2>3, <3>1
  <2>4. NumberOf(graph.entry)' = 0 /\ (graph.entry \in Visited)'
    BY <1>2, <1>5, <2>1
  <2>5. graph' = graph
    BY <1>2
  <2> QED  BY <1>5, <2>2, <2>3, <2>4, <2>5 DEF EntryIsFirst
<1>10. PathDescends'
  <2>1. ASSUME NEW i \in 1 .. k - 1
        PROVE  /\ (path[i] \in Visited)'
               /\ \A j \in 1 .. k - 1 : i < j => NumberOf(path[i])' < NumberOf(path[j])'
    <3>1. path'[i] = path[i] /\ path[i] \in Visited /\ i \in DOMAIN path
      BY <1>2, <1>3 DEF PathDescends
    <3>2. ASSUME NEW j \in 1 .. k - 1, i < j PROVE NumberOf(path[i])' < NumberOf(path[j])'
      <4>1. path'[j] = path[j] /\ j \in DOMAIN path
        BY <1>3
      <4>2. NumberOf(path[i]) < NumberOf(path[j])
        BY <1>2, <3>1, <3>2, <4>1 DEF PathDescends
      <4>3. NumberOf(path[i])' = NumberOf(path[i]) /\ NumberOf(path[j])' = NumberOf(path[j])
        BY <1>5, <3>1, <4>1
      <4> QED  BY <4>2, <4>3
    <3> QED  BY <1>5, <3>1, <3>2
  <2> QED  BY <1>3, <2>1 DEF PathDescends
<1>11. LeftNodes'
  <2>1. \A n : n \in DOMAIN last' <=> n \in Visited /\ \A i \in 1 .. k - 1 : n # path'[i]
    <3>1. \A n : (\A i \in 1 .. k : n # path[i]) <=> n # top /\ \A i \in 1 .. k - 1 : n # path[i]
      <4>1. \A i : i \in 1 .. k <=> i = k \/ i \in 1 .. k - 1
        BY <1>3
      <4> QED  BY <1>3, <4>1
    <3> QED  BY <1>3, <1>4, <1>7, <3>1
  <2>2. ASSUME NEW m \in DOMAIN last'
        PROVE  /\ last'[m] \in 0 .. N /\ NumberOf(m) <= last'[m]
               /\ \A n \in Succs(graph, m) : n \in Visited /\ NumberOf(n) <= last'[m]
               /\ \A n \in Visited : NumberOf(m) <= NumberOf(n) /\ NumberOf(n) <= last'[m]
                    => n \in DOMAIN last' /\ last'[n] <= last'[m]
    <3>1. CASE m = top
      <4>1. \A n \in Visited : NumberOf(n) <= N
        BY <1>1
      <4>2. ASSUME NEW n \in Visited, NumberOf(top) <= NumberOf(n)
            PROVE  n \in DOMAIN last' /\ last'[n] <= N
        <5>1. \A i \in 1 .. k - 1 : n # path'[i]
          <6>1. NumberOf(top) \in Int /\ NumberOf(n) \in Int
            BY <1>1, <1>4
          <6> QED  BY <1>3, <1>4, <4>2, <6>1
        <5>2. n \in DOMAIN last'
          BY <2>1, <5>1
        <5>3. last'[n] \in 0 .. N
          BY <1>8, <5>2
        <5> QED  BY <1>1, <5>2, <5>3
      <4> QED  BY <1>2, <1>4, <1>7, <1>8, <3>1, <4>1, <4>2
    <3>2. CASE m # top
      <4>1. m \in DOMAIN last /\ last'[m] = last[m]
        BY <1>7, <3>2
      <4>2. /\ last[m] \in Numbers /\ NumberOf(m) <= last[m]
            /\ \A n \in Succs(graph, m) : n \in Visited /\ NumberOf(n) <= last[m]
            /\ \A n \in Visited : NumberOf(m) <= NumberOf(n) /\ NumberOf(n) <= last[m]
                 => n \in DOMAIN last /\ last[n] <= last[m]
        BY <1>2, <4>1 DEF LeftNodes
      <4> QED  BY <1>1, <1>7, <4>1, <4>2
    <3> QED  BY <3>1, <3>2
  <2>3. DOMAIN last' = {n \in Visited' : \A i \in DOMAIN path' : n # path'[i]}
    <3>1. \A n : n \in DOMAIN last' <=> n \in {m \in Visited' : \A i \in DOMAIN path' : m # path'[i]}
      BY <1>3, <1>5, <2>1
    <3> QED  BY <3>1
  <2>4. graph' = graph
    BY <1>2
  <2> QED  BY <1>1, <1>5, <2>2, <2>3, <2>4 DEF LeftNodes
<1>12. HaveParents'
  <2>1. \A n : LastOf(n)' = LastOf(n)
    <3>1. ASSUME NEW n PROVE LastOf(n)' = LastOf(n)
      <4>1. LastOf(n)' = IF n \in DOMAIN last' THEN last'[n] ELSE N
        BY <1>5 DEF LastOf
      <4>2. LastOf(n) = IF n \in DOMAIN last THEN last[n] ELSE N
        BY DEF LastOf, N
      <4> QED  BY <1>7, <4>1, <4>2
    <3> QED  BY <3>1
  <2>2. \A m, n : CameFrom(m, n)' <=> CameFrom(m, n)
    BY <1>2, <1>5, <2>1 DEF CameFrom
  <2> QED  BY <1>2, <1>5, <2>2 DEF HaveParents
<1>13. SearchInvariant'
  BY <1>2, <1>9, <1>10, <1>11, <1>12 DEF SearchInvariant
<1> QED  BY <1>1, <1>3, <1>6, <1>8, <1>13

-----------------------------------------------------------------------------
(* The search is over: what the numbers say of the graph.                  *)

Num == [n \in graph.node |-> NumberOf(n)]
End == [n \in graph.node |-> last[n]]

Searched ==
    /\ IsFlowGraph(graph)
    /\ preorderList \in Seq(graph.node) /\ IsInjective(preorderList)
    /\ Visited = graph.node
    /\ NumberOf(graph.entry) = 0
    /\ IsSearch(graph, Num, End)

\* When the search is back from the entry it has visited every node.
LEMMA AllVisited ==
    ASSUME TypeOK, SearchInvariant, Numbering, path = << >>
    PROVE  Visited = graph.node
<1>1. IsFlowGraph(graph) /\ \A n \in Visited : n \in graph.node
  BY SearchTypes
<1>2. ReachableNodes(graph) = graph.node /\ EntryIsFirst /\ LeftNodes
  BY DEF SearchInvariant
<1>3. DOMAIN last = Visited
  <2>1. DOMAIN path = {}
    OBVIOUS
  <2> QED  BY <1>2, <2>1 DEF LeftNodes
<1>4. ASSUME NEW e \in graph.edge, e[1] \in Visited PROVE e[2] \in Visited
  <2>1. e[2] \in Succs(graph, e[1])
    BY DEF Succs
  <2> QED  BY <1>2, <1>3, <1>4, <2>1 DEF LeftNodes
<1>5. graph.entry \in Visited
  BY <1>2 DEF EntryIsFirst
<1>6. ReachableNodes(graph) \subseteq Visited
  BY <1>1, <1>4, <1>5, ReachableFacts, FlowGraphIsRooted
<1> QED  BY <1>1, <1>2, <1>6

\* What has come out is a depth-first search.
LEMMA SearchIsOver ==
    ASSUME TypeOK, SearchInvariant, Numbering, path = << >>
    PROVE  Searched
<1> DEFINE N == LastNumber
<1>1. /\ IsFlowGraph(graph) /\ N \in Int
      /\ \A n \in Visited : NumberOf(n) \in 0 .. N
      /\ \A m, n \in Visited : NumberOf(m) = NumberOf(n) => m = n
      /\ \A n \in DOMAIN last : n \in Visited /\ last[n] \in 0 .. N
  BY SearchTypes
<1>2. Visited = graph.node
  BY AllVisited
<1>3. EntryIsFirst /\ LeftNodes /\ HaveParents
  BY DEF SearchInvariant
<1>4. DOMAIN last = graph.node
  <2>1. DOMAIN path = {}
    OBVIOUS
  <2> QED  BY <1>2, <1>3, <2>1 DEF LeftNodes
<1>5. \A n \in graph.node : Num[n] = NumberOf(n) /\ End[n] = last[n] /\ LastOf(n) = last[n]
  BY <1>4 DEF Num, End, LastOf
<1>6. Num \in [graph.node -> Nat] /\ End \in [graph.node -> Nat]
  <2>1. \A n \in graph.node : NumberOf(n) \in Nat /\ last[n] \in Nat
    BY <1>1, <1>2, <1>4
  <2> QED  BY <2>1 DEF Num, End
<1> HIDE DEF N
<1>7. /\ \A m, n \in graph.node : Num[m] = Num[n] => m = n
      /\ \A n \in graph.node : Num[n] <= End[n]
      /\ \A m, n \in graph.node : Num[m] <= Num[n] /\ Num[n] <= End[m] => End[n] <= End[m]
  <2>1. \A n \in graph.node : NumberOf(n) <= last[n]
    BY <1>3, <1>4 DEF LeftNodes
  <2>2. \A m, n \in graph.node : NumberOf(m) <= NumberOf(n) /\ NumberOf(n) <= last[m]
                                   => last[n] <= last[m]
    BY <1>2, <1>3, <1>4 DEF LeftNodes
  <2> QED  BY <1>1, <1>2, <1>5, <2>1, <2>2
<1>8. ASSUME NEW n \in graph.node PROVE Spans(Num, End, graph.entry, n)
  <2>1. graph.entry \in graph.node /\ NumberOf(graph.entry) = 0 /\ last[graph.entry] = N
    BY <1>1, <1>3, <1>4 DEF EntryIsFirst, IsFlowGraph, N
  <2>2. NumberOf(n) \in 0 .. N
    BY <1>1, <1>2
  <2> QED  BY <1>5, <2>1, <2>2 DEF Spans
<1>9. ASSUME NEW e \in graph.edge PROVE Num[e[2]] <= End[e[1]]
  <2>1. e[1] \in graph.node /\ e[2] \in graph.node /\ e[2] \in Succs(graph, e[1])
    BY <1>1 DEF IsFlowGraph, Succs
  <2>2. NumberOf(e[2]) <= last[e[1]]
    BY <1>3, <1>4, <2>1 DEF LeftNodes
  <2> QED  BY <1>5, <2>1, <2>2
<1>10. ASSUME NEW n \in graph.node \ {graph.entry}
       PROVE  \E m \in graph.node : IsParent(graph, Num, End, m, n)
  <2>1. PICK m \in graph.node : CameFrom(m, n)
    BY <1>2, <1>3 DEF HaveParents
  <2>2. /\ <<m, n>> \in graph.edge /\ Num[m] < Num[n] /\ Num[n] <= End[m]
        /\ \A a \in graph.node : Num[a] < Num[n] /\ Num[n] <= End[a] => Num[a] <= Num[m]
    BY <1>2, <1>5, <2>1 DEF CameFrom
  <2>3. \A a \in graph.node : Num[a] \in Nat /\ End[a] \in Nat
    BY <1>6
  <2>4. Spans(Num, End, m, n)
    BY <2>2, <2>3 DEF Spans
  <2>5. ASSUME NEW a \in graph.node, Spans(Num, End, a, n), a # n PROVE Spans(Num, End, a, m)
    <3>1. Num[a] <= Num[n] /\ Num[n] <= End[a] /\ Num[a] # Num[n]
      BY <1>7, <2>5 DEF Spans
    <3>2. Num[a] <= Num[m] /\ Num[m] <= End[a]
      BY <2>2, <2>3, <3>1
    <3> QED  BY <3>2 DEF Spans
  <2> QED  BY <2>2, <2>4, <2>5 DEF IsParent
<1>11. \A m, n \in graph.node : Spans(Num, End, m, n) => End[n] <= End[m]
  BY <1>7 DEF Spans
<1>12. IsSearch(graph, Num, End)
  BY <1>6, <1>7, <1>8, <1>9, <1>10, <1>11 DEF IsSearch
<1>13. NumberOf(graph.entry) = 0
  BY <1>3 DEF EntryIsFirst
<1> QED  BY <1>1, <1>2, <1>12, <1>13 DEF Searched, TypeOK

\* When the search is over, nodes and numbers correspond.
LEMMA NodesAndNumbers ==
    ASSUME Searched
    PROVE  /\ Numbers \subseteq Nat
           /\ \A n \in graph.node : NumberOf(n) \in Numbers /\ NodeAt(NumberOf(n)) = n
                                    /\ Num[n] = NumberOf(n) /\ End[n] = last[n]
           /\ \A i \in Numbers : NodeAt(i) \in graph.node /\ NumberOf(NodeAt(i)) = i
                                    /\ Num[NodeAt(i)] = i
<1>1. Visited = graph.node /\ preorderList \in Seq(graph.node) /\ IsInjective(preorderList)
  BY DEF Searched
<1> QED  BY <1>1, NumberFacts DEF Num, End

\* Ancestry by numbers is an order, in which the ancestors of a number are a chain.
LEMMA AncestorFacts ==
    ASSUME Searched
    PROVE  /\ \A i, j \in Numbers :
                /\ IsAncestor(i, j) <=> Spans(Num, End, NodeAt(i), NodeAt(j))
                /\ IsAncestor(i, j) => i <= j
           /\ \A i \in Numbers : IsAncestor(i, i)
           /\ \A i, j, k \in Numbers :
                /\ IsAncestor(i, j) /\ IsAncestor(j, k) => IsAncestor(i, k)
                /\ IsAncestor(i, k) /\ IsAncestor(j, k) /\ i <= j => IsAncestor(i, j)
<1>1. \A i \in Numbers : NodeAt(i) \in graph.node /\ Num[NodeAt(i)] = i /\ End[NodeAt(i)] = last[NodeAt(i)]
  BY NodesAndNumbers
<1>2. \A i, j \in Numbers : IsAncestor(i, j) <=> Spans(Num, End, NodeAt(i), NodeAt(j))
  BY <1>1 DEF IsAncestor, Spans
<1>3. \A i, j \in Numbers : IsAncestor(i, j) => i <= j
  BY DEF IsAncestor
<1>4. IsSearch(graph, Num, End)
  BY DEF Searched
<1>5. /\ \A n \in graph.node : Spans(Num, End, n, n)
      /\ \A l, m, n \in graph.node :
           /\ Spans(Num, End, l, m) /\ Spans(Num, End, m, n) => Spans(Num, End, l, n)
           /\ Spans(Num, End, l, n) /\ Spans(Num, End, m, n) /\ Num[l] <= Num[m]
                => Spans(Num, End, l, m)
  BY <1>4, SpansFacts
<1>6. ASSUME NEW i \in Numbers, NEW j \in Numbers, NEW k \in Numbers
      PROVE  /\ IsAncestor(i, j) /\ IsAncestor(j, k) => IsAncestor(i, k)
             /\ IsAncestor(i, k) /\ IsAncestor(j, k) /\ i <= j => IsAncestor(i, j)
  BY <1>1, <1>2, <1>5
<1>7. \A i \in Numbers : IsAncestor(i, i)
  BY <1>1, <1>2, <1>5
<1> QED  BY <1>2, <1>3, <1>6, <1>7

\* Predecessors by number, and the tails of the edges to an ancestor.
LEMMA PredFacts ==
    ASSUME Searched
    PROVE  /\ \A i \in Numbers : PredNumbers(i) \subseteq Numbers
           /\ \A i, j \in Numbers : j \in PredNumbers(i) <=> <<NodeAt(j), NodeAt(i)>> \in graph.edge
           /\ 0 \in Numbers /\ NodeAt(0) = graph.entry /\ PredNumbers(0) = {}
<1>1. /\ \A n \in graph.node : NumberOf(n) \in Numbers /\ NodeAt(NumberOf(n)) = n
      /\ \A i \in Numbers : NodeAt(i) \in graph.node /\ NumberOf(NodeAt(i)) = i
  BY NodesAndNumbers
<1>2. /\ graph.edge \subseteq graph.node \X graph.node /\ graph.entry \in graph.node
      /\ NumberOf(graph.entry) = 0 /\ \A e \in graph.edge : e[2] # graph.entry
  BY DEF Searched, IsFlowGraph
<1>3. ASSUME NEW i \in Numbers, NEW p PROVE p \in Preds(graph, NodeAt(i)) <=> <<p, NodeAt(i)>> \in graph.edge
  <2>1. ASSUME p \in Preds(graph, NodeAt(i)) PROVE <<p, NodeAt(i)>> \in graph.edge
    <3>1. PICK e \in graph.edge : e[2] = NodeAt(i) /\ e[1] = p
      BY <2>1 DEF Preds
    <3>2. e = <<p, NodeAt(i)>>
      BY <1>2, <3>1
    <3> QED  BY <3>1, <3>2
  <2>2. ASSUME <<p, NodeAt(i)>> \in graph.edge PROVE p \in Preds(graph, NodeAt(i))
    <3> DEFINE e == <<p, NodeAt(i)>>
    <3>1. e \in graph.edge /\ e[1] = p /\ e[2] = NodeAt(i)
      BY <2>2
    <3> HIDE DEF e
    <3> QED  BY <3>1 DEF Preds
  <2> QED  BY <2>1, <2>2
<1>4. ASSUME NEW i \in Numbers
      PROVE  /\ PredNumbers(i) \subseteq Numbers
             /\ \A j \in Numbers : j \in PredNumbers(i) <=> <<NodeAt(j), NodeAt(i)>> \in graph.edge
  <2>1. \A p \in Preds(graph, NodeAt(i)) : p \in graph.node
    BY <1>2 DEF Preds
  <2>2. PredNumbers(i) \subseteq Numbers
    BY <1>1, <2>1 DEF PredNumbers
  <2>3. ASSUME NEW j \in Numbers
        PROVE  j \in PredNumbers(i) <=> <<NodeAt(j), NodeAt(i)>> \in graph.edge
    <3>1. ASSUME j \in PredNumbers(i) PROVE NodeAt(j) \in Preds(graph, NodeAt(i))
      <4>1. PICK p \in Preds(graph, NodeAt(i)) : j = NumberOf(p)
        BY <3>1 DEF PredNumbers
      <4> QED  BY <1>1, <2>1, <4>1
    <3>2. ASSUME NodeAt(j) \in Preds(graph, NodeAt(i)) PROVE j \in PredNumbers(i)
      BY <1>1, <3>2 DEF PredNumbers
    <3> QED  BY <1>3, <3>1, <3>2
  <2> QED  BY <2>2, <2>3
<1>5. 0 \in Numbers /\ NodeAt(0) = graph.entry
  BY <1>1, <1>2
<1>6. PredNumbers(0) = {}
  <2>1. \A j \in Numbers : j \notin PredNumbers(0)
    <3>1. ASSUME NEW j \in Numbers PROVE <<NodeAt(j), NodeAt(0)>> \notin graph.edge
      <4> DEFINE e == <<NodeAt(j), NodeAt(0)>>
      <4>1. e[2] = graph.entry
        BY <1>5
      <4> QED  BY <1>2, <4>1
    <3> QED  BY <1>4, <1>5, <3>1
  <2> QED  BY <1>4, <1>5, <2>1
<1> QED  BY <1>4, <1>5, <1>6

\* The tails of the edges to an ancestor are those of UpEdges.
LEMMA TailFacts ==
    ASSUME Searched
    PROVE  /\ \A i \in Numbers : TailNumbers(i) \subseteq Numbers /\ TailNumbers(i) \subseteq PredNumbers(i)
           /\ \A i, v \in Numbers :
                v \in TailNumbers(i) <=> <<NodeAt(v), NodeAt(i)>> \in UpEdges(graph, Num, End)
           /\ TailNumbers(0) = {}
<1>1. \A i \in Numbers : TailNumbers(i) \subseteq Numbers /\ TailNumbers(i) \subseteq PredNumbers(i)
  BY PredFacts DEF TailNumbers
<1>2. ASSUME NEW i \in Numbers, NEW v \in Numbers
      PROVE  v \in TailNumbers(i) <=> <<NodeAt(v), NodeAt(i)>> \in UpEdges(graph, Num, End)
  <2> DEFINE e == <<NodeAt(v), NodeAt(i)>>
  <2>1. e[1] = NodeAt(v) /\ e[2] = NodeAt(i)
    OBVIOUS
  <2>2. e \in UpEdges(graph, Num, End) <=> e \in graph.edge /\ Spans(Num, End, NodeAt(i), NodeAt(v))
    BY <2>1 DEF UpEdges
  <2>3. Spans(Num, End, NodeAt(i), NodeAt(v)) <=> IsAncestor(i, v)
    BY AncestorFacts
  <2>4. e \in graph.edge <=> v \in PredNumbers(i)
    BY PredFacts
  <2> HIDE DEF e
  <2>5. v \in TailNumbers(i) <=> v \in PredNumbers(i) /\ IsAncestor(i, v)
    BY DEF TailNumbers
  <2>6. v \in TailNumbers(i) <=> e \in UpEdges(graph, Num, End)
    BY <2>2, <2>3, <2>4, <2>5
  <2> QED  BY <2>6 DEF e
<1>3. TailNumbers(0) = {}
  BY <1>1, PredFacts
<1> QED  BY <1>1, <1>2, <1>3

\* If every header dominates the tails of its edges the graph is reducible.
LEMMA ReducibleIfDominated ==
    ASSUME Searched,
           \A b \in Numbers : \A v \in TailNumbers(b) : Dominates(graph, NodeAt(b), NodeAt(v))
    PROVE  Reducible(graph)
<1>1. IsFlowGraph(graph) /\ IsSearch(graph, Num, End)
  BY DEF Searched
<1>2. ASSUME NEW e \in UpEdges(graph, Num, End) PROVE e \in BackEdges(graph)
  <2>1. e \in graph.edge /\ e = <<e[1], e[2]>> /\ e[1] \in graph.node /\ e[2] \in graph.node
    BY <1>1 DEF UpEdges, IsFlowGraph
  <2>2. PICK b \in Numbers, v \in Numbers : NodeAt(b) = e[2] /\ NodeAt(v) = e[1]
    BY <2>1, NodesAndNumbers
  <2>3. v \in TailNumbers(b)
    <3>1. <<NodeAt(v), NodeAt(b)>> \in UpEdges(graph, Num, End)
      BY <2>1, <2>2
    <3> QED  BY <3>1, TailFacts
  <2> QED  BY <2>1, <2>2, <2>3 DEF BackEdges
<1> QED  BY <1>1, <1>2, ReducibleIfUpEdgesAreBackEdges

\* A region that can only be entered at b is dominated by b.
LEMMA RegionDominated ==
    ASSUME Searched, NEW b \in Numbers, NEW S \in SUBSET Numbers, 0 \notin S \ {b},
           \A i \in S \ {b} : PredNumbers(i) \subseteq S
    PROVE  \A i \in S : Dominates(graph, NodeAt(b), NodeAt(i))
<1> DEFINE X == {NodeAt(i) : i \in S}
<1>1. /\ IsFlowGraph(graph)
      /\ \A n \in graph.node : NumberOf(n) \in Numbers /\ NodeAt(NumberOf(n)) = n
      /\ \A i \in Numbers : NodeAt(i) \in graph.node /\ NumberOf(NodeAt(i)) = i
  BY NodesAndNumbers DEF Searched
<1>2. \A n \in graph.node : n \in X <=> NumberOf(n) \in S
  BY <1>1
<1>3. X \subseteq graph.node /\ graph.entry \notin X \ {NodeAt(b)}
  <2>1. graph.entry \in graph.node /\ NumberOf(graph.entry) = 0
    BY <1>1 DEF Searched, IsFlowGraph
  <2>2. graph.entry \in X => 0 = b
    BY <1>2, <2>1
  <2>3. 0 = b => graph.entry = NodeAt(b)
    BY <1>1, <2>1
  <2> QED  BY <1>1, <2>2, <2>3
<1>4. ASSUME NEW e \in graph.edge, e[2] \in X, e[2] # NodeAt(b) PROVE e[1] \in X
  <2>1. e = <<e[1], e[2]>> /\ e[1] \in graph.node /\ e[2] \in graph.node
    BY <1>1 DEF IsFlowGraph
  <2>2. PICK i \in Numbers, j \in Numbers : NodeAt(i) = e[2] /\ NodeAt(j) = e[1]
    BY <1>1, <2>1
  <2>3. i \in S \ {b}
    BY <1>1, <1>2, <1>4, <2>1, <2>2
  <2>4. j \in PredNumbers(i)
    <3>1. <<NodeAt(j), NodeAt(i)>> \in graph.edge
      BY <2>1, <2>2
    <3> QED  BY <3>1, PredFacts
  <2> QED  BY <2>2, <2>3, <2>4
<1> HIDE DEF X
<1>5. \A n \in X : Dominates(graph, NodeAt(b), n)
  BY <1>1, <1>3, <1>4, SingleEntryDominates, FlowGraphIsRooted
<1> QED  BY <1>1, <1>2, <1>5

\* What a loop is, by number.
LEMMA InLoopMeans ==
    ASSUME Searched, NEW i, NEW h
    PROVE  /\ InLoop(i, h) <=> NodeAt(h) \in HeadsOf(graph) /\ NodeAt(i) \in LoopOf(graph, NodeAt(h))
           /\ IsHead(h) <=> h \in Numbers /\ NodeAt(h) \in HeadsOf(graph)
<1> DEFINE LoopAt(n) == [head |-> n, tails |-> TailsOf(graph, n), nodes |-> LoopOf(graph, n)]
<1>1. NaturalLoops(graph) = {LoopAt(n) : n \in HeadsOf(graph)}
  BY NaturalLoopsAreLoops
<1>2. \A n : LoopAt(n).head = n /\ LoopAt(n).nodes = LoopOf(graph, n)
  OBVIOUS
<1> HIDE DEF LoopAt
<1> QED  BY <1>1, <1>2 DEF InLoop, IsHead

\* Natural loops by number.
LEMMA LoopsByNumber ==
    ASSUME Searched
    PROVE  /\ \A h \in Numbers : IsHead(h) => InLoop(h, h)
           /\ \A i, h \in Numbers :
                InLoop(i, h) => /\ IsHead(h) /\ IsAncestor(h, i) /\ h <= i
                                /\ i # h => \A j \in PredNumbers(i) : InLoop(j, h)
           /\ \A i, b, h \in Numbers :
                /\ InLoop(i, h) /\ i # h /\ IsAncestor(b, i) /\ h < b => InLoop(b, h)
                /\ InLoop(b, h) /\ b # h /\ InLoop(i, b) => InLoop(i, h) /\ i # h
                /\ InLoop(i, h) /\ InLoop(i, b) /\ h < b => InLoop(b, h)
<1>1. /\ IsFlowGraph(graph) /\ IsSearch(graph, Num, End) /\ Numbers \subseteq Nat
      /\ \A i \in Numbers : NodeAt(i) \in graph.node /\ NumberOf(NodeAt(i)) = i
                            /\ Num[NodeAt(i)] = i
  BY NodesAndNumbers DEF Searched
<1>2. \A i, h : InLoop(i, h) <=> NodeAt(h) \in HeadsOf(graph) /\ NodeAt(i) \in LoopOf(graph, NodeAt(h))
  BY InLoopMeans
<1>3. \A h : IsHead(h) <=> h \in Numbers /\ NodeAt(h) \in HeadsOf(graph)
  BY InLoopMeans
<1>4. ASSUME NEW h \in Numbers, IsHead(h) PROVE InLoop(h, h)
  BY <1>1, <1>2, <1>3, <1>4, LoopFacts
<1>5. ASSUME NEW i \in Numbers, NEW h \in Numbers, InLoop(i, h)
      PROVE  /\ IsHead(h) /\ IsAncestor(h, i) /\ h <= i
             /\ i # h => \A j \in PredNumbers(i) : InLoop(j, h)
  <2>1. NodeAt(h) \in HeadsOf(graph) /\ NodeAt(i) \in LoopOf(graph, NodeAt(h))
    BY <1>2, <1>5
  <2>2. Spans(Num, End, NodeAt(h), NodeAt(i))
    BY <1>1, <2>1, LoopWithinHead
  <2>3. IsAncestor(h, i) /\ h <= i
    BY <2>2, AncestorFacts
  <2>4. ASSUME i # h, NEW j \in PredNumbers(i) PROVE InLoop(j, h)
    <3> DEFINE e == <<NodeAt(j), NodeAt(i)>>
    <3>1. e \in graph.edge /\ e[1] = NodeAt(j) /\ e[2] = NodeAt(i)
      BY PredFacts
    <3>2. NodeAt(i) # NodeAt(h)
      BY <1>1, <2>4
    <3> HIDE DEF e
    <3>3. NodeAt(j) \in LoopOf(graph, NodeAt(h))
      BY <1>1, <2>1, <3>1, <3>2, LoopFacts
    <3> QED  BY <1>2, <2>1, <3>3
  <2> QED  BY <1>3, <2>1, <2>3, <2>4
<1>6. ASSUME NEW i \in Numbers, NEW b \in Numbers, NEW h \in Numbers,
             InLoop(i, h), i # h, IsAncestor(b, i), h < b
      PROVE  InLoop(b, h)
  <2>1. NodeAt(h) \in HeadsOf(graph) /\ NodeAt(i) \in LoopOf(graph, NodeAt(h)) \ {NodeAt(h)}
    BY <1>1, <1>2, <1>6
  <2>2. Spans(Num, End, NodeAt(b), NodeAt(i)) /\ Num[NodeAt(h)] < Num[NodeAt(b)]
    BY <1>1, <1>6, AncestorFacts
  <2>3. NodeAt(b) \in LoopOf(graph, NodeAt(h)) \ {NodeAt(h)}
    BY <1>1, <2>1, <2>2, LoopHoldsAncestors
  <2> QED  BY <1>2, <2>1, <2>3
<1>7. ASSUME NEW i \in Numbers, NEW b \in Numbers, NEW h \in Numbers,
             InLoop(b, h), b # h, InLoop(i, b)
      PROVE  InLoop(i, h) /\ i # h
  <2>1. NodeAt(h) \in HeadsOf(graph) /\ NodeAt(b) \in LoopOf(graph, NodeAt(h)) \ {NodeAt(h)}
        /\ NodeAt(i) \in LoopOf(graph, NodeAt(b))
    BY <1>1, <1>2, <1>7
  <2>2. NodeAt(i) \in LoopOf(graph, NodeAt(h)) \ {NodeAt(h)}
    BY <1>1, <2>1, LoopsNest
  <2> QED  BY <1>2, <2>1, <2>2
<1>8. ASSUME NEW i \in Numbers, NEW b \in Numbers, NEW h \in Numbers,
             InLoop(i, h), InLoop(i, b), h < b
      PROVE  InLoop(b, h)
  <2>1. /\ NodeAt(h) \in HeadsOf(graph) /\ NodeAt(i) \in LoopOf(graph, NodeAt(h))
        /\ NodeAt(i) \in LoopOf(graph, NodeAt(b)) /\ Num[NodeAt(h)] < Num[NodeAt(b)]
    BY <1>1, <1>2, <1>8
  <2>2. NodeAt(b) \in LoopOf(graph, NodeAt(h)) \ {NodeAt(h)}
    BY <1>1, <2>1, LoopsNestOrAreDisjoint
  <2> QED  BY <1>2, <2>1, <2>2
<1> QED  BY <1>4, <1>5, <1>6, <1>7, <1>8

\* In a reducible graph the heads are the numbers with edges from descendants, and the
\* tails of those edges are in the loop, which is the least set with what leads there.
LEMMA ReducibleLoops ==
    ASSUME Searched, Reducible(graph)
    PROVE  /\ \A h \in Numbers : IsHead(h) <=> TailNumbers(h) # {}
           /\ \A h \in Numbers : \A v \in TailNumbers(h) : InLoop(v, h)
           /\ \A h \in Numbers : \A X \in SUBSET Numbers :
                /\ TailNumbers(h) \ {h} \subseteq X
                /\ \A i \in X \ {h} : \A j \in PredNumbers(i) \ {h} : j \in X
                => \A i \in Numbers : InLoop(i, h) /\ i # h => i \in X
           /\ \A h \in Numbers : TailsOf(graph, NodeAt(h)) = {NodeAt(v) : v \in TailNumbers(h)}
<1>1. /\ IsFlowGraph(graph) /\ IsSearch(graph, Num, End)
      /\ \A n \in graph.node : NumberOf(n) \in Numbers /\ NodeAt(NumberOf(n)) = n
      /\ \A i \in Numbers : NodeAt(i) \in graph.node /\ NumberOf(NodeAt(i)) = i
  BY NodesAndNumbers DEF Searched
<1>2. UpEdges(graph, Num, End) = BackEdges(graph)
  BY <1>1, UpEdgesIfReducible
<1>3. \A e \in BackEdges(graph) : e = <<e[1], e[2]>> /\ e[1] \in graph.node /\ e[2] \in graph.node
  BY <1>1 DEF BackEdges, IsFlowGraph
<1>4. /\ \A h \in Numbers : TailNumbers(h) \subseteq Numbers
      /\ \A h, v \in Numbers : v \in TailNumbers(h) <=> <<NodeAt(v), NodeAt(h)>> \in BackEdges(graph)
  BY <1>2, TailFacts
<1>5. ASSUME NEW h \in Numbers
      PROVE  TailsOf(graph, NodeAt(h)) = {NodeAt(v) : v \in TailNumbers(h)}
  <2>1. ASSUME NEW v \in TailNumbers(h) PROVE NodeAt(v) \in TailsOf(graph, NodeAt(h))
    <3> DEFINE e == <<NodeAt(v), NodeAt(h)>>
    <3>1. e \in BackEdges(graph) /\ e[1] = NodeAt(v) /\ e[2] = NodeAt(h)
      BY <1>4
    <3> HIDE DEF e
    <3> QED  BY <3>1 DEF TailsOf
  <2>2. ASSUME NEW t \in TailsOf(graph, NodeAt(h)) PROVE \E v \in TailNumbers(h) : t = NodeAt(v)
    <3>1. PICK e \in BackEdges(graph) : e[1] = t /\ e[2] = NodeAt(h)
      BY DEF TailsOf
    <3>2. t \in graph.node /\ e = <<t, NodeAt(h)>>
      BY <1>3, <3>1
    <3>3. NumberOf(t) \in Numbers /\ NodeAt(NumberOf(t)) = t
      BY <1>1, <3>2
    <3> QED  BY <1>4, <3>2, <3>3
  <2> QED  BY <2>1, <2>2
<1>6. ASSUME NEW h \in Numbers PROVE IsHead(h) <=> TailNumbers(h) # {}
  <2>1. NodeAt(h) \in HeadsOf(graph) <=> TailsOf(graph, NodeAt(h)) # {}
    BY DEF HeadsOf, TailsOf
  <2> QED  BY <1>5, <2>1, InLoopMeans
<1>7. ASSUME NEW h \in Numbers, NEW v \in TailNumbers(h) PROVE InLoop(v, h)
  <2>1. NodeAt(v) \in LoopOf(graph, NodeAt(h))
    BY <1>1, <1>5, LoopFacts
  <2>2. NodeAt(h) \in HeadsOf(graph)
    BY <1>6, InLoopMeans
  <2> QED  BY <2>1, <2>2, InLoopMeans
<1>8. ASSUME NEW h \in Numbers, NEW X \in SUBSET Numbers, TailNumbers(h) \ {h} \subseteq X,
             \A i \in X \ {h} : \A j \in PredNumbers(i) \ {h} : j \in X,
             NEW i \in Numbers, InLoop(i, h), i # h
      PROVE  i \in X
  <2> DEFINE Y == {NodeAt(j) : j \in X}
  <2>1. \A n \in graph.node : n \in Y <=> NumberOf(n) \in X
    BY <1>1
  <2>2. TailsOf(graph, NodeAt(h)) \ {NodeAt(h)} \subseteq Y
    BY <1>5, <1>8
  <2>3. ASSUME NEW e \in graph.edge, e[2] \in Y \ {NodeAt(h)}, e[1] # NodeAt(h) PROVE e[1] \in Y
    <3>1. e = <<e[1], e[2]>> /\ e[1] \in graph.node /\ e[2] \in graph.node
      BY <1>1 DEF IsFlowGraph
    <3>2. PICK a \in Numbers, c \in Numbers : NodeAt(a) = e[2] /\ NodeAt(c) = e[1]
      BY <1>1, <3>1
    <3>3. a \in X \ {h} /\ c # h
      BY <1>1, <2>1, <2>3, <3>1, <3>2
    <3>4. c \in PredNumbers(a)
      <4>1. <<NodeAt(c), NodeAt(a)>> \in graph.edge
        BY <3>1, <3>2
      <4> QED  BY <4>1, PredFacts
    <3> QED  BY <1>8, <3>2, <3>3, <3>4
  <2> HIDE DEF Y
  <2>4. LoopOf(graph, NodeAt(h)) \ {NodeAt(h)} \subseteq Y
    BY <1>1, <2>2, <2>3, LoopFacts
  <2>5. NodeAt(i) \in LoopOf(graph, NodeAt(h)) \ {NodeAt(h)}
    BY <1>1, <1>8, InLoopMeans
  <2> QED  BY <1>1, <2>1, <2>4, <2>5
<1> QED  BY <1>5, <1>6, <1>7, <1>8

-----------------------------------------------------------------------------
(* The steps of the search keep the invariant.                             *)

\* What is by number stays while the graph and the numbers stay.
LEMMA NumberedStays ==
    ASSUME UNCHANGED <<graph, preorderList, last>>
    PROVE  /\ Visited' = Visited /\ Numbers' = Numbers /\ LastNumber' = LastNumber
           /\ Attributes' = Attributes
           /\ \A n : NumberOf(n)' = NumberOf(n) /\ LastOf(n)' = LastOf(n)
           /\ \A i : /\ NodeAt(i)' = NodeAt(i) /\ PredNumbers(i)' = PredNumbers(i)
                     /\ TailNumbers(i)' = TailNumbers(i) /\ TypeFound(i)' = TypeFound(i)
           /\ \A i, j : IsAncestor(i, j)' = IsAncestor(i, j) /\ InLoop(i, j)' = InLoop(i, j)
<1>1. /\ Visited' = Visited /\ Numbers' = Numbers /\ LastNumber' = LastNumber
      /\ \A n : NumberOf(n)' = NumberOf(n)
      /\ \A i : NodeAt(i)' = NodeAt(i)
  BY NumbersStay
<1>2. Attributes' = Attributes
  BY <1>1 DEF Attributes
<1>3. \A n : LastOf(n)' = LastOf(n)
  BY <1>1 DEF LastOf
<1>4. \A i, j : IsAncestor(i, j)' = IsAncestor(i, j)
  BY <1>1 DEF IsAncestor
<1>5. \A i : PredNumbers(i)' = PredNumbers(i)
  <2>1. ASSUME NEW i PROVE PredNumbers(i)' = PredNumbers(i)
    <3>1. PredNumbers(i)' = {NumberOf(p)' : p \in Preds(graph, NodeAt(i))}
      BY <1>1 DEF PredNumbers
    <3> QED  BY <1>1, <3>1 DEF PredNumbers
  <2> QED  BY <2>1
<1>6. \A i : TailNumbers(i)' = TailNumbers(i)
  BY <1>4, <1>5 DEF TailNumbers
<1>7. \A i : TypeFound(i)' = TypeFound(i)
  BY <1>6 DEF TypeFound
<1>8. \A i, j : InLoop(i, j)' = InLoop(i, j)
  BY <1>1 DEF InLoop
<1> QED  BY <1>1, <1>2, <1>3, <1>4, <1>5, <1>6, <1>7, <1>8

\* What the search has found stays when it is over.
LEMMA SearchStays ==
    ASSUME TypeOK, SearchInvariant, Numbering, path = << >>,
           UNCHANGED <<graph, path, preorderList, last>>
    PROVE  SearchInvariant'
<1>1. /\ Visited' = Visited /\ Numbers' = Numbers /\ LastNumber' = LastNumber
      /\ \A n : NumberOf(n)' = NumberOf(n) /\ LastOf(n)' = LastOf(n)
  BY NumberedStays
<1>2. Visited = graph.node
  BY AllVisited
<1>3. EntryIsFirst /\ PathDescends /\ LeftNodes /\ HaveParents /\ ReachableNodes(graph) = graph.node
  BY DEF SearchInvariant
<1>4. EntryIsFirst'
  BY <1>1, <1>3 DEF EntryIsFirst
<1>5. DOMAIN path = {}
  OBVIOUS
<1>6. PathDescends'
  BY <1>5 DEF PathDescends
<1>7. LeftNodes'
  BY <1>1, <1>3 DEF LeftNodes
<1>8. \A m, n : CameFrom(m, n)' = CameFrom(m, n)
  BY <1>1 DEF CameFrom
<1>9. HaveParents'
  BY <1>1, <1>3, <1>8 DEF HaveParents
<1> QED  BY <1>1, <1>2, <1>3, <1>4, <1>6, <1>7, <1>9 DEF SearchInvariant

\* Visiting a node keeps the invariant.
LEMMA VisitStep ==
    ASSUME InductiveInvariant, VisitSuccessor
    PROVE  InductiveInvariant'
<1>1. PICK s \in Succs(graph, Last(path)) \ Visited :
          path' = Append(path, s) /\ preorderList' = Append(preorderList, s)
  BY DEF VisitSuccessor
<1>2. /\ TypeOK /\ SearchInvariant /\ phase = "dfs" /\ path # << >>
      /\ UNCHANGED <<graph, phase, last, attrs, nodeLookup, w, body, worklist, loops>>
  BY DEF InductiveInvariant, VisitSuccessor
<1>3. /\ SearchInvariant'
      /\ path' \in Seq(graph.node) /\ IsInjective(path')
      /\ preorderList' \in Seq(graph.node) /\ IsInjective(preorderList')
      /\ Visited' = Visited \cup {s} /\ Numbers \subseteq Numbers'
  BY <1>1, <1>2, VisitKeepsSearch
<1>4. w \in 0 .. Len(preorderList')
  <2>1. preorderList \in Seq(graph.node) /\ w \in 0 .. Len(preorderList)
    BY <1>2 DEF TypeOK
  <2>2. preorderList' \in Seq(graph.node) /\ Len(preorderList') \in Nat
    BY <1>3
  <2>3. s \in graph.node
    BY <1>2 DEF Succs, TypeOK, IsFlowGraph
  <2>4. Len(preorderList') = Len(preorderList) + 1
    BY <1>1, <2>1, <2>3
  <2> QED  BY <2>1, <2>4
<1>5. TypeOK'
  BY <1>2, <1>3, <1>4 DEF TypeOK, Headers
<1>6. body = {} /\ loops = << >>
  BY <1>2 DEF InductiveInvariant, NothingYet
<1> QED  BY <1>2, <1>3, <1>5, <1>6 DEF InductiveInvariant, NothingYet, HeaderInvariant, ResultInvariant,
              Analyzing

\* Leaving a node keeps the invariant.
LEMMA LeaveStep ==
    ASSUME InductiveInvariant, LeaveNode
    PROVE  InductiveInvariant'
<1>1. /\ TypeOK /\ SearchInvariant /\ phase = "dfs"
      /\ UNCHANGED <<graph, phase, preorderList, attrs, nodeLookup, w, body, worklist, loops>>
  BY DEF InductiveInvariant, LeaveNode
<1>2. /\ SearchInvariant'
      /\ path' \in Seq(graph.node) /\ IsInjective(path')
      /\ \A n \in DOMAIN last' : n \in Visited /\ last'[n] \in Numbers
  BY <1>1, LeaveKeepsSearch
<1>3. Visited' = Visited /\ Numbers' = Numbers
  BY <1>1, NumbersStay
<1>4. TypeOK'
  BY <1>1, <1>2, <1>3 DEF TypeOK, Headers
<1>5. body = {} /\ loops = << >>
  BY <1>1 DEF InductiveInvariant, NothingYet
<1> QED  BY <1>1, <1>2, <1>4, <1>5 DEF InductiveInvariant, NothingYet, HeaderInvariant, ResultInvariant,
              Analyzing

\* The search has visited every node: _checkTree never fails.
LEMMA CheckStep ==
    ASSUME InductiveInvariant, CheckTree
    PROVE  InductiveInvariant' /\ phase' = "backedges"
<1>1. /\ TypeOK /\ SearchInvariant /\ phase = "dfs" /\ path = << >> /\ Numbering
      /\ UNCHANGED <<graph, path, preorderList, last, attrs, nodeLookup, w, body, worklist, loops>>
  BY DEF InductiveInvariant, CheckTree, Numbering
<1>2. phase' = "backedges"
  BY <1>1, AllVisited DEF CheckTree
<1>3. SearchInvariant' /\ Visited' = Visited /\ Numbers' = Numbers
  BY <1>1, SearchStays, NumbersStay
<1>4. TypeOK'
  BY <1>1, <1>2, <1>3 DEF TypeOK, Headers, Phases
<1>5. body = {} /\ loops = << >>
  BY <1>1 DEF InductiveInvariant, NothingYet
<1> QED  BY <1>1, <1>2, <1>3, <1>4, <1>5 DEF InductiveInvariant, NothingYet, HeaderInvariant,
              ResultInvariant, Analyzing

-----------------------------------------------------------------------------
(* The steps of the analysis keep the invariant.                           *)

\* What the invariant says while headers are tried.
LEMMA HeaderFacts ==
    ASSUME InductiveInvariant, Analyzing
    PROVE  /\ TypeOK /\ Searched /\ Recorded /\ Collapsed /\ BodyFound /\ EnteredAtHeaders
           /\ Reducible(graph) => LoopsCollapsed
           /\ attrs \in [Numbers -> Attributes] /\ nodeLookup \in [Numbers -> Numbers]
           /\ Numbers = 0 .. Len(preorderList) - 1 /\ Len(preorderList) \in Nat
           /\ w \in 0 .. Len(preorderList) /\ worklist \subseteq body /\ body \subseteq Numbers
           /\ SearchInvariant /\ Numbering /\ path = << >>
           /\ phase # "headers" => w = 0 /\ body = {}
<1>1. TypeOK /\ SearchInvariant /\ HeaderInvariant /\ Numbering
  BY DEF InductiveInvariant, Analyzing, Numbering
<1>2. path = << >>
  BY <1>1 DEF SearchInvariant, Analyzing
<1>3. Searched
  BY <1>1, <1>2, SearchIsOver
<1>4. /\ attrs \in [Numbers -> Attributes] /\ nodeLookup \in [Numbers -> Numbers]
      /\ preorderList \in Seq(graph.node) /\ w \in 0 .. Len(preorderList)
      /\ worklist \subseteq body /\ body \subseteq Numbers
  BY <1>1 DEF TypeOK, Analyzing
<1>5. Numbers = 0 .. Len(preorderList) - 1 /\ Len(preorderList) \in Nat
  BY <1>4 DEF Numbers
<1> QED  BY <1>1, <1>2, <1>3, <1>4, <1>5 DEF HeaderInvariant

\* The parts of the invariant that a step of the analysis can disturb.
LEMMA HeaderStep ==
    ASSUME TypeOK, SearchInvariant, Numbering, path = << >>,
           UNCHANGED <<graph, path, preorderList, last, loops>>,
           phase' \in {"headers", "tree"},
           attrs' \in [Numbers -> Attributes], nodeLookup' \in [Numbers -> Numbers],
           w' \in 0 .. Len(preorderList), worklist' \subseteq body', body' \subseteq Numbers,
           phase' = "tree" => w' = 0 /\ body' = {},
           Recorded', Collapsed', BodyFound', EnteredAtHeaders', Reducible(graph) => LoopsCollapsed'
    PROVE  InductiveInvariant'
<1>1. SearchInvariant'
  BY SearchStays
<1>2. Visited' = Visited /\ Numbers' = Numbers /\ Attributes' = Attributes
  BY NumberedStays
<1>3. TypeOK'
  BY <1>2 DEF TypeOK, Headers, Phases
<1>4. HeaderInvariant'
  BY DEF HeaderInvariant
<1> QED  BY <1>1, <1>3, <1>4 DEF InductiveInvariant, NothingYet, ResultInvariant

\* Part [A] records the edges to ancestors; nothing is collapsed yet.
LEMMA FindBackEdgesStep ==
    ASSUME InductiveInvariant, FindBackEdges
    PROVE  InductiveInvariant'
<1>1. /\ TypeOK /\ SearchInvariant /\ phase = "backedges" /\ Numbering /\ path = << >> /\ body = {}
      /\ phase' = "headers" /\ w' = Len(preorderList)
      /\ UNCHANGED <<graph, path, preorderList, last, body, worklist, loops>>
  BY DEF InductiveInvariant, FindBackEdges, Numbering, SearchInvariant, NothingYet
<1>2. Searched
  BY <1>1, SearchIsOver
<1>3. /\ attrs' = [i \in Numbers |->
                   [backPreds    |-> TailNumbers(i),
                    nonBackPreds |-> {v \in PredNumbers(i) : ~IsAncestor(i, v)},
                    header       |-> 0,
                    type         |-> "nonheader"]]
      /\ nodeLookup' = [i \in Numbers |-> i]
  BY DEF FindBackEdges, TailNumbers
<1>4. /\ Numbers = 0 .. Len(preorderList) - 1 /\ Len(preorderList) \in Nat /\ 0 \in Numbers
      /\ \A i \in Numbers : PredNumbers(i) \subseteq Numbers /\ TailNumbers(i) \subseteq Numbers
  BY <1>1, <1>2, PredFacts, TailFacts DEF Numbers, TypeOK
<1>5. /\ Numbers' = Numbers
      /\ \A i : /\ PredNumbers(i)' = PredNumbers(i) /\ TailNumbers(i)' = TailNumbers(i)
      /\ \A i, j : IsAncestor(i, j)' = IsAncestor(i, j)
  BY <1>1, NumberedStays
<1>6. attrs' \in [Numbers -> Attributes] /\ nodeLookup' \in [Numbers -> Numbers]
  BY <1>3, <1>4 DEF Attributes
<1>7. \A i \in Numbers : /\ attrs'[i].backPreds = TailNumbers(i)
                         /\ attrs'[i].nonBackPreds = PredNumbers(i) \ TailNumbers(i)
                         /\ attrs'[i].header = 0 /\ attrs'[i].type = "nonheader"
                         /\ nodeLookup'[i] = i
  <2>1. ASSUME NEW i \in Numbers
        PROVE  {v \in PredNumbers(i) : ~IsAncestor(i, v)} = PredNumbers(i) \ TailNumbers(i)
    BY DEF TailNumbers
  <2> QED  BY <1>3, <2>1
<1>8. \A i \in Numbers : i < w' /\ ~Tried(i)'
  BY <1>1, <1>4 DEF Tried
<1>9. Recorded'
  BY <1>5, <1>7, <1>8 DEF Recorded
<1>10. Collapsed'
  <2>1. \A i \in Numbers : IsAncestor(i, i)
    BY <1>2, AncestorFacts
  <2> QED  BY <1>5, <1>7, <2>1 DEF Collapsed
<1>11. BodyFound'
  BY <1>1 DEF BodyFound
<1>12. \A b \in Numbers : ~(b >= w')
  BY <1>1, <1>4
<1>13. EnteredAtHeaders'
  BY <1>5, <1>7, <1>12 DEF EnteredAtHeaders
<1>14. LoopsCollapsed'
  <2>1. NoneIrreducible'
    BY <1>5, <1>7 DEF NoneIrreducible
  <2> QED  BY <1>1, <1>5, <1>7, <1>12, <2>1 DEF LoopsCollapsed
<1>15. w' \in 0 .. Len(preorderList) /\ worklist' \subseteq body' /\ body' \subseteq Numbers
  BY <1>1, <1>4 DEF TypeOK
<1> QED  BY <1>1, <1>6, <1>9, <1>10, <1>11, <1>13, <1>14, <1>15, HeaderStep

\* What the representatives are: ancestors, with a number that has been tried.
LEMMA RepresentativeFacts ==
    ASSUME InductiveInvariant, Analyzing
    PROVE  \A i \in Numbers :
             /\ nodeLookup[i] \in Numbers /\ IsAncestor(nodeLookup[i], i) /\ nodeLookup[i] <= i
             /\ nodeLookup[nodeLookup[i]] = nodeLookup[i]
             /\ nodeLookup[i] # i => nodeLookup[i] >= w
             /\ i < w => nodeLookup[i] = i
<1>1. /\ Searched /\ Collapsed /\ nodeLookup \in [Numbers -> Numbers]
      /\ Numbers = 0 .. Len(preorderList) - 1 /\ Len(preorderList) \in Nat /\ w \in 0 .. Len(preorderList)
  BY HeaderFacts
<1>2. ASSUME NEW i \in Numbers
      PROVE  /\ nodeLookup[i] \in Numbers /\ IsAncestor(nodeLookup[i], i) /\ nodeLookup[i] <= i
             /\ nodeLookup[nodeLookup[i]] = nodeLookup[i]
             /\ nodeLookup[i] # i => nodeLookup[i] >= w
  BY <1>1, AncestorFacts DEF Collapsed
<1>3. ASSUME NEW i \in Numbers, i < w PROVE nodeLookup[i] = i
  BY <1>1, <1>2, <1>3
<1> QED  BY <1>2, <1>3

\* The representative of a proper descendant of a number not tried yet is such a descendant
\* too.
LEMMA RepresentativeBelow ==
    ASSUME InductiveInvariant, Analyzing, NEW h \in Numbers, h < w,
           NEW v \in Numbers, IsAncestor(h, v), v # h
    PROVE  IsAncestor(h, nodeLookup[v]) /\ nodeLookup[v] # h
<1>1. /\ Searched /\ Numbers = 0 .. Len(preorderList) - 1 /\ Len(preorderList) \in Nat
      /\ w \in 0 .. Len(preorderList)
  BY HeaderFacts
<1>2. /\ nodeLookup[v] \in Numbers /\ IsAncestor(nodeLookup[v], v)
      /\ nodeLookup[v] # v => nodeLookup[v] >= w
  BY RepresentativeFacts
<1>3. CASE nodeLookup[v] = v
  BY <1>3
<1>4. CASE nodeLookup[v] # v
  <2>1. h < nodeLookup[v]
    BY <1>1, <1>2, <1>4
  <2> QED  BY <1>1, <1>2, <2>1, AncestorFacts
<1> QED  BY <1>3, <1>4

\* Attributes stay attributes when one of them is set.
LEMMA AttributesUpdated ==
    ASSUME NEW a \in Attributes
    PROVE  /\ \A t \in {"nonheader", "self", "reducible", "irreducible"} :
                [a EXCEPT !.type = t] \in Attributes
           /\ \A h \in Numbers : [a EXCEPT !.header = h] \in Attributes
           /\ \A S \in SUBSET Numbers : [a EXCEPT !.nonBackPreds = S] \in Attributes
BY DEF Attributes

\* P starts with what holds the tails of the header; a header without tails but itself is
\* done with at once.
LEMMA TryHeaderStep ==
    ASSUME InductiveInvariant, TryHeader
    PROVE  InductiveInvariant'
<1> DEFINE h     == w - 1
           found == {nodeLookup[v] : v \in TailNumbers(h) \ {h}}
<1>1. Analyzing /\ phase = "headers" /\ body = {} /\ worklist = {} /\ w > 0
  BY DEF TryHeader, Idle, Analyzing
<1>2. /\ TypeOK /\ Searched /\ Recorded /\ Collapsed /\ EnteredAtHeaders
      /\ Reducible(graph) => LoopsCollapsed
      /\ attrs \in [Numbers -> Attributes] /\ nodeLookup \in [Numbers -> Numbers]
      /\ Numbers = 0 .. Len(preorderList) - 1 /\ Len(preorderList) \in Nat
      /\ w \in 0 .. Len(preorderList)
      /\ SearchInvariant /\ Numbering /\ path = << >>
  BY <1>1, HeaderFacts
<1>3. h \in Numbers /\ h \in Int /\ w = h + 1 /\ h < w
  BY <1>1, <1>2
<1>4. attrs[h].backPreds = TailNumbers(h)
  BY <1>2, <1>3 DEF Recorded
<1>5. /\ body' = found /\ worklist' = found
      /\ attrs' = [attrs EXCEPT ![h].type =
                     IF found # {} THEN "reducible" ELSE IF h \in TailNumbers(h) THEN "self" ELSE @]
      /\ w' = IF found = {} THEN h ELSE w
      /\ UNCHANGED <<graph, phase, path, preorderList, last, nodeLookup, loops>>
  BY <1>4 DEF TryHeader
<1>6. /\ Numbers' = Numbers
      /\ \A i : /\ PredNumbers(i)' = PredNumbers(i) /\ TailNumbers(i)' = TailNumbers(i)
                /\ NodeAt(i)' = NodeAt(i) /\ TypeFound(i)' = TypeFound(i)
      /\ \A i, j : IsAncestor(i, j)' = IsAncestor(i, j) /\ InLoop(i, j)' = InLoop(i, j)
  BY <1>5, NumberedStays
<1>7. \A i \in Numbers : TailNumbers(i) \subseteq Numbers
  BY <1>2, TailFacts
<1>8. found = {} <=> TailNumbers(h) \ {h} = {}
  OBVIOUS
<1>9. ASSUME NEW x \in found
      PROVE  x \in Numbers /\ x # h /\ nodeLookup[x] = x /\ IsAncestor(h, x)
  <2>1. PICK v \in TailNumbers(h) \ {h} : x = nodeLookup[v]
    OBVIOUS
  <2>2. v \in Numbers /\ v # h /\ IsAncestor(h, v)
    BY <1>3, <1>7, <2>1 DEF TailNumbers
  <2> QED  BY <1>1, <1>3, <2>1, <2>2, RepresentativeFacts, RepresentativeBelow
<1>10. \A v \in TailNumbers(h) \ {h} : nodeLookup[v] \in found
  OBVIOUS
<1> HIDE DEF h, found
<1>11. ~Tried(h) /\ attrs[h].type = "nonheader"
  <2>1. ~Tried(h)
    BY <1>1, <1>3 DEF Tried
  <2> QED  BY <1>2, <1>3, <2>1 DEF Recorded
<1>12. /\ \A i \in Numbers : /\ attrs'[i].backPreds = attrs[i].backPreds
                             /\ attrs'[i].nonBackPreds = attrs[i].nonBackPreds
                             /\ attrs'[i].header = attrs[i].header
                             /\ i # h => attrs'[i].type = attrs[i].type
       /\ attrs'[h].type = TypeFound(h)
       /\ attrs' \in [Numbers -> Attributes]
  <2>1. attrs'[h].type = TypeFound(h)
    BY <1>2, <1>3, <1>5, <1>8, <1>11 DEF TypeFound, Attributes
  <2>2. \A i \in Numbers : /\ attrs'[i].backPreds = attrs[i].backPreds
                           /\ attrs'[i].nonBackPreds = attrs[i].nonBackPreds
                           /\ attrs'[i].header = attrs[i].header
                           /\ i # h => attrs'[i].type = attrs[i].type
    BY <1>2, <1>3, <1>5 DEF Attributes
  <2>3. attrs' \in [Numbers -> Attributes]
    <3>1. PICK t \in {"nonheader", "self", "reducible", "irreducible"} :
              attrs' = [attrs EXCEPT ![h].type = t]
      <4>1. attrs[h].type \in {"nonheader", "self", "reducible", "irreducible"}
        BY <1>11
      <4> QED  BY <1>5, <4>1
    <3>2. [attrs[h] EXCEPT !.type = t] \in Attributes
      BY <1>2, <1>3, AttributesUpdated
    <3>3. attrs' = [attrs EXCEPT ![h] = [attrs[h] EXCEPT !.type = t]]
      BY <3>1
    <3> QED  BY <1>2, <1>3, <3>2, <3>3
  <2> QED  BY <2>1, <2>2, <2>3
<1>13. TypeFound(h) # "irreducible"
  BY DEF TypeFound
<1>14. \A i \in Numbers : Tried(i)' <=> Tried(i) \/ i = h
  <2>1. \A i \in Numbers : Tried(i) <=> i >= h + 1
    BY <1>1, <1>3 DEF Tried
  <2>2. CASE found = {}
    <3>1. \A i \in Numbers : Tried(i)' <=> i >= h
      BY <1>5, <2>2 DEF Tried
    <3> QED  BY <1>2, <1>3, <2>1, <3>1
  <2>3. CASE found # {}
    <3>1. \A i \in Numbers : Tried(i)' <=> i >= h + 1 \/ i = h
      BY <1>3, <1>5, <2>3 DEF Tried
    <3> QED  BY <2>1, <3>1
  <2> QED  BY <2>2, <2>3
<1>15. Recorded'
  <2>1. ASSUME NEW i \in Numbers
        PROVE  /\ attrs'[i].backPreds = TailNumbers(i)
               /\ attrs'[i].type # "irreducible" =>
                    /\ attrs'[i].nonBackPreds = PredNumbers(i) \ TailNumbers(i)
                    /\ attrs'[i].type = IF Tried(i)' THEN TypeFound(i) ELSE "nonheader"
               /\ attrs'[i].type = "irreducible" => Tried(i)' /\ TailNumbers(i) # {}
    <3>1. /\ attrs[i].backPreds = TailNumbers(i)
          /\ attrs[i].type # "irreducible" =>
               /\ attrs[i].nonBackPreds = PredNumbers(i) \ TailNumbers(i)
               /\ attrs[i].type = IF Tried(i) THEN TypeFound(i) ELSE "nonheader"
          /\ attrs[i].type = "irreducible" => Tried(i) /\ TailNumbers(i) # {}
      BY <1>2 DEF Recorded
    <3>2. CASE i = h
      BY <1>11, <1>12, <1>13, <1>14, <3>1, <3>2
    <3>3. CASE i # h
      BY <1>12, <1>14, <3>1, <3>3
    <3> QED  BY <3>2, <3>3
  <2> QED  BY <1>6, <2>1 DEF Recorded
<1>16. w' \in 0 .. Len(preorderList) /\ w' <= w /\ w' \in Int /\ (w' = h \/ w' = h + 1)
  BY <1>2, <1>3, <1>5
<1>17. Collapsed'
  BY <1>2, <1>5, <1>6, <1>16, RepresentativeFacts, <1>1 DEF Collapsed
<1>18. BodyFound'
  <2>1. CASE found = {}
    BY <1>5, <2>1 DEF BodyFound
  <2>2. CASE found # {}
    <3>1. w' > 0 /\ w' - 1 = h /\ body' \ worklist' = {}
      BY <1>1, <1>3, <1>5, <2>2
    <3> QED  BY <1>5, <1>6, <1>8, <1>9, <1>10, <2>2, <3>1 DEF BodyFound
  <2> QED  BY <2>1, <2>2
<1>19. NoneIrreducible' => NoneIrreducible
  BY <1>6, <1>11, <1>12 DEF NoneIrreducible
<1>20. EnteredAtHeaders'
  <2>1. SUFFICES ASSUME NoneIrreducible
        PROVE  /\ \A i \in Numbers : nodeLookup[i] # i =>
                    \A j \in PredNumbers(i) : nodeLookup[j] = nodeLookup[i]
               /\ \A b \in Numbers : b >= w' =>
                    \A v \in TailNumbers(b) :
                       nodeLookup[v] = nodeLookup[b] /\ Dominates(graph, NodeAt(b), NodeAt(v))
    BY <1>5, <1>6, <1>19 DEF EnteredAtHeaders
  <2>2. /\ \A i \in Numbers : nodeLookup[i] # i =>
             \A j \in PredNumbers(i) : nodeLookup[j] = nodeLookup[i]
        /\ \A b \in Numbers : b >= w =>
             \A v \in TailNumbers(b) :
                nodeLookup[v] = nodeLookup[b] /\ Dominates(graph, NodeAt(b), NodeAt(v))
    BY <1>2, <2>1 DEF EnteredAtHeaders
  <2>3. ASSUME NEW b \in Numbers, b >= w', NEW v \in TailNumbers(b)
        PROVE  nodeLookup[v] = nodeLookup[b] /\ Dominates(graph, NodeAt(b), NodeAt(v))
    <3>1. CASE b >= w
      BY <2>2, <3>1
    <3>2. CASE ~(b >= w)
      <4>1. b = h /\ found = {}
        BY <1>2, <1>3, <1>5, <2>3, <3>2
      <4>2. v = b
        BY <1>8, <4>1
      <4>3. IsFlowGraph(graph) /\ NodeAt(b) \in graph.node
        BY <1>2, NodesAndNumbers DEF Searched
      <4> QED  BY <4>2, <4>3, DominatesSelf, FlowGraphIsRooted
    <3> QED  BY <3>1, <3>2
  <2> QED  BY <2>2, <2>3
<1>21. ASSUME Reducible(graph) PROVE LoopsCollapsed'
  <2>1. LoopsCollapsed /\ NoneIrreducible
    BY <1>2, <1>21 DEF LoopsCollapsed
  <2>2. NoneIrreducible'
    BY <1>6, <1>12, <1>13, <2>1 DEF NoneIrreducible
  <2>3. ASSUME NEW i \in Numbers, NEW b \in Numbers, b >= w', InLoop(i, b) PROVE nodeLookup[i] <= b
    <3>1. CASE b >= w
      BY <2>1, <2>3, <3>1 DEF LoopsCollapsed
    <3>2. CASE ~(b >= w)
      <4>1. b = h /\ found = {}
        BY <1>2, <1>3, <1>5, <2>3, <3>2
      <4>2. i = b
        <5>1. SUFFICES ASSUME i # b PROVE i \in {}
          OBVIOUS
        <5>2. TailNumbers(h) \ {h} \subseteq {} /\ {} \in SUBSET Numbers
          BY <1>8, <4>1
        <5> QED  BY <1>2, <1>3, <1>21, <2>3, <4>1, <5>1, <5>2, ReducibleLoops
      <4> QED  BY <1>1, <4>2, RepresentativeFacts
    <3> QED  BY <3>1, <3>2
  <2>4. ASSUME NEW x \in found PROVE InLoop(x, h)
    <3>1. PICK v \in TailNumbers(h) \ {h} : x = nodeLookup[v]
      BY DEF found
    <3>2. v \in Numbers /\ InLoop(v, h) /\ v # h
      BY <1>2, <1>3, <1>7, <1>21, <3>1, ReducibleLoops
    <3>3. x \in Numbers /\ IsAncestor(x, v) /\ (x # v => x >= w)
      BY <1>1, <3>1, <3>2, RepresentativeFacts
    <3>4. CASE x = v
      BY <3>2, <3>4
    <3>5. CASE x # v
      <4>1. h < x
        BY <1>2, <1>3, <3>3, <3>5
      <4> QED  BY <1>2, <1>3, <3>2, <3>3, <4>1, LoopsByNumber
    <3> QED  BY <3>4, <3>5
  <2>5. \A x \in body' : InLoop(x, w' - 1)
    <3>1. CASE found = {}
      BY <1>5, <3>1
    <3>2. CASE found # {}
      BY <1>3, <1>5, <2>4, <3>2
    <3> QED  BY <3>1, <3>2
  <2>6. ASSUME NEW i \in Numbers
        PROVE  /\ nodeLookup[i] = i \/ InLoop(i, nodeLookup[i])
               /\ nodeLookup[i] = i => attrs'[i].header = 0
               /\ nodeLookup[i] # i =>
                    /\ attrs'[i].header >= w' /\ attrs'[i].header # i /\ InLoop(i, attrs'[i].header)
                    /\ \A c \in Numbers \ {i} : InLoop(i, c) => c <= attrs'[i].header
    <3>1. /\ nodeLookup[i] = i \/ InLoop(i, nodeLookup[i])
          /\ nodeLookup[i] = i => attrs[i].header = 0
          /\ nodeLookup[i] # i =>
               /\ attrs[i].header >= w /\ attrs[i].header # i /\ InLoop(i, attrs[i].header)
               /\ \A c \in Numbers \ {i} : InLoop(i, c) => c <= attrs[i].header
      BY <2>1 DEF LoopsCollapsed
    <3>2. attrs[i].header \in Numbers /\ attrs[i].header \in Int
      BY <1>2 DEF Attributes
    <3>3. attrs[i].header >= w => attrs[i].header >= w'
      BY <1>2, <1>16, <3>2
    <3> QED  BY <1>12, <3>1, <3>3
  <2> QED  BY <1>5, <1>6, <2>2, <2>3, <2>5, <2>6 DEF LoopsCollapsed
<1>22. worklist' \subseteq body' /\ body' \subseteq Numbers
  BY <1>5, <1>9
<1> QED  BY <1>1, <1>2, <1>5, <1>12, <1>15, <1>16, <1>17, <1>18, <1>20, <1>21, <1>22, HeaderStep

\* In a reducible graph, nothing leads into the loop of the header from outside, and what
\* leads to its nodes is in it.
LEMMA SourcesInLoop ==
    ASSUME InductiveInvariant, Analyzing, body # {}, Reducible(graph), NEW x \in body
    PROVE  \A y \in Sources(x) : IsAncestor(w - 1, y) /\ InLoop(y, w - 1)
<1> DEFINE h == w - 1
<1>1. /\ Searched /\ Recorded /\ BodyFound /\ LoopsCollapsed
      /\ Numbers = 0 .. Len(preorderList) - 1 /\ Len(preorderList) \in Nat
      /\ w \in 0 .. Len(preorderList) /\ body \subseteq Numbers
  BY HeaderFacts
<1>2. h \in Numbers /\ h < w /\ x \in Numbers /\ x # h /\ InLoop(x, h)
  BY <1>1 DEF BodyFound, LoopsCollapsed
<1>3. attrs[x].nonBackPreds \subseteq PredNumbers(x) /\ PredNumbers(x) \subseteq Numbers
  BY <1>1, <1>2, PredFacts DEF Recorded, LoopsCollapsed, NoneIrreducible
<1> HIDE DEF h
<1>4. ASSUME NEW j \in attrs[x].nonBackPreds
      PROVE  IsAncestor(h, nodeLookup[j]) /\ InLoop(nodeLookup[j], h)
  <2>1. j \in Numbers /\ InLoop(j, h) /\ IsAncestor(h, j)
    BY <1>1, <1>2, <1>3, LoopsByNumber
  <2>2. CASE j = h
    <3>1. nodeLookup[j] = j
      BY <1>2, <2>2, RepresentativeFacts
    <3> QED  BY <2>1, <3>1
  <2>3. CASE j # h
    <3>1. IsAncestor(h, nodeLookup[j])
      BY <1>2, <2>1, <2>3, RepresentativeBelow
    <3>2. /\ nodeLookup[j] \in Numbers /\ IsAncestor(nodeLookup[j], j)
          /\ nodeLookup[j] # j => nodeLookup[j] >= w
      BY <2>1, RepresentativeFacts
    <3>3. CASE nodeLookup[j] = j
      BY <2>1, <3>1, <3>3
    <3>4. CASE nodeLookup[j] # j
      <4>1. h < nodeLookup[j]
        BY <1>1, <1>2, <3>2, <3>4
      <4> QED  BY <1>1, <1>2, <2>1, <2>3, <3>1, <3>2, <4>1, LoopsByNumber
    <3> QED  BY <3>3, <3>4
  <2> QED  BY <2>2, <2>3
<1> QED  BY <1>4 DEF Sources, h

\* P grows by what leads to one of its members; an alien makes the loop irreducible, which
\* does not happen in a reducible graph.
LEMMA ExpandBodyStep ==
    ASSUME InductiveInvariant, ExpandBody
    PROVE  InductiveInvariant'
<1> DEFINE h == w - 1
<1>1. PICK x \in worklist :
        /\ body' = body \cup Pushed(x)
        /\ worklist' = (worklist \ {x}) \cup Pushed(x)
        /\ attrs' = IF Alien(x) = {} THEN attrs
                    ELSE [attrs EXCEPT ![h].type = "irreducible",
                                       ![h].nonBackPreds = @ \cup Alien(x)]
  BY DEF ExpandBody
<1>2. Analyzing /\ phase = "headers"
      /\ UNCHANGED <<graph, phase, path, preorderList, last, nodeLookup, w, loops>>
  BY DEF ExpandBody, Analyzing
<1>3. /\ TypeOK /\ Searched /\ Recorded /\ Collapsed /\ BodyFound /\ EnteredAtHeaders
      /\ Reducible(graph) => LoopsCollapsed
      /\ attrs \in [Numbers -> Attributes] /\ nodeLookup \in [Numbers -> Numbers]
      /\ Numbers = 0 .. Len(preorderList) - 1 /\ Len(preorderList) \in Nat
      /\ w \in 0 .. Len(preorderList) /\ worklist \subseteq body /\ body \subseteq Numbers
      /\ SearchInvariant /\ Numbering /\ path = << >>
  BY <1>2, HeaderFacts
<1>4. /\ x \in body /\ x \in Numbers /\ w > 0
      /\ TailNumbers(h) \ {h} # {}
      /\ \A y \in body : y # h /\ nodeLookup[y] = y /\ IsAncestor(h, y)
      /\ \A v \in TailNumbers(h) \ {h} : nodeLookup[v] \in body
      /\ NoneIrreducible => \A y \in body \ worklist : Sources(y) \subseteq body \cup {h}
  BY <1>1, <1>3 DEF BodyFound
<1>5. h \in Numbers /\ h < w
  BY <1>3, <1>4
<1>6. /\ Numbers' = Numbers
      /\ \A i : /\ PredNumbers(i)' = PredNumbers(i) /\ TailNumbers(i)' = TailNumbers(i)
                /\ NodeAt(i)' = NodeAt(i) /\ TypeFound(i)' = TypeFound(i)
      /\ \A i, j : IsAncestor(i, j)' = IsAncestor(i, j) /\ InLoop(i, j)' = InLoop(i, j)
  BY <1>2, NumberedStays
<1>7. \A y \in Sources(x) : y \in Numbers /\ nodeLookup[y] = y
  <2>1. attrs[x].nonBackPreds \subseteq Numbers
    BY <1>3, <1>4 DEF Attributes
  <2> QED  BY <1>2, <2>1, RepresentativeFacts DEF Sources
<1>8. \A y \in Pushed(x) : y \in Sources(x) /\ y # h /\ y \in Numbers /\ nodeLookup[y] = y /\ IsAncestor(h, y)
  BY <1>7 DEF Pushed, Alien
<1>9. Alien(x) = {} => Sources(x) \subseteq body' \cup {h}
  BY <1>1 DEF Pushed
<1>10. Alien(x) \subseteq Numbers
  BY <1>7 DEF Alien
<1> HIDE DEF h
<1>11. body' # {} /\ body # {}
  BY <1>1, <1>4
<1>12. \A i \in Numbers : Tried(i)' <=> Tried(i)
  BY <1>2, <1>11 DEF Tried
<1>13. ASSUME Alien(x) # {}
       PROVE  /\ attrs' \in [Numbers -> Attributes]
              /\ \A i \in Numbers \ {h} : attrs'[i] = attrs[i]
              /\ attrs'[h].backPreds = attrs[h].backPreds
              /\ attrs'[h].type = "irreducible"
  <2> DEFINE one == [attrs[h] EXCEPT !.type = "irreducible"]
             two == [one EXCEPT !.nonBackPreds = attrs[h].nonBackPreds \cup Alien(x)]
  <2>1. attrs[h] \in Attributes /\ attrs[h].nonBackPreds \cup Alien(x) \in SUBSET Numbers
    BY <1>3, <1>5, <1>10 DEF Attributes
  <2>2. one \in Attributes /\ two \in Attributes
    <3>1. one \in Attributes
      BY <2>1, AttributesUpdated
    <3> HIDE DEF one
    <3> QED  BY <2>1, <3>1, AttributesUpdated
  <2>3. two.backPreds = attrs[h].backPreds /\ two.type = "irreducible"
    BY <2>1 DEF Attributes
  <2>4. attrs' = [attrs EXCEPT ![h] = two]
    BY <1>1, <1>3, <1>5, <1>13 DEF Attributes
  <2> HIDE DEF two
  <2> QED  BY <1>3, <1>5, <2>2, <2>3, <2>4
<1>14. attrs' \in [Numbers -> Attributes]
  <2>1. CASE Alien(x) = {}
    BY <1>1, <1>3, <2>1
  <2>2. CASE Alien(x) # {}
    BY <1>13, <2>2
  <2> QED  BY <2>1, <2>2
<1>15. NoneIrreducible' => Alien(x) = {} /\ attrs' = attrs /\ NoneIrreducible
  <2>1. Alien(x) # {} => ~NoneIrreducible'
    BY <1>5, <1>6, <1>13 DEF NoneIrreducible
  <2>2. Alien(x) = {} => attrs' = attrs
    BY <1>1
  <2>3. attrs' = attrs /\ NoneIrreducible' => NoneIrreducible
    BY <1>6 DEF NoneIrreducible
  <2> QED  BY <2>1, <2>2, <2>3
<1>16. Recorded'
  <2>1. ASSUME NEW i \in Numbers
        PROVE  /\ attrs'[i].backPreds = TailNumbers(i)
               /\ attrs'[i].type # "irreducible" =>
                    /\ attrs'[i].nonBackPreds = PredNumbers(i) \ TailNumbers(i)
                    /\ attrs'[i].type = IF Tried(i) THEN TypeFound(i) ELSE "nonheader"
               /\ attrs'[i].type = "irreducible" => Tried(i) /\ TailNumbers(i) # {}
    <3>1. /\ attrs[i].backPreds = TailNumbers(i)
          /\ attrs[i].type # "irreducible" =>
               /\ attrs[i].nonBackPreds = PredNumbers(i) \ TailNumbers(i)
               /\ attrs[i].type = IF Tried(i) THEN TypeFound(i) ELSE "nonheader"
          /\ attrs[i].type = "irreducible" => Tried(i) /\ TailNumbers(i) # {}
      BY <1>3 DEF Recorded
    <3>2. CASE Alien(x) # {} /\ i = h
      <4>1. Tried(h) /\ TailNumbers(h) # {}
        BY <1>4, <1>11 DEF Tried, h
      <4> QED  BY <1>13, <3>1, <3>2, <4>1
    <3>3. CASE Alien(x) = {} \/ i # h
      <4>1. attrs'[i] = attrs[i]
        BY <1>1, <1>13, <3>3
      <4> QED  BY <3>1, <4>1
    <3> QED  BY <3>2, <3>3
  <2> QED  BY <1>6, <1>12, <2>1 DEF Recorded
<1>17. Collapsed'
  BY <1>2, <1>3, <1>6 DEF Collapsed
<1>18. BodyFound'
  <2>1. /\ w' > 0 /\ w' - 1 = h
        /\ \A y \in body' : y # h /\ nodeLookup[y] = y /\ IsAncestor(h, y)
        /\ \A v \in TailNumbers(h) \ {h} : nodeLookup[v] \in body'
    <3>1. body \subseteq body' /\ \A y \in body' : y \in body \/ y \in Pushed(x)
      BY <1>1
    <3>2. w' = w /\ w' - 1 = h
      BY <1>2 DEF h
    <3> QED  BY <1>4, <1>8, <3>1, <3>2
  <2>2. ASSUME NoneIrreducible', NEW y \in body' \ worklist'
        PROVE  Sources(y)' \subseteq body' \cup {h}
    <3>1. Alien(x) = {} /\ attrs' = attrs /\ NoneIrreducible
      BY <1>15, <2>2
    <3>2. Sources(y)' = Sources(y)
      BY <1>2, <3>1 DEF Sources
    <3>3. y = x \/ y \in body \ worklist
      BY <1>1, <2>2
    <3>4. CASE y = x
      BY <1>9, <3>1, <3>2, <3>4
    <3>5. CASE y \in body \ worklist
      BY <1>1, <1>4, <3>1, <3>2, <3>5
    <3> QED  BY <3>3, <3>4, <3>5
  <2> QED  BY <1>2, <1>4, <1>6, <2>1, <2>2 DEF BodyFound
<1>19. EnteredAtHeaders'
  BY <1>2, <1>3, <1>6, <1>15 DEF EnteredAtHeaders
<1>20. ASSUME Reducible(graph) PROVE LoopsCollapsed'
  <2>1. LoopsCollapsed
    BY <1>3, <1>20
  <2>2. \A y \in Sources(x) : IsAncestor(h, y) /\ InLoop(y, h)
    BY <1>2, <1>4, <1>11, <1>20, SourcesInLoop DEF h
  <2>3. Alien(x) = {}
    BY <2>2 DEF Alien, h
  <2>4. attrs' = attrs
    BY <1>1, <2>3
  <2>5. NoneIrreducible'
    BY <1>6, <2>1, <2>4 DEF LoopsCollapsed, NoneIrreducible
  <2>6. \A y \in body' : InLoop(y, w - 1)
    <3>1. \A y \in body : InLoop(y, w - 1)
      BY <2>1 DEF LoopsCollapsed
    <3> QED  BY <1>1, <1>8, <2>2, <3>1 DEF h
  <2> QED  BY <1>2, <1>6, <2>1, <2>4, <2>5, <2>6 DEF LoopsCollapsed
<1>21. worklist' \subseteq body' /\ body' \subseteq Numbers
  BY <1>1, <1>3, <1>8
<1> QED  BY <1>2, <1>3, <1>14, <1>16, <1>17, <1>18, <1>19, <1>20, <1>21, HeaderStep

\* When P is complete, what has been collapsed into it can only be entered at the header,
\* which therefore dominates it, unless an irreducible loop has been found.
LEMMA RegionOfBody ==
    ASSUME InductiveInvariant, Analyzing, NoneIrreducible, body # {}, worklist = {}
    PROVE  \A i \in Numbers : nodeLookup[i] \in body =>
             /\ \A j \in PredNumbers(i) : nodeLookup[j] \in body \cup {w - 1}
             /\ Dominates(graph, NodeAt(w - 1), NodeAt(i))
<1> DEFINE h == w - 1
           S == {i \in Numbers : nodeLookup[i] \in body \cup {h}}
<1>1. /\ Searched /\ Recorded /\ BodyFound /\ EnteredAtHeaders
      /\ Numbers = 0 .. Len(preorderList) - 1 /\ Len(preorderList) \in Nat
      /\ w \in 0 .. Len(preorderList) /\ body \subseteq Numbers
  BY HeaderFacts
<1>2. /\ w > 0 /\ \A x \in body : x # h /\ nodeLookup[x] = x /\ IsAncestor(h, x)
      /\ \A x \in body : Sources(x) \subseteq body \cup {h}
  BY <1>1 DEF BodyFound
<1>3. h \in Numbers /\ h < w
  BY <1>1, <1>2
<1>4. \A x \in body : x >= w
  <2>1. \A x \in body : x \in Numbers /\ h <= x /\ x # h
    BY <1>1, <1>2, <1>3, AncestorFacts
  <2> QED  BY <1>1, <2>1
<1>5. \A i \in Numbers : PredNumbers(i) \subseteq Numbers
  BY <1>1, PredFacts
<1>6. \A i \in Numbers : nodeLookup[i] = h => i = h
  BY <1>1, <1>3, RepresentativeFacts
<1> HIDE DEF h
<1>7. ASSUME NEW i \in Numbers, nodeLookup[i] \in body, NEW j \in PredNumbers(i)
      PROVE  nodeLookup[j] \in body \cup {h}
  <2>1. CASE nodeLookup[i] # i
    BY <1>1, <1>7, <2>1 DEF EnteredAtHeaders
  <2>2. CASE nodeLookup[i] = i
    <3>1. i \in body /\ i >= w
      BY <1>4, <1>7, <2>2
    <3>2. CASE j \in TailNumbers(i)
      BY <1>1, <1>7, <3>1, <3>2 DEF EnteredAtHeaders
    <3>3. CASE j \notin TailNumbers(i)
      <4>1. j \in attrs[i].nonBackPreds
        BY <1>1, <1>7, <3>3 DEF Recorded, NoneIrreducible
      <4> QED  BY <1>2, <3>1, <4>1 DEF Sources
    <3> QED  BY <3>2, <3>3
  <2> QED  BY <2>1, <2>2
<1>8. \A i \in S \ {h} : nodeLookup[i] \in body
  BY <1>6
<1>9. 0 \notin S \ {h}
  <2>1. ASSUME NEW i \in S \ {h} PROVE i # 0
    <3>1. i \in Numbers /\ nodeLookup[i] >= w /\ nodeLookup[i] <= i /\ nodeLookup[i] \in Numbers
      BY <1>4, <1>8, RepresentativeFacts
    <3> QED  BY <1>1, <1>2, <3>1
  <2> QED  BY <2>1
<1>10. \A i \in S \ {h} : PredNumbers(i) \subseteq S
  BY <1>5, <1>7, <1>8
<1>11. \A i \in S : Dominates(graph, NodeAt(h), NodeAt(i))
  <2>1. S \in SUBSET Numbers
    OBVIOUS
  <2> HIDE DEF S
  <2> QED  BY <1>1, <1>3, <1>9, <1>10, <2>1, RegionDominated
<1> QED  BY <1>7, <1>11 DEF h

\* In a reducible graph, what has been collapsed into P is the loop of the header without
\* the header.
LEMMA BodyIsLoop ==
    ASSUME InductiveInvariant, Analyzing, Reducible(graph), body # {}, worklist = {},
           NEW i \in Numbers
    PROVE  nodeLookup[i] \in body <=> i # w - 1 /\ InLoop(i, w - 1)
<1> DEFINE h == w - 1
           X == {k \in Numbers : nodeLookup[k] \in body}
<1>1. /\ Searched /\ BodyFound /\ LoopsCollapsed /\ NoneIrreducible
      /\ Numbers = 0 .. Len(preorderList) - 1 /\ Len(preorderList) \in Nat
      /\ w \in 0 .. Len(preorderList) /\ body \subseteq Numbers
  BY HeaderFacts DEF LoopsCollapsed
<1>2. /\ w > 0 /\ \A x \in body : x # h /\ nodeLookup[x] = x
      /\ \A v \in TailNumbers(h) \ {h} : nodeLookup[v] \in body
      /\ \A x \in body : InLoop(x, h)
  BY <1>1 DEF BodyFound, LoopsCollapsed
<1>3. h \in Numbers /\ h < w
  BY <1>1, <1>2
<1>4. \A k \in Numbers : nodeLookup[k] = h => k = h
  BY <1>1, <1>3, RepresentativeFacts
<1>5. \A k \in Numbers : nodeLookup[k] \in body =>
        \A j \in PredNumbers(k) : nodeLookup[j] \in body \cup {h}
  BY <1>1, RegionOfBody
<1> HIDE DEF h
<1>6. ASSUME nodeLookup[i] \in body PROVE i # h /\ InLoop(i, h)
  <2>1. CASE nodeLookup[i] = i
    BY <1>2, <1>6, <2>1
  <2>2. CASE nodeLookup[i] # i
    <3>1. InLoop(i, nodeLookup[i])
      BY <1>1, <2>2 DEF LoopsCollapsed
    <3> QED  BY <1>1, <1>2, <1>3, <1>6, <3>1, LoopsByNumber
  <2> QED  BY <2>1, <2>2
<1>7. ASSUME i # h, InLoop(i, h) PROVE nodeLookup[i] \in body
  <2>1. X \in SUBSET Numbers
    OBVIOUS
  <2>2. TailNumbers(h) \ {h} \subseteq X
    BY <1>1, <1>2, <1>3, TailFacts
  <2>3. \A k \in X \ {h} : \A j \in PredNumbers(k) \ {h} : j \in X
    BY <1>1, <1>4, <1>5, PredFacts
  <2>4. i \in X
    <3> HIDE DEF X
    <3> QED  BY <1>1, <1>3, <1>7, <2>1, <2>2, <2>3, ReducibleLoops
  <2> QED  BY <2>4
<1> QED  BY <1>6, <1>7 DEF h

\* P is collapsed into its header, which has been found to be its only entry.
LEMMA CollapseLoopStep ==
    ASSUME InductiveInvariant, CollapseLoop
    PROVE  InductiveInvariant'
<1> DEFINE h == w - 1
<1>1. /\ Analyzing /\ phase = "headers" /\ worklist = {} /\ body # {} /\ body' = {} /\ w' = h
      /\ attrs' = [i \in Numbers |->
                     IF i \in body THEN [attrs[i] EXCEPT !.header = h] ELSE attrs[i]]
      /\ nodeLookup' = [i \in Numbers |-> IF nodeLookup[i] \in body THEN h ELSE nodeLookup[i]]
      /\ UNCHANGED <<graph, phase, path, preorderList, last, worklist, loops>>
  BY DEF CollapseLoop, Analyzing, UnionInto
<1>2. /\ TypeOK /\ Searched /\ Recorded /\ Collapsed /\ BodyFound /\ EnteredAtHeaders
      /\ Reducible(graph) => LoopsCollapsed
      /\ attrs \in [Numbers -> Attributes] /\ nodeLookup \in [Numbers -> Numbers]
      /\ Numbers = 0 .. Len(preorderList) - 1 /\ Len(preorderList) \in Nat
      /\ w \in 0 .. Len(preorderList) /\ body \subseteq Numbers
      /\ SearchInvariant /\ Numbering /\ path = << >>
  BY <1>1, HeaderFacts
<1>3. /\ w > 0 /\ TailNumbers(h) \ {h} # {}
      /\ \A x \in body : x # h /\ nodeLookup[x] = x /\ IsAncestor(h, x)
      /\ \A v \in TailNumbers(h) \ {h} : nodeLookup[v] \in body
  BY <1>1, <1>2 DEF BodyFound
<1>4. h \in Numbers /\ h < w /\ w = h + 1
  BY <1>2, <1>3
<1>5. /\ Numbers' = Numbers
      /\ \A i : /\ PredNumbers(i)' = PredNumbers(i) /\ TailNumbers(i)' = TailNumbers(i)
                /\ NodeAt(i)' = NodeAt(i) /\ TypeFound(i)' = TypeFound(i)
      /\ \A i, j : IsAncestor(i, j)' = IsAncestor(i, j) /\ InLoop(i, j)' = InLoop(i, j)
  BY <1>1, NumberedStays
<1>6. \A i \in Numbers :
        /\ nodeLookup[i] \in Numbers /\ IsAncestor(nodeLookup[i], i)
        /\ nodeLookup[nodeLookup[i]] = nodeLookup[i]
        /\ nodeLookup[i] # i => nodeLookup[i] >= w
  BY <1>1, RepresentativeFacts
<1>7. nodeLookup[h] = h /\ h \notin body
  BY <1>1, <1>3, <1>4, RepresentativeFacts
<1>8. \A i \in Numbers : nodeLookup[i] = h => i = h
  BY <1>2, <1>4, <1>6
<1>9. \A i \in Numbers : /\ nodeLookup[i] \in body => nodeLookup'[i] = h
                         /\ nodeLookup[i] \notin body => nodeLookup'[i] = nodeLookup[i]
  BY <1>1
<1>10. nodeLookup' \in [Numbers -> Numbers]
  BY <1>1, <1>2, <1>4
<1>11. \A i \in Numbers : Tried(i)' <=> Tried(i)
  BY <1>1, <1>2, <1>4 DEF Tried
<1> HIDE DEF h
<1>12. ASSUME NEW i \in Numbers
       PROVE  /\ attrs'[i] \in Attributes
              /\ attrs'[i].backPreds = attrs[i].backPreds
              /\ attrs'[i].nonBackPreds = attrs[i].nonBackPreds
              /\ attrs'[i].type = attrs[i].type
              /\ attrs'[i].header = IF i \in body THEN h ELSE attrs[i].header
  <2>1. attrs[i] \in Attributes
    BY <1>2
  <2>2. CASE i \in body
    <3>1. attrs'[i] = [attrs[i] EXCEPT !.header = h]
      BY <1>1, <2>2
    <3>2. attrs'[i] \in Attributes
      BY <1>4, <2>1, <3>1, AttributesUpdated
    <3> QED  BY <2>1, <2>2, <3>1, <3>2 DEF Attributes
  <2>3. CASE i \notin body
    BY <1>1, <2>1, <2>3
  <2> QED  BY <2>2, <2>3
<1>13. attrs' \in [Numbers -> Attributes]
  <2>1. attrs' = [i \in Numbers |-> attrs'[i]]
    BY <1>1
  <2> QED  BY <1>12, <2>1
<1>14. NoneIrreducible' <=> NoneIrreducible
  BY <1>5, <1>12 DEF NoneIrreducible
<1>15. Recorded'
  BY <1>2, <1>5, <1>11, <1>12 DEF Recorded
<1>16. Collapsed'
  <2>1. ASSUME NEW i \in Numbers
        PROVE  /\ IsAncestor(nodeLookup'[i], i)
               /\ nodeLookup'[nodeLookup'[i]] = nodeLookup'[i]
               /\ nodeLookup'[i] # i => nodeLookup'[i] >= w'
    <3>1. CASE nodeLookup[i] \in body
      <4>1. IsAncestor(h, nodeLookup[i]) /\ IsAncestor(nodeLookup[i], i)
        BY <1>3, <1>6, <3>1
      <4>2. IsAncestor(h, i)
        BY <1>2, <1>4, <1>6, <4>1, AncestorFacts
      <4>3. nodeLookup'[i] = h /\ nodeLookup'[h] = h
        BY <1>4, <1>7, <1>9, <3>1
      <4>4. w' = h /\ h >= h
        BY <1>1, <1>2, <1>4
      <4> QED  BY <4>2, <4>3, <4>4
    <3>2. CASE nodeLookup[i] \notin body
      <4>1. nodeLookup'[i] = nodeLookup[i]
        BY <1>9, <3>2
      <4>2. nodeLookup'[nodeLookup[i]] = nodeLookup[i]
        BY <1>6, <1>9, <3>2
      <4>3. nodeLookup[i] # i => nodeLookup[i] >= w'
        BY <1>1, <1>2, <1>4, <1>6
      <4> QED  BY <1>6, <4>1, <4>2, <4>3
    <3> QED  BY <3>1, <3>2
  <2> QED  BY <1>5, <2>1 DEF Collapsed
<1>17. BodyFound'
  BY <1>1 DEF BodyFound
<1>18. ASSUME NoneIrreducible
       PROVE  \A i \in Numbers : nodeLookup[i] \in body =>
                /\ \A j \in PredNumbers(i) : nodeLookup[j] \in body \cup {h}
                /\ Dominates(graph, NodeAt(h), NodeAt(i))
  BY <1>1, <1>18, RegionOfBody DEF h
<1>19. \A i \in Numbers : PredNumbers(i) \subseteq Numbers /\ TailNumbers(i) \subseteq Numbers
  BY <1>2, PredFacts, TailFacts
<1>20. EnteredAtHeaders'
  <2>1. ASSUME NoneIrreducible, NEW i \in Numbers, nodeLookup'[i] # i, NEW j \in PredNumbers(i)
        PROVE  nodeLookup'[j] = nodeLookup'[i]
    <3>1. j \in Numbers
      BY <1>19
    <3>2. CASE nodeLookup[i] \in body
      BY <1>7, <1>8, <1>9, <1>18, <2>1, <3>1, <3>2
    <3>3. CASE nodeLookup[i] \notin body
      <4>1. nodeLookup[j] = nodeLookup[i]
        BY <1>2, <1>9, <2>1, <3>3 DEF EnteredAtHeaders
      <4> QED  BY <1>9, <3>1, <3>3, <4>1
    <3> QED  BY <3>2, <3>3
  <2>2. ASSUME NoneIrreducible, NEW b \in Numbers, b >= w', NEW v \in TailNumbers(b)
        PROVE  /\ nodeLookup'[v] = nodeLookup'[b]
               /\ Dominates(graph, NodeAt(b), NodeAt(v))
    <3>1. v \in Numbers
      BY <1>19
    <3>2. CASE b >= w
      <4>1. nodeLookup[v] = nodeLookup[b] /\ Dominates(graph, NodeAt(b), NodeAt(v))
        BY <1>2, <2>2, <3>2 DEF EnteredAtHeaders
      <4> QED  BY <1>9, <3>1, <4>1
    <3>3. CASE b = h /\ v = h
      <4>1. IsFlowGraph(graph) /\ NodeAt(h) \in graph.node
        BY <1>2, <1>4, NodesAndNumbers DEF Searched
      <4> QED  BY <3>3, <4>1, DominatesSelf, FlowGraphIsRooted
    <3>4. CASE b = h /\ v # h
      <4>1. nodeLookup[v] \in body
        BY <1>3, <2>2, <3>4
      <4> QED  BY <1>4, <1>7, <1>9, <1>18, <2>2, <3>1, <3>4, <4>1
    <3>5. b >= w \/ b = h
      BY <1>1, <1>2, <1>4, <2>2
    <3> QED  BY <3>2, <3>3, <3>4, <3>5
  <2>3. \A i : NodeAt(i)' = NodeAt(i) /\ PredNumbers(i)' = PredNumbers(i) /\ TailNumbers(i)' = TailNumbers(i)
    BY <1>5
  <2> QED  BY <1>1, <1>5, <1>14, <2>1, <2>2, <2>3 DEF EnteredAtHeaders
<1>21. ASSUME Reducible(graph) PROVE LoopsCollapsed'
  <2>1. LoopsCollapsed
    BY <1>2, <1>21
  <2>2. \A i \in Numbers : nodeLookup[i] \in body <=> i # h /\ InLoop(i, h)
    BY <1>1, <1>21, BodyIsLoop DEF h
  <2>3. NoneIrreducible'
    BY <1>14, <2>1 DEF LoopsCollapsed
  <2>4. ASSUME NEW i \in Numbers
        PROVE  /\ nodeLookup'[i] = i \/ InLoop(i, nodeLookup'[i])
               /\ \A b \in Numbers : b >= w' /\ InLoop(i, b) => nodeLookup'[i] <= b
               /\ nodeLookup'[i] = i => attrs'[i].header = 0
               /\ nodeLookup'[i] # i =>
                    /\ attrs'[i].header >= w' /\ attrs'[i].header # i /\ InLoop(i, attrs'[i].header)
                    /\ \A c \in Numbers \ {i} : InLoop(i, c) => c <= attrs'[i].header
    <3>1. /\ nodeLookup[i] = i \/ InLoop(i, nodeLookup[i])
          /\ \A b \in Numbers : b >= w /\ InLoop(i, b) => nodeLookup[i] <= b
          /\ nodeLookup[i] = i => attrs[i].header = 0
          /\ nodeLookup[i] # i =>
               /\ attrs[i].header >= w /\ attrs[i].header # i /\ InLoop(i, attrs[i].header)
               /\ \A c \in Numbers \ {i} : InLoop(i, c) => c <= attrs[i].header
      BY <2>1 DEF LoopsCollapsed
    <3>2. attrs[i].header \in Numbers
      BY <1>2 DEF Attributes
    <3>3. \A b \in Numbers : b >= w' => b >= w \/ b = h
      BY <1>1, <1>2, <1>4
    <3>4. \A b \in Numbers : b >= w => b >= w'
      BY <1>1, <1>2, <1>4
    <3>5. CASE nodeLookup[i] \in body
      <4>1. i # h /\ InLoop(i, h) /\ nodeLookup'[i] = h
        BY <1>9, <2>2, <3>5
      <4>2. \A b \in Numbers : b >= w' => h <= b
        BY <1>1, <1>2, <1>4
      <4>3. CASE i \in body
        <5>1. nodeLookup[i] = i /\ attrs'[i].header = h
          BY <1>3, <1>12, <4>3
        <5>2. ASSUME NEW c \in Numbers \ {i}, InLoop(i, c) PROVE c <= h
          <6>1. CASE c >= w
            <7>1. i <= c
              BY <3>1, <5>1, <5>2, <6>1
            <7>2. c <= i
              BY <1>2, <5>2, LoopsByNumber
            <7> QED  BY <1>2, <5>2, <7>1, <7>2
          <6>2. CASE ~(c >= w)
            BY <1>2, <1>4, <6>2
          <6> QED  BY <6>1, <6>2
        <5>3. h >= w'
          BY <1>1, <1>2, <1>4
        <5> QED  BY <4>1, <4>2, <5>1, <5>2, <5>3
      <4>4. CASE i \notin body
        <5>1. nodeLookup[i] # i /\ attrs'[i].header = attrs[i].header
          BY <1>12, <3>5, <4>4
        <5> QED  BY <3>1, <3>2, <3>4, <4>1, <4>2, <5>1
      <4> QED  BY <4>3, <4>4
    <3>6. CASE nodeLookup[i] \notin body
      <4>1. nodeLookup'[i] = nodeLookup[i]
        BY <1>9, <3>6
      <4>2. i \notin body
        BY <1>3, <3>6
      <4>3. attrs'[i].header = attrs[i].header
        BY <1>12, <4>2
      <4>4. ASSUME NEW b \in Numbers, b >= w', InLoop(i, b) PROVE nodeLookup[i] <= b
        <5>1. CASE b >= w
          BY <3>1, <4>4, <5>1
        <5>2. CASE b = h
          <6>1. i = h
            BY <2>2, <3>6, <4>4, <5>2
          <6> QED  BY <1>2, <1>4, <1>7, <5>2, <6>1
        <5> QED  BY <3>3, <4>4, <5>1, <5>2
      <4> QED  BY <3>1, <3>2, <3>4, <4>1, <4>3, <4>4
    <3> QED  BY <3>5, <3>6
  <2> QED  BY <1>1, <1>5, <2>3, <2>4 DEF LoopsCollapsed
<1>22. w' \in 0 .. Len(preorderList)
  BY <1>1, <1>2, <1>4
<1>23. worklist' \subseteq body' /\ body' \subseteq Numbers
  BY <1>1
<1> QED  BY <1>1, <1>2, <1>10, <1>13, <1>15, <1>16, <1>17, <1>20, <1>21, <1>22, <1>23, HeaderStep

\* All headers have been tried.
LEMMA FinishHeadersStep ==
    ASSUME InductiveInvariant, FinishHeaders
    PROVE  InductiveInvariant'
<1>1. /\ Analyzing /\ phase = "headers" /\ w = 0 /\ body = {} /\ worklist = {} /\ phase' = "tree"
      /\ UNCHANGED <<graph, path, preorderList, last, attrs, nodeLookup, w, body, worklist, loops>>
  BY DEF FinishHeaders, Idle, Analyzing
<1>2. /\ TypeOK /\ Recorded /\ Collapsed /\ BodyFound /\ EnteredAtHeaders
      /\ Reducible(graph) => LoopsCollapsed
      /\ attrs \in [Numbers -> Attributes] /\ nodeLookup \in [Numbers -> Numbers]
      /\ w \in 0 .. Len(preorderList) /\ worklist \subseteq body /\ body \subseteq Numbers
      /\ SearchInvariant /\ Numbering /\ path = << >>
  BY <1>1, HeaderFacts
<1>3. /\ Numbers' = Numbers
      /\ \A i : /\ PredNumbers(i)' = PredNumbers(i) /\ TailNumbers(i)' = TailNumbers(i)
                /\ NodeAt(i)' = NodeAt(i) /\ TypeFound(i)' = TypeFound(i)
      /\ \A i, j : IsAncestor(i, j)' = IsAncestor(i, j) /\ InLoop(i, j)' = InLoop(i, j)
  BY <1>1, NumberedStays
<1>4. Recorded'
  BY <1>1, <1>2, <1>3 DEF Recorded, Tried
<1>5. Collapsed' /\ BodyFound'
  BY <1>1, <1>2, <1>3 DEF Collapsed, BodyFound
<1>6. NoneIrreducible' <=> NoneIrreducible
  BY <1>1, <1>3 DEF NoneIrreducible
<1>7. EnteredAtHeaders'
  BY <1>1, <1>2, <1>3, <1>6 DEF EnteredAtHeaders
<1>8. LoopsCollapsed => LoopsCollapsed'
  BY <1>1, <1>3, <1>6 DEF LoopsCollapsed
<1> QED  BY <1>1, <1>2, <1>4, <1>5, <1>7, <1>8, HeaderStep

\* What is read off the attributes stays while they stay.
LEMMA LoopTreeStays ==
    ASSUME UNCHANGED <<graph, preorderList, attrs>>
    PROVE  /\ \A types : OfType(types)' = OfType(types)
           /\ \A i : LoopInfoOf(i)' = LoopInfoOf(i)
           /\ LoopTree' = LoopTree
<1>1. /\ Numbers' = Numbers /\ \A n : NumberOf(n)' = NumberOf(n)
      /\ \A i : NodeAt(i)' = NodeAt(i)
  BY NumbersStay
<1>2. \A types : OfType(types)' = OfType(types)
  BY <1>1 DEF OfType
<1>3. \A i : LoopInfoOf(i)' = LoopInfoOf(i)
  BY <1>1, <1>2 DEF LoopInfoOf, HeaderNode
<1>4. LoopTree' = LoopTree
  BY <1>1, <1>2, <1>3 DEF LoopTree
<1> QED  BY <1>2, <1>3, <1>4

\* The loop tree is built unless an irreducible loop has been found, which a reducible graph
\* does not have.
LEMMA BuildLoopTreeStep ==
    ASSUME InductiveInvariant, BuildLoopTree
    PROVE  InductiveInvariant'
<1>1. /\ Analyzing /\ phase = "tree" /\ phase' \in {"analyzed", "aborted"}
      /\ phase' = "aborted" => OfType({"irreducible"}) # {} /\ loops' = loops
      /\ phase' = "analyzed" => OfType({"irreducible"}) = {} /\ loops' = LoopTree
      /\ UNCHANGED <<graph, path, preorderList, last, attrs, nodeLookup, w, body, worklist>>
  BY DEF BuildLoopTree, Analyzing, LoopTree
<1>2. /\ TypeOK /\ Searched /\ Recorded /\ Collapsed /\ BodyFound /\ EnteredAtHeaders
      /\ Reducible(graph) => LoopsCollapsed
      /\ attrs \in [Numbers -> Attributes] /\ nodeLookup \in [Numbers -> Numbers]
      /\ w = 0 /\ body = {}
      /\ SearchInvariant /\ Numbering /\ path = << >>
  BY <1>1, HeaderFacts
<1>3. /\ Numbers' = Numbers /\ Visited' = Visited /\ Attributes' = Attributes
      /\ \A i : /\ PredNumbers(i)' = PredNumbers(i) /\ TailNumbers(i)' = TailNumbers(i)
                /\ NodeAt(i)' = NodeAt(i) /\ TypeFound(i)' = TypeFound(i)
      /\ \A i, j : IsAncestor(i, j)' = IsAncestor(i, j) /\ InLoop(i, j)' = InLoop(i, j)
  BY <1>1, NumberedStays
<1>4. (\A types : OfType(types)' = OfType(types)) /\ LoopTree' = LoopTree
  BY <1>1, LoopTreeStays
<1>5. Headers' \subseteq graph.node
  <2>1. CASE phase' = "aborted"
    BY <1>1, <1>2, <2>1 DEF Headers, TypeOK
  <2>2. CASE phase' = "analyzed"
    <3>1. \A i \in OfType({"reducible", "self"}) : NodeAt(i) \in graph.node
      BY <1>2, NodesAndNumbers DEF OfType
    <3> QED  BY <1>1, <2>2, <3>1 DEF Headers, LoopTree
  <2> QED  BY <1>1, <2>1, <2>2
<1>6. TypeOK'
  BY <1>1, <1>2, <1>3, <1>5 DEF TypeOK, Phases
<1>7. SearchInvariant'
  BY <1>1, <1>2, SearchStays
<1>8. HeaderInvariant'
  <2>1. Recorded'
    BY <1>1, <1>2, <1>3 DEF Recorded, Tried
  <2>2. Collapsed' /\ BodyFound'
    BY <1>1, <1>2, <1>3 DEF Collapsed, BodyFound
  <2>3. NoneIrreducible' <=> NoneIrreducible
    BY <1>1, <1>3 DEF NoneIrreducible
  <2>4. EnteredAtHeaders'
    BY <1>1, <1>2, <1>3, <2>3 DEF EnteredAtHeaders
  <2>5. LoopsCollapsed => LoopsCollapsed'
    BY <1>1, <1>3, <2>3 DEF LoopsCollapsed
  <2> QED  BY <1>1, <1>2, <2>1, <2>2, <2>4, <2>5 DEF HeaderInvariant
<1>9. ResultInvariant'
  <2>1. OfType({"irreducible"}) # {} => ~NoneIrreducible
    BY DEF OfType, NoneIrreducible
  <2>2. NoneIrreducible \/ ~Reducible(graph)
    BY <1>2 DEF LoopsCollapsed
  <2> QED  BY <1>1, <1>4, <2>1, <2>2 DEF ResultInvariant
<1> QED  BY <1>1, <1>6, <1>7, <1>8, <1>9 DEF InductiveInvariant, NothingYet

\* The invariant is a matter of the present state.
LEMMA NothingMoves ==
    ASSUME InductiveInvariant, UNCHANGED vars
    PROVE  InductiveInvariant'
<1>1. UNCHANGED <<graph, phase, path, preorderList, last, attrs, nodeLookup, w, body, worklist, loops>>
  BY DEF vars
<1>2. /\ Numbers' = Numbers /\ Visited' = Visited /\ Attributes' = Attributes
      /\ LastNumber' = LastNumber
      /\ \A n : NumberOf(n)' = NumberOf(n) /\ LastOf(n)' = LastOf(n)
      /\ \A i : /\ PredNumbers(i)' = PredNumbers(i) /\ TailNumbers(i)' = TailNumbers(i)
                /\ NodeAt(i)' = NodeAt(i) /\ TypeFound(i)' = TypeFound(i)
      /\ \A i, j : IsAncestor(i, j)' = IsAncestor(i, j) /\ InLoop(i, j)' = InLoop(i, j)
  BY <1>1, NumberedStays
<1>3. (\A types : OfType(types)' = OfType(types)) /\ LoopTree' = LoopTree
  BY <1>1, LoopTreeStays
<1>4. (NoneIrreducible' <=> NoneIrreducible) /\ \A x : Sources(x)' = Sources(x)
  BY <1>1, <1>2 DEF NoneIrreducible, Sources
<1>5. TypeOK => TypeOK'
  BY <1>1, <1>2 DEF TypeOK, Headers
<1>6. NothingYet => NothingYet'
  BY <1>1 DEF NothingYet
<1>7. /\ EntryIsFirst => EntryIsFirst'
      /\ PathDescends => PathDescends'
      /\ LeftNodes => LeftNodes'
      /\ HaveParents => HaveParents'
  BY <1>1, <1>2 DEF EntryIsFirst, PathDescends, LeftNodes, HaveParents, CameFrom
<1>8. SearchInvariant => SearchInvariant'
  BY <1>1, <1>2, <1>7 DEF SearchInvariant, Numbering
<1>9. /\ Recorded => Recorded'
      /\ Collapsed => Collapsed'
      /\ BodyFound => BodyFound'
      /\ EnteredAtHeaders => EnteredAtHeaders'
      /\ LoopsCollapsed => LoopsCollapsed'
  BY <1>1, <1>2, <1>4 DEF Recorded, Tried, Collapsed, BodyFound, EnteredAtHeaders, LoopsCollapsed
<1>10. HeaderInvariant => HeaderInvariant'
  BY <1>1, <1>9 DEF HeaderInvariant, Analyzing
<1>11. ResultInvariant => ResultInvariant'
  BY <1>1, <1>3 DEF ResultInvariant
<1> QED  BY <1>5, <1>6, <1>8, <1>10, <1>11 DEF InductiveInvariant

\* Every step keeps the invariant.
LEMMA StepHolds ==
    ASSUME InductiveInvariant, [Next]_vars
    PROVE  InductiveInvariant'
<1>1. CASE AnalysisStep
  BY <1>1, PruneStep, VisitStep, LeaveStep, CheckStep, FindBackEdgesStep, TryHeaderStep, ExpandBodyStep,
     CollapseLoopStep, FinishHeadersStep, BuildLoopTreeStep DEF AnalysisStep
<1>2. CASE UNCHANGED vars
  BY <1>2, NothingMoves
<1> QED  BY <1>1, <1>2 DEF Next, Stopped

-----------------------------------------------------------------------------
(* The theorems.                                                           *)

\* The invariant holds in every reachable state of the analysis, whatever the graphs and
\* whatever order networkx yields the successors in.
THEOREM InvariantHolds == Spec => []InductiveInvariant
<1>1. Init => InductiveInvariant
  BY InitHolds
<1>2. InductiveInvariant /\ [Next]_vars => InductiveInvariant'
  BY StepHolds
<1> QED  BY <1>1, <1>2, PTL DEF Spec

\* Every variable keeps its type (_post_init and all it calls).
THEOREM TypeCorrect == Spec => []TypeOK
<1>1. InductiveInvariant => TypeOK
  BY DEF InductiveInvariant
<1> QED  BY <1>1, InvariantHolds, PTL

\* If no irreducible loop has been found there is none: every edge to an ancestor is a back
\* edge.
LEMMA AnalyzedIsReducible ==
    ASSUME InductiveInvariant, phase = "analyzed"
    PROVE  Reducible(graph)
<1>1. /\ Searched /\ Recorded /\ EnteredAtHeaders /\ w = 0
      /\ Numbers \subseteq Nat /\ OfType({"irreducible"}) = {}
  BY HeaderFacts, NodesAndNumbers DEF Analyzing, InductiveInvariant, ResultInvariant
<1>2. ASSUME NEW i \in Numbers, attrs[i].type = "irreducible" PROVE FALSE
  <2>1. TailNumbers(i) # {} /\ TailNumbers(0) = {}
    BY <1>1, <1>2, TailFacts DEF Recorded
  <2>2. i \in OfType({"irreducible"})
    BY <1>2, <2>1 DEF OfType
  <2> QED  BY <1>1, <2>2
<1>3. NoneIrreducible
  BY <1>2 DEF NoneIrreducible
<1>4. \A b \in Numbers : \A v \in TailNumbers(b) : Dominates(graph, NodeAt(b), NodeAt(v))
  BY <1>1, <1>3 DEF EnteredAtHeaders
<1> QED  BY <1>1, <1>4, ReducibleIfDominated

\* The analysis gives up exactly on the flows that are irreducible or nothing but their
\* entry (BuildLoopTree's test, and _validate_graph).
THEOREM IrreducibleRejected == Spec => []RejectsIrreducible
<1>1. InductiveInvariant => RejectsIrreducible
  BY AnalyzedIsReducible DEF InductiveInvariant, ResultInvariant, RejectsIrreducible, Root
<1> QED  BY <1>1, InvariantHolds, PTL

\* Part [A] finds the edges that close the cycles: without them the graph is acyclic, and
\* in a reducible graph they are its back edges.
THEOREM BackEdgesAreFound == Spec => []BackEdgesFound
<1>1. ASSUME InductiveInvariant, phase = "headers"
      PROVE  LET found == {e \in graph.edge : NumberOf(e[1]) \in attrs[NumberOf(e[2])].backPreds}
             IN  /\ Acyclic([graph EXCEPT !.edge = @ \ found])
                 /\ Reducible(graph) => found = BackEdges(graph)
  <2> DEFINE found == {e \in graph.edge : NumberOf(e[1]) \in attrs[NumberOf(e[2])].backPreds}
             up    == UpEdges(graph, Num, End)
  <2>1. Searched /\ Recorded
    BY <1>1, HeaderFacts DEF Analyzing
  <2>2. /\ IsFlowGraph(graph) /\ IsSearch(graph, Num, End)
        /\ graph.edge \subseteq graph.node \X graph.node
    BY <2>1 DEF Searched, IsFlowGraph
  <2>3. ASSUME NEW e \in graph.edge PROVE e \in found <=> e \in up
    <3>1. /\ NumberOf(e[1]) \in Numbers /\ NumberOf(e[2]) \in Numbers
          /\ NodeAt(NumberOf(e[1])) = e[1] /\ NodeAt(NumberOf(e[2])) = e[2] /\ e = <<e[1], e[2]>>
      BY <2>1, <2>2, NodesAndNumbers
    <3>2. e \in found <=> NumberOf(e[1]) \in TailNumbers(NumberOf(e[2]))
      BY <2>1, <3>1 DEF Recorded
    <3>3. NumberOf(e[1]) \in TailNumbers(NumberOf(e[2])) <=> e \in up
      BY <2>1, <3>1, TailFacts
    <3> QED  BY <3>2, <3>3
  <2>4. found = up
    <3>1. found \subseteq graph.edge /\ up \subseteq graph.edge
      BY DEF UpEdges
    <3> QED  BY <2>3, <3>1
  <2>5. Acyclic([graph EXCEPT !.edge = @ \ up])
    BY <2>2, AcyclicWithoutUpEdges
  <2>6. Reducible(graph) => up = BackEdges(graph)
    BY <2>2, UpEdgesIfReducible
  <2> QED  BY <2>4, <2>5, <2>6
<1>2. InductiveInvariant => BackEdgesFound
  BY <1>1 DEF BackEdgesFound
<1> QED  BY <1>2, InvariantHolds, PTL

\* Natural loops by the number of their head.
LEMMA LoopsAround ==
    ASSUME Searched, NEW i \in Numbers
    PROVE  \A loop \in NaturalLoops(graph) :
             /\ loop.head \in graph.node /\ NumberOf(loop.head) \in Numbers
             /\ NodeAt(i) \in loop.nodes <=> InLoop(i, NumberOf(loop.head))
<1> DEFINE LoopAt(n) == [head |-> n, tails |-> TailsOf(graph, n), nodes |-> LoopOf(graph, n)]
<1>1. NaturalLoops(graph) = {LoopAt(n) : n \in HeadsOf(graph)}
  BY NaturalLoopsAreLoops
<1>2. HeadsOf(graph) \subseteq graph.node
  BY DEF Searched, IsFlowGraph, HeadsOf, BackEdges
<1>3. ASSUME NEW n \in HeadsOf(graph)
      PROVE  /\ LoopAt(n).head = n /\ n \in graph.node /\ NumberOf(n) \in Numbers
             /\ NodeAt(i) \in LoopAt(n).nodes <=> InLoop(i, NumberOf(n))
  <2>1. NumberOf(n) \in Numbers /\ NodeAt(NumberOf(n)) = n
    BY <1>2, NodesAndNumbers
  <2>2. InLoop(i, NumberOf(n)) <=> NodeAt(i) \in LoopOf(graph, n)
    BY <2>1, InLoopMeans
  <2> QED  BY <1>2, <2>1, <2>2
<1> HIDE DEF LoopAt
<1> QED  BY <1>1, <1>3

\* Between two headers, Find yields the outermost loop found so far that holds the node.
THEOREM OutermostRepresented == Spec => []RepresentativesOutermost
<1>1. ASSUME InductiveInvariant, phase = "headers", Reducible(graph), NEW i \in Numbers
      PROVE  LET found == {loop \in NaturalLoops(graph) : NumberOf(loop.head) >= w}
             IN  nodeLookup[i] =
                    Min({i} \cup {NumberOf(loop.head) : loop \in Around(found, NodeAt(i))})
  <2> DEFINE found == {loop \in NaturalLoops(graph) : NumberOf(loop.head) >= w}
             M     == {i} \cup {NumberOf(loop.head) : loop \in Around(found, NodeAt(i))}
  <2>1. /\ Searched /\ LoopsCollapsed /\ Numbers \subseteq Nat /\ w \in Nat
        /\ Numbers = 0 .. Len(preorderList) - 1 /\ Len(preorderList) \in Nat
    BY <1>1, HeaderFacts, NodesAndNumbers DEF Analyzing
  <2>2. /\ nodeLookup[i] = i \/ InLoop(i, nodeLookup[i])
        /\ \A b \in Numbers : b >= w /\ InLoop(i, b) => nodeLookup[i] <= b
    BY <2>1 DEF LoopsCollapsed
  <2>3. nodeLookup[i] \in Numbers /\ nodeLookup[i] <= i /\ (nodeLookup[i] # i => nodeLookup[i] >= w)
    BY <1>1, RepresentativeFacts DEF Analyzing
  <2>4. ASSUME NEW m \in M PROVE m \in Numbers /\ nodeLookup[i] <= m
    <3>1. CASE m = i
      BY <2>3, <3>1
    <3>2. CASE m # i
      <4>1. PICK loop \in NaturalLoops(graph) :
              NumberOf(loop.head) >= w /\ NodeAt(i) \in loop.nodes /\ m = NumberOf(loop.head)
        BY <3>2 DEF Around
      <4>2. m \in Numbers /\ InLoop(i, m)
        BY <2>1, <4>1, LoopsAround
      <4> QED  BY <2>2, <4>1, <4>2
    <3> QED  BY <3>1, <3>2
  <2>5. nodeLookup[i] \in M
    <3>1. CASE nodeLookup[i] = i
      BY <3>1
    <3>2. CASE nodeLookup[i] # i
      <4>1. PICK loop \in NaturalLoops(graph) : loop.head = NodeAt(nodeLookup[i]) /\ NodeAt(i) \in loop.nodes
        BY <2>2, <3>2 DEF InLoop
      <4>2. NumberOf(loop.head) = nodeLookup[i]
        BY <2>1, <2>3, <4>1, NodesAndNumbers
      <4> QED  BY <2>3, <3>2, <4>1, <4>2 DEF Around
    <3> QED  BY <3>1, <3>2
  <2> HIDE DEF M
  <2>6. \A x \in M : (\A y \in M : x <= y) => x = nodeLookup[i]
    BY <2>1, <2>3, <2>4, <2>5
  <2>7. nodeLookup[i] = Min(M)
    BY <2>4, <2>5, <2>6 DEF Min
  <2> QED  BY <2>7 DEF M
<1>2. InductiveInvariant => RepresentativesOutermost
  BY <1>1 DEF RepresentativesOutermost
<1> QED  BY <1>2, InvariantHolds, PTL

\* Every step of the analysis leaves less to do.
THEOREM AnalysisAdvances == Spec => AnalysisProgresses
<1> DEFINE Advances ==
             \/ phase' # phase
             \/ /\ phase = "dfs"
                /\ \/ Len(preorderList') > Len(preorderList)
                   \/ DOMAIN last' \ DOMAIN last # {}
             \/ /\ phase = "headers"
                /\ \/ w' < w
                   \/ body' \ body # {} /\ body \subseteq body'
                   \/ body' = body /\ worklist' \subseteq worklist /\ worklist' # worklist
<1>1. ASSUME InductiveInvariant, VisitSuccessor PROVE Advances
  <2>1. PICK s : preorderList' = Append(preorderList, s) /\ phase = "dfs"
    BY <1>1 DEF VisitSuccessor
  <2>2. preorderList \in Seq(graph.node)
    BY <1>1 DEF InductiveInvariant, TypeOK
  <2>3. Len(preorderList') > Len(preorderList)
    BY <2>1, <2>2
  <2> QED  BY <2>1, <2>3
<1>2. ASSUME InductiveInvariant, LeaveNode PROVE Advances
  <2>1. /\ phase = "dfs" /\ path # << >> /\ path \in Seq(graph.node)
        /\ DOMAIN last = {n \in Visited : \A i \in DOMAIN path : n # path[i]}
        /\ Last(path) \in DOMAIN last'
    BY <1>2 DEF LeaveNode, InductiveInvariant, TypeOK, SearchInvariant, LeftNodes, Numbering
  <2>2. Last(path) \notin DOMAIN last
    BY <2>1 DEF Last
  <2> QED  BY <2>1, <2>2
<1>3. ASSUME InductiveInvariant, TryHeader PROVE Advances
  <2>1. /\ phase = "headers" /\ body = {} /\ w > 0 /\ w \in Nat
        /\ w' = (IF body' = {} THEN w - 1 ELSE w)
    BY <1>3 DEF TryHeader, Idle, InductiveInvariant, TypeOK
  <2>2. body' = {} => w' < w
    BY <2>1
  <2> QED  BY <2>1, <2>2
<1>4. ASSUME InductiveInvariant, ExpandBody PROVE Advances
  <2>1. PICK x \in worklist : /\ phase = "headers" /\ body' = body \cup Pushed(x)
                              /\ worklist' = (worklist \ {x}) \cup Pushed(x)
    BY <1>4 DEF ExpandBody
  <2>2. \A y \in Pushed(x) : y \notin body
    BY DEF Pushed
  <2>3. CASE Pushed(x) = {}
    BY <2>1, <2>3
  <2>4. CASE Pushed(x) # {}
    BY <2>1, <2>2, <2>4
  <2> QED  BY <2>3, <2>4
<1>5. ASSUME InductiveInvariant, CollapseLoop PROVE Advances
  <2>1. phase = "headers" /\ w \in Nat /\ w' = w - 1
    BY <1>5 DEF CollapseLoop, InductiveInvariant, TypeOK
  <2>2. w' < w
    BY <2>1
  <2> QED  BY <2>1, <2>2
<1>6. InductiveInvariant /\ AnalysisStep => Advances
  <2>1. (PruneUnreachable \/ CheckTree \/ FindBackEdges \/ FinishHeaders \/ BuildLoopTree) => phase' # phase
    BY DEF PruneUnreachable, CheckTree, FindBackEdges, FinishHeaders, BuildLoopTree
  <2> HIDE DEF Advances
  <2>2. phase' # phase => Advances
    BY DEF Advances
  <2> QED  BY <1>1, <1>2, <1>3, <1>4, <1>5, <2>1, <2>2 DEF AnalysisStep
<1>7. InductiveInvariant /\ [Next]_vars => [Advances]_vars
  <2> HIDE DEF Advances
  <2> QED  BY <1>6 DEF Next, Stopped
<1> QED  BY <1>7, InvariantHolds, PTL DEF Spec, AnalysisProgresses

-----------------------------------------------------------------------------
(* The loop tree.                                                          *)

\* What the attributes say when the loops have been found.
LEMMA AnalyzedFacts ==
    ASSUME InductiveInvariant, phase = "analyzed"
    PROVE  /\ Searched /\ Reducible(graph) /\ LoopsCollapsed /\ w = 0
           /\ Numbers \subseteq Nat /\ nodeLookup \in [Numbers -> Numbers]
           /\ 0 \in Numbers /\ NodeAt(0) = Root /\ ~IsHead(0)
           /\ \A i \in Numbers : /\ attrs[i].type = TypeFound(i)
                                 /\ attrs[i].backPreds = TailNumbers(i)
                                 /\ attrs[i].header \in Numbers
                                 /\ IsHead(i) <=> TailNumbers(i) # {}
           /\ \A i : i \in OfType({"nonheader"}) <=> i \in Numbers /\ i # 0 /\ ~IsHead(i)
           /\ Headers \subseteq graph.node
           /\ \A i \in Numbers : NodeAt(i) \in Headers <=> IsHead(i)
           /\ \A i \in Numbers : IsHead(i) => loops[NodeAt(i)] = LoopInfoOf(i)
<1>1. /\ Searched /\ Reducible(graph) /\ LoopsCollapsed /\ w = 0 /\ Recorded
      /\ attrs \in [Numbers -> Attributes] /\ loops = LoopTree
      /\ Numbers \subseteq Nat /\ nodeLookup \in [Numbers -> Numbers]
  BY AnalyzedIsReducible, HeaderFacts, NodesAndNumbers
     DEF Analyzing, InductiveInvariant, ResultInvariant
<1>2. /\ 0 \in Numbers /\ NodeAt(0) = Root /\ TailNumbers(0) = {}
      /\ \A i \in Numbers : IsHead(i) <=> TailNumbers(i) # {}
  BY <1>1, PredFacts, TailFacts, ReducibleLoops DEF Root
<1>3. \A i \in Numbers : /\ attrs[i].type = TypeFound(i)
                         /\ attrs[i].backPreds = TailNumbers(i)
                         /\ attrs[i].header \in Numbers
  BY <1>1 DEF Recorded, Tried, Attributes, LoopsCollapsed, NoneIrreducible
<1>4. \A i \in Numbers : /\ TypeFound(i) \in {"reducible", "self"} <=> TailNumbers(i) # {}
                         /\ TypeFound(i) = "nonheader" <=> TailNumbers(i) = {}
  BY DEF TypeFound
<1>5. \A i : i \in OfType({"nonheader"}) <=> i \in Numbers /\ i # 0 /\ ~IsHead(i)
  BY <1>2, <1>3, <1>4 DEF OfType
<1>6. \A i : i \in OfType({"reducible", "self"}) <=> i \in Numbers /\ IsHead(i)
  BY <1>2, <1>3, <1>4 DEF OfType
<1>7. \A i \in Numbers : NodeAt(i) \in graph.node /\ NumberOf(NodeAt(i)) = i
  BY <1>1, NodesAndNumbers
<1>8. Headers = {NodeAt(i) : i \in OfType({"reducible", "self"})}
  BY <1>1 DEF Headers, LoopTree
<1>9. \A i \in Numbers : NodeAt(i) \in Headers <=> IsHead(i)
  BY <1>6, <1>7, <1>8
<1>10. \A i \in Numbers : IsHead(i) => loops[NodeAt(i)] = LoopInfoOf(i)
  BY <1>1, <1>6, <1>7 DEF LoopTree
<1>11. Headers \subseteq graph.node
  BY <1>6, <1>7, <1>8
<1> QED  BY <1>1, <1>2, <1>3, <1>5, <1>9, <1>10, <1>11

\* The header recorded for a number is the last head of another loop around it.
LEMMA HeaderIsLastHead ==
    ASSUME InductiveInvariant, phase = "analyzed", NEW i \in Numbers
    PROVE  /\ \A c \in Numbers \ {i} : InLoop(i, c) =>
                /\ InLoop(i, attrs[i].header) /\ attrs[i].header # i
                /\ c <= attrs[i].header
           /\ attrs[i].header # 0 => InLoop(i, attrs[i].header) /\ attrs[i].header # i
           /\ \A c \in Numbers : InLoop(i, c) => c # 0 /\ c <= i
<1>1. /\ Searched /\ LoopsCollapsed /\ w = 0 /\ Numbers \subseteq Nat /\ ~IsHead(0)
      /\ nodeLookup \in [Numbers -> Numbers]
  BY AnalyzedFacts
<1>2. /\ \A b \in Numbers : b >= 0 /\ InLoop(i, b) => nodeLookup[i] <= b
      /\ nodeLookup[i] = i => attrs[i].header = 0
      /\ nodeLookup[i] # i =>
           /\ attrs[i].header # i /\ InLoop(i, attrs[i].header)
           /\ \A c \in Numbers \ {i} : InLoop(i, c) => c <= attrs[i].header
  BY <1>1 DEF LoopsCollapsed
<1>3. \A c \in Numbers : InLoop(i, c) => c # 0 /\ c <= i
  BY <1>1, LoopsByNumber
<1>4. ASSUME NEW c \in Numbers \ {i}, InLoop(i, c) PROVE nodeLookup[i] # i
  <2>1. c <= i /\ nodeLookup[i] <= c /\ c \in Nat /\ i \in Nat
    BY <1>1, <1>2, <1>3, <1>4
  <2> QED  BY <1>4, <2>1
<1> QED  BY <1>2, <1>3, <1>4

\* Of the loops around a node, the one with the last head is the innermost.
LEMMA LastHeadIsInnermost ==
    ASSUME Searched, NEW i \in Numbers, NEW A \in SUBSET NaturalLoops(graph),
           \A loop \in A : NodeAt(i) \in loop.nodes,
           NEW inner \in A, \A loop \in A : NumberOf(loop.head) <= NumberOf(inner.head),
           NEW otherwise
    PROVE  InnermostHead(A, otherwise) = inner.head
<1>1. /\ Numbers \subseteq Nat
      /\ \A n \in graph.node : NumberOf(n) \in Numbers /\ NodeAt(NumberOf(n)) = n
      /\ \A k \in Numbers : NodeAt(k) \in graph.node /\ NumberOf(NodeAt(k)) = k
  BY NodesAndNumbers
<1>2. ASSUME NEW loop \in NaturalLoops(graph)
      PROVE  /\ loop.head \in graph.node /\ NumberOf(loop.head) \in Numbers
             /\ \A k \in Numbers : NodeAt(k) \in loop.nodes <=> InLoop(k, NumberOf(loop.head))
             /\ loop.nodes \subseteq graph.node /\ loop.head \in loop.nodes
             /\ \A n \in loop.nodes : NumberOf(loop.head) <= NumberOf(n)
  <2>1. /\ loop.head \in graph.node /\ NumberOf(loop.head) \in Numbers
        /\ \A k \in Numbers : NodeAt(k) \in loop.nodes <=> InLoop(k, NumberOf(loop.head))
    BY LoopsAround
  <2>2. loop.nodes = LoopOf(graph, loop.head)
    BY NaturalLoopsAreLoops
  <2>3. loop.nodes \subseteq graph.node /\ loop.head \in loop.nodes
    BY <2>1, <2>2, LoopFacts DEF Searched
  <2>4. ASSUME NEW n \in loop.nodes PROVE NumberOf(loop.head) <= NumberOf(n)
    <3>1. NumberOf(n) \in Numbers /\ NodeAt(NumberOf(n)) = n
      BY <1>1, <2>3
    <3>2. InLoop(NumberOf(n), NumberOf(loop.head))
      BY <2>1, <3>1
    <3> QED  BY <2>1, <3>1, <3>2, LoopsByNumber
  <2> QED  BY <2>1, <2>3, <2>4
<1>3. ASSUME NEW loop \in A PROVE inner.nodes \subseteq loop.nodes
  <2> DEFINE b == NumberOf(inner.head)
             c == NumberOf(loop.head)
  <2>1. b \in Numbers /\ c \in Numbers /\ c <= b /\ InLoop(i, b) /\ InLoop(i, c)
        /\ loop.head = NodeAt(c) /\ inner.head = NodeAt(b)
    BY <1>1, <1>2, <1>3
  <2>2. CASE b = c
    <3>1. \A n \in inner.nodes : n \in loop.nodes
      <4>1. \A k \in Numbers : NodeAt(k) \in inner.nodes <=> NodeAt(k) \in loop.nodes
        BY <1>2, <1>3, <2>2
      <4> QED  BY <1>1, <1>2, <4>1
    <3> QED  BY <3>1
  <2>3. CASE b # c
    <3> HIDE DEF b, c
    <3>1. c < b
      <4>1. b \in Nat /\ c \in Nat
        BY <1>1, <2>1
      <4> QED  BY <2>1, <2>3, <4>1
    <3>2. InLoop(b, c)
      BY <2>1, <3>1, LoopsByNumber
    <3>3. \A k \in Numbers : InLoop(k, b) => InLoop(k, c)
      BY <2>1, <2>3, <3>2, LoopsByNumber
    <3> QED  BY <1>1, <1>2, <1>3, <3>3 DEF b, c
  <2> QED  BY <2>2, <2>3
<1>4. ASSUME NEW loop \in A, \A other \in A : loop.nodes \subseteq other.nodes
      PROVE  loop.head = inner.head
  <2>1. loop.head \in inner.nodes
    BY <1>2, <1>4
  <2>2. NumberOf(inner.head) <= NumberOf(loop.head)
    BY <1>2, <2>1
  <2>3. NumberOf(inner.head) = NumberOf(loop.head)
    <3>1. NumberOf(inner.head) \in Nat /\ NumberOf(loop.head) \in Nat
      BY <1>1, <1>2
    <3>2. NumberOf(loop.head) <= NumberOf(inner.head)
      BY <1>4
    <3> QED  BY <2>2, <3>1, <3>2
  <2> QED  BY <1>1, <1>2, <1>4, <2>3
<1> DEFINE chosen == CHOOSE loop \in A : \A other \in A : loop.nodes \subseteq other.nodes
<1>5. chosen \in A /\ \A other \in A : chosen.nodes \subseteq other.nodes
  BY <1>3
<1>6. InnermostHead(A, otherwise) = chosen.head
  BY DEF InnermostHead
<1> HIDE DEF chosen
<1> QED  BY <1>4, <1>5, <1>6

\* The header recorded for a node is the head of the innermost other loop around it.
LEMMA HeaderIsInnermost ==
    ASSUME InductiveInvariant, phase = "analyzed", NEW i \in Numbers
    PROVE  LET nest == Around(NaturalLoops(graph), NodeAt(i))
           IN  /\ InnermostHead({loop \in nest : loop.head # NodeAt(i)}, Root) = NodeAt(attrs[i].header)
               /\ InnermostHead(nest, Root) = IF IsHead(i) THEN NodeAt(i) ELSE NodeAt(attrs[i].header)
<1> DEFINE nest   == Around(NaturalLoops(graph), NodeAt(i))
           others == {loop \in nest : loop.head # NodeAt(i)}
           h      == attrs[i].header
<1>1. /\ Searched /\ Numbers \subseteq Nat /\ h \in Numbers /\ NodeAt(0) = Root
  BY AnalyzedFacts
<1>2. /\ \A n \in graph.node : NumberOf(n) \in Numbers /\ NodeAt(NumberOf(n)) = n
      /\ \A k \in Numbers : NodeAt(k) \in graph.node /\ NumberOf(NodeAt(k)) = k
  BY <1>1, NodesAndNumbers
<1>3. \A loop \in nest : /\ loop \in NaturalLoops(graph) /\ NodeAt(i) \in loop.nodes
                         /\ NumberOf(loop.head) \in Numbers /\ loop.head = NodeAt(NumberOf(loop.head))
                         /\ InLoop(i, NumberOf(loop.head))
  BY <1>1, <1>2, LoopsAround DEF Around
<1>4. /\ \A c \in Numbers \ {i} : InLoop(i, c) => InLoop(i, h) /\ h # i /\ c <= h
      /\ h # 0 => InLoop(i, h) /\ h # i
      /\ \A c \in Numbers : InLoop(i, c) => c # 0 /\ c <= i
  BY HeaderIsLastHead
<1> HIDE DEF h
<1>5. \A c \in Numbers : InLoop(i, c) => \E loop \in nest : loop.head = NodeAt(c)
  BY DEF InLoop, Around
<1>6. InnermostHead(others, Root) = NodeAt(h)
  <2>1. CASE others = {}
    <3>1. h = 0
      <4>1. ASSUME h # 0 PROVE FALSE
        <5>1. PICK loop \in nest : loop.head = NodeAt(h)
          BY <1>1, <1>4, <1>5, <4>1
        <5>2. NodeAt(h) # NodeAt(i)
          BY <1>1, <1>2, <1>4, <4>1
        <5> QED  BY <2>1, <5>1, <5>2
      <4> QED  BY <4>1
    <3>2. InnermostHead(others, Root) = Root
      BY <2>1 DEF InnermostHead
    <3> QED  BY <1>1, <3>1, <3>2
  <2>2. CASE others # {}
    <3>1. \A loop \in others : NumberOf(loop.head) \in Numbers \ {i} /\ InLoop(i, NumberOf(loop.head))
      BY <1>3
    <3>2. InLoop(i, h) /\ h # i /\ \A loop \in others : NumberOf(loop.head) <= h
      BY <1>4, <2>2, <3>1
    <3>3. PICK inner \in nest : inner.head = NodeAt(h)
      BY <1>1, <1>5, <3>2
    <3>4. inner \in others /\ NumberOf(inner.head) = h
      BY <1>1, <1>2, <3>2, <3>3
    <3>5. others \in SUBSET NaturalLoops(graph) /\ \A loop \in others : NodeAt(i) \in loop.nodes
      BY <1>3
    <3> HIDE DEF others
    <3> QED  BY <1>1, <3>2, <3>3, <3>4, <3>5, LastHeadIsInnermost
  <2> QED  BY <2>1, <2>2
<1>7. CASE IsHead(i)
  <2>1. InLoop(i, i)
    BY <1>1, <1>7, LoopsByNumber
  <2>2. PICK inner \in nest : inner.head = NodeAt(i)
    BY <1>5, <2>1
  <2>3. NumberOf(inner.head) = i /\ \A loop \in nest : NumberOf(loop.head) <= i
    BY <1>2, <1>3, <1>4, <2>2
  <2>4. nest \in SUBSET NaturalLoops(graph) /\ \A loop \in nest : NodeAt(i) \in loop.nodes
    BY <1>3
  <2>5. InnermostHead(nest, Root) = inner.head
    <3> HIDE DEF nest
    <3> QED  BY <1>1, <2>3, <2>4, LastHeadIsInnermost
  <2> QED  BY <1>6, <1>7, <2>2, <2>5 DEF h
<1>8. CASE ~IsHead(i)
  <2>1. \A loop \in nest : loop.head # NodeAt(i)
    BY <1>3, <1>8 DEF IsHead
  <2>2. nest = others
    BY <2>1
  <2> QED  BY <1>6, <1>8, <2>2 DEF h
<1> QED  BY <1>7, <1>8

\* The nodes a loop is innermost for, and the loops next inside it.
LEMMA BodyByNumber ==
    ASSUME InductiveInvariant, phase = "analyzed", NEW h \in Numbers, IsHead(h)
    PROVE  /\ loops[NodeAt(h)].parent = NodeAt(attrs[h].header)
           /\ \A k \in Numbers :
                /\ NodeAt(k) \in loops[NodeAt(h)].nonheader <=> k # 0 /\ ~IsHead(k) /\ attrs[k].header = h
                /\ NodeAt(k) \in BodyNodes(NodeAt(h)) <=> k # 0 /\ attrs[k].header = h
           /\ loops[NodeAt(h)].nonheader \subseteq graph.node
           /\ BodyNodes(NodeAt(h)) \subseteq graph.node
<1>1. /\ Searched /\ Numbers \subseteq Nat /\ h # 0 /\ ~IsHead(0) /\ Headers \subseteq graph.node
      /\ \A i : i \in OfType({"nonheader"}) <=> i \in Numbers /\ i # 0 /\ ~IsHead(i)
      /\ \A i \in Numbers : NodeAt(i) \in Headers <=> IsHead(i)
      /\ \A i \in Numbers : IsHead(i) => loops[NodeAt(i)] = LoopInfoOf(i)
      /\ \A i \in Numbers : attrs[i].header \in Numbers
  BY AnalyzedFacts
<1>2. \A i \in Numbers : NodeAt(i) \in graph.node /\ NumberOf(NodeAt(i)) = i
  BY <1>1, NodesAndNumbers
<1>3. ASSUME NEW i \in Numbers, IsHead(i) PROVE loops[NodeAt(i)].parent = NodeAt(attrs[i].header)
  <2>1. loops[NodeAt(i)] = LoopInfoOf(i)
    BY <1>1, <1>3
  <2>2. LoopInfoOf(i).parent = NodeAt(attrs[i].header)
    BY DEF LoopInfoOf, HeaderNode
  <2> QED  BY <2>1, <2>2
<1>4. loops[NodeAt(h)].nonheader = {NodeAt(j) : j \in {k \in OfType({"nonheader"}) : attrs[k].header = h}}
  <2>1. loops[NodeAt(h)] = LoopInfoOf(h)
    BY <1>1
  <2>2. LoopInfoOf(h).nonheader = {NodeAt(j) : j \in {k \in OfType({"nonheader"}) : attrs[k].header = h}}
    BY DEF LoopInfoOf
  <2> QED  BY <2>1, <2>2
<1>5. ASSUME NEW k \in Numbers
      PROVE  NodeAt(k) \in loops[NodeAt(h)].nonheader <=> k # 0 /\ ~IsHead(k) /\ attrs[k].header = h
  <2>1. NodeAt(k) \in loops[NodeAt(h)].nonheader
          <=> \E j \in OfType({"nonheader"}) : attrs[j].header = h /\ NodeAt(k) = NodeAt(j)
    BY <1>4
  <2>2. \A j \in OfType({"nonheader"}) : NodeAt(k) = NodeAt(j) => k = j
    BY <1>1, <1>2
  <2> QED  BY <1>1, <2>1, <2>2
<1>6. ASSUME NEW k \in Numbers
      PROVE  NodeAt(k) \in BodyNodes(NodeAt(h)) <=> k # 0 /\ attrs[k].header = h
  <2>0. NodeAt(k) \in BodyNodes(NodeAt(h)) <=>
          \/ NodeAt(k) \in loops[NodeAt(h)].nonheader
          \/ NodeAt(k) \in Headers /\ loops[NodeAt(k)].parent = NodeAt(h)
    BY DEF BodyNodes
  <2>1. CASE IsHead(k)
    <3>1. loops[NodeAt(k)].parent = NodeAt(attrs[k].header) /\ attrs[k].header \in Numbers
      BY <1>1, <1>3, <2>1
    <3>2. loops[NodeAt(k)].parent = NodeAt(h) <=> attrs[k].header = h
      BY <1>2, <3>1
    <3> QED  BY <1>1, <1>5, <2>0, <2>1, <3>2
  <2>2. CASE ~IsHead(k)
    BY <1>1, <1>5, <2>0, <2>2
  <2> QED  BY <2>1, <2>2
<1>7. loops[NodeAt(h)].nonheader \subseteq graph.node
  BY <1>1, <1>2, <1>4
<1> QED  BY <1>1, <1>3, <1>5, <1>6, <1>7 DEF BodyNodes

\* lookup_node yields a header for itself, and for other nodes the header recorded.
LEMMA LookupByNumber ==
    ASSUME InductiveInvariant, phase = "analyzed", NEW i \in Numbers
    PROVE  LookupNode(NodeAt(i)) = IF IsHead(i) THEN {NodeAt(i)} ELSE {NodeAt(attrs[i].header)} \ {Root}
<1>1. /\ Searched /\ NodeAt(0) = Root /\ 0 \in Numbers /\ Headers \subseteq graph.node
      /\ \A k \in Numbers : NodeAt(k) \in Headers <=> IsHead(k)
      /\ attrs[i].header \in Numbers
  BY AnalyzedFacts
<1>2. /\ \A n \in graph.node : NumberOf(n) \in Numbers /\ NodeAt(NumberOf(n)) = n
      /\ \A k \in Numbers : NodeAt(k) \in graph.node /\ NumberOf(NodeAt(k)) = k
  BY <1>1, NodesAndNumbers
<1>3. CASE IsHead(i)
  BY <1>1, <1>3 DEF LookupNode
<1>4. CASE ~IsHead(i)
  <2>1. LookupNode(NodeAt(i)) = {h \in Headers : NodeAt(i) \in BodyNodes(h)}
    BY <1>1, <1>4 DEF LookupNode
  <2>2. ASSUME NEW n PROVE n \in LookupNode(NodeAt(i)) <=> n \in {NodeAt(attrs[i].header)} \ {Root}
    <3>1. ASSUME n \in LookupNode(NodeAt(i)) PROVE n \in {NodeAt(attrs[i].header)} \ {Root}
      <4>1. n \in Headers /\ NodeAt(i) \in BodyNodes(n) /\ n = NodeAt(NumberOf(n)) /\ NumberOf(n) \in Numbers
        BY <1>1, <1>2, <2>1, <3>1
      <4>2. IsHead(NumberOf(n))
        BY <1>1, <4>1
      <4>3. attrs[i].header = NumberOf(n)
        BY <4>1, <4>2, BodyByNumber
      <4>4. ~IsHead(0)
        BY AnalyzedFacts
      <4> QED  BY <1>1, <1>2, <4>1, <4>2, <4>3, <4>4
    <3>2. ASSUME n = NodeAt(attrs[i].header), n # Root PROVE n \in LookupNode(NodeAt(i))
      <4>1. attrs[i].header # 0
        BY <1>1, <3>2
      <4>2. InLoop(i, attrs[i].header)
        BY <4>1, HeaderIsLastHead
      <4>3. IsHead(attrs[i].header) /\ i # 0
        <5>1. IsHead(attrs[i].header) /\ attrs[i].header <= i /\ Numbers \subseteq Nat
          BY <1>1, <4>2, LoopsByNumber, NodesAndNumbers
        <5> QED  BY <1>1, <4>1, <5>1
      <4>4. NodeAt(i) \in BodyNodes(n)
        BY <1>1, <3>2, <4>3, BodyByNumber
      <4> QED  BY <1>1, <2>1, <3>2, <4>3, <4>4
    <3> QED  BY <3>1, <3>2
  <2>3. LookupNode(NodeAt(i)) = {NodeAt(attrs[i].header)} \ {Root}
    BY <2>2
  <2> QED  BY <1>4, <2>3
<1> QED  BY <1>3, <1>4

\* The loop tree is the nesting of the natural loops, and lookup_node returns the innermost
\* loop of a node (_build_loop_tree, LoopInfo).
THEOREM LoopNestIsCorrect == Spec => []LoopNestCorrect
<1> DEFINE nest == NaturalLoops(graph)
           InfoOf(loop) ==
             [parent    |-> InnermostHead(Around(nest, loop.head) \ {loop}, Root),
              type      |-> IF loop.tails = {loop.head} THEN "self" ELSE "reducible",
              backPreds |-> loop.tails,
              nonheader |-> {n \in loop.nodes \ Headers :
                               InnermostHead(Around(nest, n), Root) = loop.head}]
<1> HIDE DEF InfoOf
<1>1. ASSUME InductiveInvariant, phase = "analyzed"
      PROVE  /\ Headers = {loop.head : loop \in nest}
             /\ \A loop \in nest : loops[loop.head] = InfoOf(loop)
             /\ \A n \in graph.node : LookupNode(n) = {InnermostHead(Around(nest, n), Root)} \ {Root}
  <2>1. /\ Searched /\ Reducible(graph) /\ Numbers \subseteq Nat
        /\ 0 \in Numbers /\ NodeAt(0) = Root /\ ~IsHead(0)
        /\ \A i \in Numbers : /\ attrs[i].type = TypeFound(i)
                              /\ attrs[i].backPreds = TailNumbers(i)
                              /\ attrs[i].header \in Numbers
                              /\ IsHead(i) <=> TailNumbers(i) # {}
        /\ Headers \subseteq graph.node
        /\ \A i \in Numbers : NodeAt(i) \in Headers <=> IsHead(i)
        /\ \A i \in Numbers : IsHead(i) => loops[NodeAt(i)] = LoopInfoOf(i)
    BY <1>1, AnalyzedFacts
  <2>2. /\ \A n \in graph.node : NumberOf(n) \in Numbers /\ NodeAt(NumberOf(n)) = n
        /\ \A k \in Numbers : NodeAt(k) \in graph.node /\ NumberOf(NodeAt(k)) = k
    BY <2>1, NodesAndNumbers
  <2>3. ASSUME NEW loop \in nest
        PROVE  /\ loop.head \in graph.node /\ IsHead(NumberOf(loop.head))
               /\ loop.tails = TailsOf(graph, loop.head) /\ loop.nodes \subseteq graph.node
               /\ \A k \in Numbers : NodeAt(k) \in loop.nodes <=> InLoop(k, NumberOf(loop.head))
    <3>1. loop.head \in graph.node /\ NumberOf(loop.head) \in Numbers
          /\ \A k \in Numbers : NodeAt(k) \in loop.nodes <=> InLoop(k, NumberOf(loop.head))
      BY <2>1, <2>2, LoopsAround
    <3>2. loop.tails = TailsOf(graph, loop.head) /\ loop.nodes = LoopOf(graph, loop.head)
      BY NaturalLoopsAreLoops
    <3>3. loop.nodes \subseteq graph.node
      BY <2>1, <3>1, <3>2, LoopFacts DEF Searched
    <3>4. IsHead(NumberOf(loop.head))
      BY <2>2, <3>1 DEF IsHead
    <3> QED  BY <3>1, <3>2, <3>3, <3>4
  <2>4. Headers = {loop.head : loop \in nest}
    <3>1. ASSUME NEW n \in Headers PROVE \E loop \in nest : loop.head = n
      <4>1. IsHead(NumberOf(n)) /\ NodeAt(NumberOf(n)) = n
        BY <2>1, <2>2, <3>1
      <4> QED  BY <4>1 DEF IsHead
    <3>2. ASSUME NEW loop \in nest PROVE loop.head \in Headers
      <4>1. NumberOf(loop.head) \in Numbers /\ NodeAt(NumberOf(loop.head)) = loop.head
        BY <2>2, <2>3, <3>2
      <4> QED  BY <2>1, <2>3, <3>2, <4>1
    <3> QED  BY <3>1, <3>2
  <2>5. ASSUME NEW loop \in nest PROVE loops[loop.head] = InfoOf(loop)
    <3>1. PICK h \in Numbers : NodeAt(h) = loop.head /\ NumberOf(loop.head) = h
      BY <2>2, <2>3
    <3>2. IsHead(h) /\ loops[loop.head] = LoopInfoOf(h)
      BY <2>1, <2>3, <3>1
    <3>3. HeaderNode(h) = InnermostHead(Around(nest, loop.head) \ {loop}, Root)
      <4>1. \A other \in nest : other.head = loop.head => other = loop
        BY NaturalLoopsAreLoops
      <4>2. Around(nest, loop.head) \ {loop} = {other \in Around(nest, loop.head) : other.head # NodeAt(h)}
        BY <3>1, <4>1 DEF Around
      <4> QED  BY <1>1, <3>1, <4>2, HeaderIsInnermost DEF HeaderNode
    <3>4. {NodeAt(v) : v \in attrs[h].backPreds} = loop.tails
      BY <2>1, <2>3, <3>1, ReducibleLoops
    <3>5. attrs[h].type = IF loop.tails = {loop.head} THEN "self" ELSE "reducible"
      <4>1. attrs[h].type = TypeFound(h) /\ TailNumbers(h) # {} /\ TailNumbers(h) \subseteq Numbers
        BY <2>1, <3>2, TailFacts
      <4>2. loop.tails = {NodeAt(v) : v \in TailNumbers(h)}
        BY <2>1, <2>3, <3>1, ReducibleLoops
      <4>3. TailNumbers(h) \ {h} = {} <=> loop.tails = {loop.head}
        <5>1. ASSUME TailNumbers(h) \ {h} = {} PROVE loop.tails = {loop.head}
          <6>1. TailNumbers(h) = {h}
            BY <4>1, <5>1
          <6> QED  BY <3>1, <4>2, <6>1
        <5>2. ASSUME NEW v \in TailNumbers(h) \ {h} PROVE loop.tails # {loop.head}
          <6>1. NodeAt(v) \in loop.tails /\ NodeAt(v) # NodeAt(h)
            BY <2>2, <4>1, <4>2, <5>2
          <6> QED  BY <3>1, <6>1
        <5> QED  BY <5>1, <5>2
      <4> QED  BY <4>1, <4>3 DEF TypeFound
    <3>6. loops[loop.head].nonheader =
            {n \in loop.nodes \ Headers : InnermostHead(Around(nest, n), Root) = loop.head}
      <4>1. ASSUME NEW k \in Numbers
            PROVE  NodeAt(k) \in loops[loop.head].nonheader <=>
                     /\ NodeAt(k) \in loop.nodes \ Headers
                     /\ InnermostHead(Around(nest, NodeAt(k)), Root) = loop.head
        <5>1. NodeAt(k) \in loops[loop.head].nonheader <=> k # 0 /\ ~IsHead(k) /\ attrs[k].header = h
          BY <1>1, <3>1, <3>2, BodyByNumber
        <5>2. NodeAt(k) \in loop.nodes <=> InLoop(k, h)
          BY <2>3, <3>1
        <5>3. ~IsHead(k) => InnermostHead(Around(nest, NodeAt(k)), Root) = NodeAt(attrs[k].header)
          BY <1>1, HeaderIsInnermost
        <5>4. NodeAt(attrs[k].header) = NodeAt(h) <=> attrs[k].header = h
          <6>1. attrs[k].header \in Numbers
            BY <2>1
          <6>2. NumberOf(NodeAt(attrs[k].header)) = attrs[k].header /\ NumberOf(NodeAt(h)) = h
            BY <2>2, <6>1
          <6> QED  BY <6>2
        <5>5. h # 0
          BY <2>1, <3>2
        <5>6. attrs[k].header = h => InLoop(k, h)
          BY <1>1, <5>5, HeaderIsLastHead
        <5>7. InLoop(k, h) => k # 0
          <6>1. InLoop(k, h) => h <= k
            BY <1>1, HeaderIsLastHead
          <6> QED  BY <2>1, <5>5, <6>1
        <5> QED  BY <2>1, <3>1, <5>1, <5>2, <5>3, <5>4, <5>6, <5>7
      <4>2. loops[loop.head].nonheader \subseteq graph.node
        BY <1>1, <3>1, <3>2, BodyByNumber
      <4>3. \A n \in graph.node : n \in loops[loop.head].nonheader <=>
                     /\ n \in loop.nodes \ Headers
                     /\ InnermostHead(Around(nest, n), Root) = loop.head
        BY <2>2, <4>1
      <4> QED  BY <2>3, <4>2, <4>3
    <3>7. LoopInfoOf(h) = [parent    |-> HeaderNode(h),
                           type      |-> attrs[h].type,
                           backPreds |-> {NodeAt(v) : v \in attrs[h].backPreds},
                           nonheader |-> LoopInfoOf(h).nonheader]
      BY DEF LoopInfoOf
    <3> QED  BY <3>2, <3>3, <3>4, <3>5, <3>6, <3>7 DEF InfoOf
  <2>6. ASSUME NEW n \in graph.node
        PROVE  LookupNode(n) = {InnermostHead(Around(nest, n), Root)} \ {Root}
    <3>1. PICK i \in Numbers : NodeAt(i) = n
      BY <2>2
    <3>2. LookupNode(n) = IF IsHead(i) THEN {NodeAt(i)} ELSE {NodeAt(attrs[i].header)} \ {Root}
      BY <1>1, <3>1, LookupByNumber
    <3>3. InnermostHead(Around(nest, n), Root) = IF IsHead(i) THEN NodeAt(i) ELSE NodeAt(attrs[i].header)
      BY <1>1, <3>1, HeaderIsInnermost
    <3>4. IsHead(i) => NodeAt(i) # Root
      BY <2>1, <2>2
    <3> QED  BY <3>2, <3>3, <3>4
  <2> QED  BY <2>4, <2>5, <2>6
<1>2. InductiveInvariant => LoopNestCorrect
  BY <1>1 DEF LoopNestCorrect, InfoOf
<1> QED  BY <1>2, InvariantHolds, PTL

\* The exit edges of a loop are the edges that leave it from nodes it is the innermost loop
\* of: no inner loop is taken for the outside (get_exit_edges).
THEOREM ExitEdgesAreLeaving == Spec => []ExitEdgesLeave
<1>1. ASSUME InductiveInvariant, phase = "analyzed", NEW loop \in NaturalLoops(graph), NEW e \in graph.edge
      PROVE  e \in ExitEdges(loop.head) <=>
               /\ e[1] \in loop.nodes /\ e[2] \notin loop.nodes
               /\ LookupNode(e[1]) = {loop.head}
  <2>1. /\ Searched /\ Numbers \subseteq Nat /\ NodeAt(0) = Root /\ ~IsHead(0) /\ 0 \in Numbers
        /\ \A i \in Numbers : attrs[i].header \in Numbers
    BY <1>1, AnalyzedFacts
  <2>2. /\ \A n \in graph.node : NumberOf(n) \in Numbers /\ NodeAt(NumberOf(n)) = n
        /\ \A k \in Numbers : NodeAt(k) \in graph.node /\ NumberOf(NodeAt(k)) = k
    BY <2>1, NodesAndNumbers
  <2>3. PICK j \in Numbers, k \in Numbers : NodeAt(j) = e[1] /\ NodeAt(k) = e[2] /\ j \in PredNumbers(k)
    <3>1. e[1] \in graph.node /\ e[2] \in graph.node /\ e = <<e[1], e[2]>>
      BY <2>1 DEF Searched, IsFlowGraph
    <3> QED  BY <2>1, <2>2, <3>1, PredFacts
  <2>4. /\ loop.head \in graph.node /\ NumberOf(loop.head) \in Numbers
        /\ \A i \in Numbers : NodeAt(i) \in loop.nodes <=> InLoop(i, NumberOf(loop.head))
    BY <2>1, LoopsAround
  <2>5. PICK h \in Numbers : NodeAt(h) = loop.head /\ NumberOf(loop.head) = h
    BY <2>2, <2>4
  <2>6. IsHead(h) /\ h # 0
    BY <2>1, <2>2, <2>5 DEF IsHead
  <2>7. /\ e[1] \in loop.nodes <=> InLoop(j, h)
        /\ e[2] \in loop.nodes <=> InLoop(k, h)
    BY <2>3, <2>4, <2>5
  <2>8. /\ e[1] \in loops[loop.head].nonheader <=> j # 0 /\ ~IsHead(j) /\ attrs[j].header = h
        /\ e[2] \in BodyNodes(loop.head) <=> k # 0 /\ attrs[k].header = h
    BY <1>1, <2>3, <2>5, <2>6, BodyByNumber
  <2>9. e[1] = loop.head <=> j = h
    BY <2>2, <2>3, <2>5
  <2>10. e[2] = loop.head <=> k = h
    BY <2>2, <2>3, <2>5
  <2>11. LookupNode(e[1]) = IF IsHead(j) THEN {NodeAt(j)} ELSE {NodeAt(attrs[j].header)} \ {Root}
    BY <1>1, <2>3, LookupByNumber
  <2>12. /\ attrs[j].header = h => InLoop(j, h)
         /\ attrs[k].header = h => InLoop(k, h)
         /\ \A c \in Numbers \ {j} : InLoop(j, c) => c <= attrs[j].header
         /\ \A c \in Numbers \ {k} : InLoop(k, c) => InLoop(k, attrs[k].header) /\ c <= attrs[k].header
                                                     /\ attrs[k].header # k
         /\ \A c \in Numbers : InLoop(j, c) => c # 0 /\ c <= j
         /\ \A c \in Numbers : InLoop(k, c) => c # 0 /\ c <= k
    BY <1>1, <2>6, HeaderIsLastHead
  <2>13. InLoop(h, h)
    BY <2>1, <2>6, LoopsByNumber
  <2> DEFINE innermost == (~IsHead(j) /\ attrs[j].header = h) \/ j = h
  <2>14. LookupNode(e[1]) = {loop.head} <=> innermost
    <3>1. CASE IsHead(j)
      BY <2>2, <2>5, <2>11, <3>1
    <3>2. CASE ~IsHead(j)
      <4>1. j # h
        BY <2>6, <3>2
      <4>2. NodeAt(attrs[j].header) = NodeAt(h) <=> attrs[j].header = h
        BY <2>1, <2>2
      <4>3. NodeAt(h) # Root
        BY <2>1, <2>2, <2>6
      <4> QED  BY <2>5, <2>11, <3>2, <4>1, <4>2, <4>3
    <3> QED  BY <3>1, <3>2
  <2>15. InLoop(j, h) => j # 0
    BY <2>1, <2>6, <2>12
  <2>16. e[1] \in loops[loop.head].nonheader \cup {loop.head} <=> innermost
    BY <2>8, <2>9, <2>12, <2>15
  <2>17. innermost => e[1] \in loop.nodes
    BY <2>7, <2>12, <2>13
  <2>18. e[2] \in BodyNodes(loop.head) \cup {loop.head} => e[2] \in loop.nodes
    BY <2>7, <2>8, <2>10, <2>12, <2>13
  <2>19. ASSUME innermost, InLoop(k, h), k # h PROVE attrs[k].header = h /\ k # 0
    <3>1. k # 0
      BY <2>1, <2>6, <2>12, <2>19
    <3>2. /\ attrs[k].header \in Numbers /\ InLoop(k, attrs[k].header) /\ h <= attrs[k].header
          /\ attrs[k].header # k
      BY <2>1, <2>12, <2>19
    <3>3. InLoop(j, attrs[k].header) /\ IsHead(attrs[k].header)
      BY <2>1, <2>3, <3>2, LoopsByNumber
    <3>4. attrs[k].header <= h
      <4>1. CASE j = h
        BY <2>12, <3>2, <3>3, <4>1
      <4>2. CASE j # h
        <5>1. ~IsHead(j) /\ attrs[j].header = h
          BY <2>19, <4>2
        <5> QED  BY <2>12, <3>2, <3>3, <5>1
      <4> QED  BY <4>1, <4>2
    <3>5. attrs[k].header \in Nat /\ h \in Nat
      BY <2>1, <3>2
    <3> QED  BY <3>1, <3>2, <3>4, <3>5
  <2>20. innermost /\ e[2] \in loop.nodes => e[2] \in BodyNodes(loop.head) \cup {loop.head}
    BY <2>7, <2>8, <2>10, <2>19
  <2>21. e \in ExitEdges(loop.head) <=>
           /\ e[1] \in loops[loop.head].nonheader \cup {loop.head}
           /\ e[2] \notin BodyNodes(loop.head) \cup {loop.head}
    BY DEF ExitEdges
  <2> HIDE DEF innermost
  <2> QED  BY <2>14, <2>16, <2>17, <2>18, <2>20, <2>21
<1>2. ASSUME InductiveInvariant, phase = "analyzed", NEW loop \in NaturalLoops(graph)
      PROVE  ExitEdges(loop.head) = {e \in LeavingEdges(loop) : LookupNode(e[1]) = {loop.head}}
  <2>1. \A e : e \in ExitEdges(loop.head) => e \in graph.edge
    BY DEF ExitEdges
  <2>2. \A e : e \in LeavingEdges(loop) <=> e \in graph.edge /\ e[1] \in loop.nodes /\ e[2] \notin loop.nodes
    BY DEF LeavingEdges
  <2> QED  BY <1>1, <1>2, <2>1, <2>2
<1>3. InductiveInvariant => ExitEdgesLeave
  BY <1>2 DEF ExitEdgesLeave
<1> QED  BY <1>3, InvariantHolds, PTL

-----------------------------------------------------------------------------
(* The nest of the natural loops.                                          *)

IsNest(g) ==
    /\ HeadsOf(g) \subseteq g.node /\ g.edge \subseteq g.node \X g.node
    /\ \A h \in HeadsOf(g) :
        /\ h \in LoopOf(g, h) /\ LoopOf(g, h) \subseteq g.node
        /\ TailsOf(g, h) \subseteq LoopOf(g, h)
    /\ \A h, k \in HeadsOf(g) : k \in LoopOf(g, h) /\ k # h
          => LoopOf(g, k) \subseteq LoopOf(g, h) /\ h \notin LoopOf(g, k)
    /\ \A h, k \in HeadsOf(g) : \A n \in LoopOf(g, h) :
          n \in LoopOf(g, k) => k \in LoopOf(g, h) \/ h \in LoopOf(g, k)
    /\ \A h \in HeadsOf(g) : \A e \in g.edge :
        /\ e[2] \in LoopOf(g, h) \ {h} => e[1] \in LoopOf(g, h)
        /\ e[2] = h /\ e[1] \in LoopOf(g, h) => e[1] \in TailsOf(g, h)

\* Two loops are nested or disjoint, and are entered at their heads only.
LEMMA LoopsAreNest ==
    ASSUME NEW g, IsFlowGraph(g), NEW num, NEW end, IsSearch(g, num, end)
    PROVE  IsNest(g)
<1>1. g.edge \subseteq g.node \X g.node /\ IsRooted(g)
  BY FlowGraphIsRooted DEF IsFlowGraph
<1>2. HeadsOf(g) \subseteq g.node
  BY <1>1 DEF HeadsOf, BackEdges
<1>3. ASSUME NEW h \in HeadsOf(g)
      PROVE  h \in LoopOf(g, h) /\ LoopOf(g, h) \subseteq g.node /\ TailsOf(g, h) \subseteq LoopOf(g, h)
  BY <1>2, LoopFacts
<1>4. ASSUME NEW h \in HeadsOf(g), NEW k \in HeadsOf(g), k \in LoopOf(g, h), k # h
      PROVE  LoopOf(g, k) \subseteq LoopOf(g, h) /\ h \notin LoopOf(g, k)
  <2>1. h \in g.node /\ k \in LoopOf(g, h) \ {h}
    BY <1>2, <1>4
  <2> QED  BY <2>1, LoopsNest
<1>5. ASSUME NEW h \in HeadsOf(g), NEW k \in HeadsOf(g), NEW n \in LoopOf(g, h), n \in LoopOf(g, k)
      PROVE  k \in LoopOf(g, h) \/ h \in LoopOf(g, k)
  <2>1. h \in g.node /\ k \in g.node /\ num[h] \in Nat /\ num[k] \in Nat
        /\ (num[h] = num[k] => h = k)
    BY <1>2 DEF IsSearch
  <2>2. CASE num[h] < num[k]
    BY <1>5, <2>1, <2>2, LoopsNestOrAreDisjoint
  <2>3. CASE num[k] < num[h]
    BY <1>5, <2>1, <2>3, LoopsNestOrAreDisjoint
  <2>4. CASE num[k] = num[h]
    BY <1>3, <2>1, <2>4
  <2> QED  BY <2>1, <2>2, <2>3, <2>4
<1>6. ASSUME NEW h \in HeadsOf(g), NEW e \in g.edge
      PROVE  /\ e[2] \in LoopOf(g, h) \ {h} => e[1] \in LoopOf(g, h)
             /\ e[2] = h /\ e[1] \in LoopOf(g, h) => e[1] \in TailsOf(g, h)
  <2>1. h \in g.node
    BY <1>2
  <2>2. e[2] \in LoopOf(g, h) \ {h} => e[1] \in LoopOf(g, h)
    BY <2>1, LoopFacts
  <2>3. ASSUME e[2] = h, e[1] \in LoopOf(g, h) PROVE e[1] \in TailsOf(g, h)
    <3>1. Dominates(g, e[2], e[1])
      BY <2>1, <2>3, HeadDominatesLoop
    <3> QED  BY <2>3, <3>1 DEF TailsOf, BackEdges
  <2> QED  BY <2>2, <2>3
<1> QED  BY <1>1, <1>2, <1>3, <1>4, <1>5, <1>6 DEF IsNest

\* The outermost of the loops with heads in S around a node.
IsOutermost(g, S, x, h) ==
    /\ h \in S /\ x \in LoopOf(g, h)
    /\ \A k \in S : x \in LoopOf(g, k) => k \in LoopOf(g, h)

LEMMA OutermostExists ==
    ASSUME NEW g, IsFlowGraph(g), NEW num, NEW end, IsSearch(g, num, end),
           NEW S \in SUBSET HeadsOf(g), NEW x, NEW m \in S, x \in LoopOf(g, m)
    PROVE  \E h : IsOutermost(g, S, x, h)
<1> DEFINE A == {h \in S : x \in LoopOf(g, h)}
<1>1. S \subseteq g.node /\ \A h \in S : h \in LoopOf(g, h)
  BY LoopsAreNest DEF IsNest
<1>2. num \in [g.node -> Nat] /\ \A a, b \in g.node : num[a] = num[b] => a = b
  BY DEF IsSearch
<1>3. PICK h \in A : \A k \in A : num[h] <= num[k]
  <2>1. A \in SUBSET g.node /\ A # {}
    BY <1>1
  <2> HIDE DEF A
  <2> QED  BY <1>2, <2>1, LeastByValue
<1>4. ASSUME NEW k \in S, x \in LoopOf(g, k) PROVE k \in LoopOf(g, h)
  <2>1. h \in g.node /\ k \in g.node /\ num[h] <= num[k] /\ num[h] \in Nat /\ num[k] \in Nat
    BY <1>1, <1>2, <1>3, <1>4
  <2>2. CASE num[h] < num[k]
    BY <1>3, <1>4, <2>1, <2>2, LoopsNestOrAreDisjoint
  <2>3. CASE num[h] = num[k]
    BY <1>1, <1>2, <2>1, <2>3
  <2> QED  BY <2>1, <2>2, <2>3
<1> QED  BY <1>3, <1>4 DEF IsOutermost

LEMMA OutermostIsOne ==
    ASSUME NEW g, IsNest(g), NEW S \in SUBSET HeadsOf(g), NEW x,
           NEW h, NEW k, IsOutermost(g, S, x, h), IsOutermost(g, S, x, k)
    PROVE  h = k
BY DEF IsOutermost, IsNest

-----------------------------------------------------------------------------
(* Nodes go into the surrogates of the loops around them.                  *)

\* Each of the nodes in D goes into the surrogate s of the outermost of the loops S around
\* it, or stays what it is.
IsImage(g, D, S, s, I) ==
    \A x \in D :
        \/ I[x] = x /\ \A h \in S : x \notin LoopOf(g, h)
        \/ \E h : IsOutermost(g, S, x, h) /\ I[x] = s[h]

IsFresh(g, S, s) ==
    \A h \in S : s[h] \notin g.node /\ \A k \in S : s[k] = s[h] => k = h

\* The loops inside the one with head h are in S, that one and those around it are not.
IsNext(g, S, h) ==
    /\ S \subseteq HeadsOf(g) /\ h \in HeadsOf(g) \ S
    /\ \A k \in S : \A m \in HeadsOf(g) : m \in LoopOf(g, k) => m \in S
    /\ \A m \in HeadsOf(g) : m \in LoopOf(g, h) => m = h \/ m \in S

LEMMA ImageOf ==
    ASSUME NEW g, IsNest(g), NEW D, NEW S \in SUBSET HeadsOf(g), NEW s, NEW I,
           IsImage(g, D, S, s, I), NEW x \in D
    PROVE  /\ \A h : IsOutermost(g, S, x, h) => I[x] = s[h]
           /\ (\A h \in S : x \notin LoopOf(g, h)) => I[x] = x
<1>1. \/ I[x] = x /\ \A h \in S : x \notin LoopOf(g, h)
      \/ \E h : IsOutermost(g, S, x, h) /\ I[x] = s[h]
  BY DEF IsImage
<1>2. \A h : IsOutermost(g, S, x, h) => h \in S /\ x \in LoopOf(g, h)
  BY DEF IsOutermost
<1>3. \A h, k : IsOutermost(g, S, x, h) /\ IsOutermost(g, S, x, k) => h = k
  BY OutermostIsOne
<1> QED  BY <1>1, <1>2, <1>3

LEMMA ImageIsOne ==
    ASSUME NEW g, IsNest(g), NEW D, NEW S \in SUBSET HeadsOf(g), NEW s, NEW I, NEW J,
           IsImage(g, D, S, s, I), IsImage(g, D, S, s, J)
    PROVE  \A x \in D : I[x] = J[x]
<1>1. SUFFICES ASSUME NEW x \in D PROVE I[x] = J[x]
  OBVIOUS
<1>2. \/ I[x] = x /\ \A h \in S : x \notin LoopOf(g, h)
      \/ \E h : IsOutermost(g, S, x, h) /\ I[x] = s[h]
  BY DEF IsImage
<1>3. /\ \A h : IsOutermost(g, S, x, h) => J[x] = s[h]
      /\ (\A h \in S : x \notin LoopOf(g, h)) => J[x] = x
  BY ImageOf
<1> QED  BY <1>2, <1>3

\* Around a node of the next loop there are no loops of S but those inside it.
LEMMA InsideNext ==
    ASSUME NEW g, IsNest(g), NEW S, NEW h, IsNext(g, S, h)
    PROVE  /\ \A k \in S : h \notin LoopOf(g, k)
           /\ \A x \in LoopOf(g, h) : \A k \in S : x \in LoopOf(g, k)
                => /\ k \in LoopOf(g, h) /\ k # h
                   /\ LoopOf(g, k) \subseteq LoopOf(g, h) /\ h \notin LoopOf(g, k)
<1>1. \A k \in S : h \notin LoopOf(g, k)
  BY DEF IsNext
<1>2. ASSUME NEW x \in LoopOf(g, h), NEW k \in S, x \in LoopOf(g, k)
      PROVE  /\ k \in LoopOf(g, h) /\ k # h
             /\ LoopOf(g, k) \subseteq LoopOf(g, h) /\ h \notin LoopOf(g, k)
  <2>1. h \in HeadsOf(g) /\ k \in HeadsOf(g) /\ k # h
    BY DEF IsNext
  <2>2. k \in LoopOf(g, h)
    BY <1>1, <1>2, <2>1 DEF IsNest
  <2> QED  BY <1>1, <2>1, <2>2 DEF IsNest
<1> QED  BY <1>1, <1>2

\* Nothing outside the next loop has the image of a node in it, and its head is its own.
LEMMA NextIsSaturated ==
    ASSUME NEW g, IsNest(g), NEW S, NEW h, IsNext(g, S, h), NEW s, IsFresh(g, S, s),
           NEW I, IsImage(g, g.node, S, s, I)
    PROVE  /\ \A x \in LoopOf(g, h), y \in g.node : I[x] = I[y] => y \in LoopOf(g, h)
           /\ I[h] = h /\ \A y \in g.node : I[y] = h => y = h
<1>1. /\ h \in LoopOf(g, h) /\ LoopOf(g, h) \subseteq g.node /\ S \subseteq HeadsOf(g)
  BY DEF IsNest, IsNext
<1>2. ASSUME NEW x \in LoopOf(g, h), NEW y \in g.node, I[x] = I[y]
      PROVE  y \in LoopOf(g, h)
  <2>1. x \in g.node
    BY <1>1
  <2>2. \/ I[y] = y
        \/ \E k : IsOutermost(g, S, y, k) /\ I[y] = s[k]
    BY DEF IsImage
  <2>3. CASE I[x] = x
    <3>1. ASSUME NEW k, IsOutermost(g, S, y, k), I[y] = s[k] PROVE FALSE
      BY <1>2, <2>1, <2>3, <3>1 DEF IsFresh, IsOutermost
    <3> QED  BY <1>2, <2>2, <2>3, <3>1
  <2>4. CASE \E k : IsOutermost(g, S, x, k) /\ I[x] = s[k]
    <3>1. PICK k : IsOutermost(g, S, x, k) /\ I[x] = s[k]
      BY <2>4
    <3>2. k \in S /\ x \in LoopOf(g, k)
      BY <3>1 DEF IsOutermost
    <3>3. I[y] # y
      BY <1>2, <3>1, <3>2 DEF IsFresh
    <3>4. PICK m : IsOutermost(g, S, y, m) /\ I[y] = s[m]
      BY <2>2, <3>3
    <3>5. m \in S /\ y \in LoopOf(g, m)
      BY <3>4 DEF IsOutermost
    <3>6. m = k
      BY <1>2, <3>1, <3>2, <3>4, <3>5 DEF IsFresh
    <3> QED  BY <3>2, <3>5, <3>6, InsideNext
  <2> QED  BY <2>1, <2>3, <2>4 DEF IsImage
<1>3. I[h] = h
  <2>1. h \in g.node /\ S \in SUBSET HeadsOf(g)
    BY <1>1
  <2>2. \A k \in S : h \notin LoopOf(g, k)
    BY InsideNext
  <2>3. \A k : ~IsOutermost(g, S, h, k)
    BY <2>2 DEF IsOutermost
  <2> QED  BY <2>1, <2>3 DEF IsImage
<1>4. ASSUME NEW y \in g.node, I[y] = h PROVE y = h
  <2>1. h \in g.node
    BY <1>1
  <2>2. ASSUME NEW k, IsOutermost(g, S, y, k), I[y] = s[k] PROVE FALSE
    BY <1>4, <2>1, <2>2 DEF IsFresh, IsOutermost
  <2>3. I[y] = y
    BY <2>2 DEF IsImage
  <2> QED  BY <1>4, <2>3
<1> QED  BY <1>2, <1>3, <1>4

\* When the next loop gets a surrogate too, its nodes go into that, and the others stay.
LEMMA NextImage ==
    ASSUME NEW g, IsNest(g), NEW S, NEW h, IsNext(g, S, h), NEW s, NEW t, NEW D,
           NEW I, IsImage(g, D, S, s, I), \A k \in S : t[k] = s[k],
           NEW J, \A x \in D : J[x] = IF x \in LoopOf(g, h) THEN t[h] ELSE I[x]
    PROVE  IsImage(g, D, S \cup {h}, t, J)
<1>1. SUFFICES ASSUME NEW x \in D
               PROVE  \/ J[x] = x /\ \A k \in S \cup {h} : x \notin LoopOf(g, k)
                      \/ \E k : IsOutermost(g, S \cup {h}, x, k) /\ J[x] = t[k]
  BY DEF IsImage
<1>2. CASE x \in LoopOf(g, h)
  <2>1. h \in LoopOf(g, h)
    BY DEF IsNext, IsNest
  <2>2. IsOutermost(g, S \cup {h}, x, h)
    BY <1>2, <2>1, InsideNext DEF IsOutermost
  <2> QED  BY <1>2, <2>2
<1>3. CASE x \notin LoopOf(g, h)
  <2>1. J[x] = I[x]
    BY <1>3
  <2>2. CASE I[x] = x /\ \A k \in S : x \notin LoopOf(g, k)
    BY <1>3, <2>1, <2>2
  <2>3. CASE \E k : IsOutermost(g, S, x, k) /\ I[x] = s[k]
    <3>1. PICK k : IsOutermost(g, S, x, k) /\ I[x] = s[k]
      BY <2>3
    <3>2. IsOutermost(g, S \cup {h}, x, k) /\ k \in S
      BY <1>3, <3>1 DEF IsOutermost
    <3> QED  BY <2>1, <3>1, <3>2
  <2> QED  BY <2>2, <2>3 DEF IsImage
<1> QED  BY <1>2, <1>3

\* The image of a node of the next loop is that by the loops inside it.
LEMMA InnerImage ==
    ASSUME NEW g, IsNest(g), NEW S, NEW h, IsNext(g, S, h), NEW s,
           NEW I, IsImage(g, g.node, S, s, I)
    PROVE  IsImage(g, LoopOf(g, h), (HeadsOf(g) \cap LoopOf(g, h)) \ {h}, s, I)
<1> DEFINE R == (HeadsOf(g) \cap LoopOf(g, h)) \ {h}
<1>1. SUFFICES ASSUME NEW x \in LoopOf(g, h)
               PROVE  \/ I[x] = x /\ \A k \in R : x \notin LoopOf(g, k)
                      \/ \E k : IsOutermost(g, R, x, k) /\ I[x] = s[k]
  BY DEF IsImage
<1>2. x \in g.node /\ R \subseteq S /\ S \subseteq HeadsOf(g)
  BY DEF IsNext, IsNest
<1>3. CASE I[x] = x /\ \A k \in S : x \notin LoopOf(g, k)
  BY <1>2, <1>3
<1>4. CASE \E k : IsOutermost(g, S, x, k) /\ I[x] = s[k]
  <2>1. PICK k : IsOutermost(g, S, x, k) /\ I[x] = s[k]
    BY <1>4
  <2>2. k \in R
    BY <1>2, <2>1, InsideNext DEF IsOutermost
  <2>3. IsOutermost(g, R, x, k)
    BY <1>2, <2>1, <2>2 DEF IsOutermost
  <2> QED  BY <2>1, <2>3
<1> QED  BY <1>2, <1>3, <1>4 DEF IsImage

-----------------------------------------------------------------------------
(* Collapsing one more loop.                                               *)

\* The nodes L, which are entered at h only, go by I into nodes of a graph whose other
\* nodes do not; T are the nodes that lead from L to h, and c is a new node.
IsCollapsible(N, E, L, h, T, I, R, c) ==
    /\ E \subseteq N \X N /\ L \subseteq N /\ h \in L /\ T \subseteq L
    /\ \A x \in L, y \in N : I[x] = I[y] => y \in L
    /\ I[h] = h /\ \A y \in N : I[y] = h => y = h
    /\ \A e \in E : /\ e[2] \in L \ {h} => e[1] \in L
                    /\ e[2] = h /\ e[1] \in L => e[1] \in T
    /\ h \notin R /\ c \notin R /\ \A x \in N : I[x] # c

\* The edges of that graph, the nodes L go into, and the edges that enter them.
AreEdges(E, L, h, T, I, R, edge, inner, entering) ==
    /\ edge = {<<I[e[1]], I[e[2]]>> : e \in E} \ {<<r, r>> : r \in R}
    /\ inner = {I[x] : x \in L}
    /\ entering = {e \in edge : e[2] = h} \ {<<I[b], h>> : b \in T}

LEMMA CollapsedEdges ==
    ASSUME NEW N, NEW E, NEW L, NEW h, NEW T, NEW I, NEW R, NEW c,
           IsCollapsible(N, E, L, h, T, I, R, c),
           NEW edge, NEW inner, NEW entering, AreEdges(E, L, h, T, I, R, edge, inner, entering)
    PROVE  /\ \A x \in N : I[x] \in inner <=> x \in L
           /\ \A e \in entering : \E a \in N \ L : <<a, h>> \in E /\ e = <<I[a], h>>
           /\ \A a \in N \ L : <<a, h>> \in E => <<I[a], h>> \in entering
<1>1. /\ E \subseteq N \X N /\ L \subseteq N /\ h \in L /\ T \subseteq L
      /\ \A x \in L, y \in N : I[x] = I[y] => y \in L
      /\ I[h] = h /\ (\A y \in N : I[y] = h => y = h)
      /\ h \notin R
  BY DEF IsCollapsible
<1> USE DEF AreEdges
<1>2. ASSUME NEW x \in N PROVE I[x] \in inner <=> x \in L
  BY <1>1
<1>3. ASSUME NEW e \in entering
      PROVE  \E a \in N \ L : <<a, h>> \in E /\ e = <<I[a], h>>
  <2>1. PICK d \in E : e = <<I[d[1]], I[d[2]]>>
    BY <1>3
  <2>2. d[1] \in N /\ d[2] \in N /\ d = <<d[1], d[2]>>
    BY <1>1
  <2>3. d[2] = h /\ I[d[2]] = h
    BY <1>1, <1>3, <2>1, <2>2
  <2>4. d[1] \notin T
    BY <1>3, <2>1, <2>3
  <2>5. d[1] \notin L
    BY <2>3, <2>4 DEF IsCollapsible
  <2> QED  BY <2>1, <2>2, <2>3, <2>5
<1>4. ASSUME NEW a \in N \ L, <<a, h>> \in E
      PROVE  <<I[a], h>> \in entering
  <2>1. <<I[a], h>> \in {<<I[e[1]], I[e[2]]>> : e \in E}
    BY <1>1, <1>4
  <2>2. <<I[a], h>> \notin {<<r, r>> : r \in R}
    BY <1>1
  <2>3. \A b \in T : I[b] # I[a]
    BY <1>1, <1>4
  <2>4. <<I[a], h>> \notin {<<I[b], h>> : b \in T}
    BY <2>3
  <2> QED  BY <2>1, <2>2, <2>4
<1> QED  BY <1>2, <1>3, <1>4

\* The nodes L go into c, with what enters and what leaves them.
AreCollapsed(N, L, I, c, J, node, edge, inner, entering, entries, exits) ==
    /\ node = {I[x] : x \in N}
    /\ \A x \in N : J[x] = IF x \in L THEN c ELSE I[x]
    /\ entries = {<<e[1], c>> : e \in entering}
    /\ exits = {<<c, e[2]>> : e \in {e \in edge : e[1] \in inner /\ e[2] \notin inner}}

\* So they do by J.
IsCollapse(N, E, J, R, c, node, edge, inner, entries, exits) ==
    /\ (node \ inner) \cup {c} \cup {e[1] : e \in entries} = {J[x] : x \in N}
    /\ {e \in edge : e[1] \notin inner /\ e[2] \notin inner} \cup entries \cup exits
         = {<<J[e[1]], J[e[2]]>> : e \in E} \ {<<r, r>> : r \in R \cup {c}}

LEMMA CollapsedGraph ==
    ASSUME NEW N, NEW E, NEW L, NEW h, NEW T, NEW I, NEW R, NEW c,
           IsCollapsible(N, E, L, h, T, I, R, c),
           NEW edge, NEW inner, NEW entering, AreEdges(E, L, h, T, I, R, edge, inner, entering),
           NEW J, NEW node, NEW entries, NEW exits,
           AreCollapsed(N, L, I, c, J, node, edge, inner, entering, entries, exits)
    PROVE  IsCollapse(N, E, J, R, c, node, edge, inner, entries, exits)
<1>1. /\ E \subseteq N \X N /\ L \subseteq N /\ h \in L
      /\ I[h] = h /\ h \notin R /\ c \notin R /\ (\A x \in N : I[x] # c)
      /\ \A e \in E : e[2] \in L \ {h} => e[1] \in L
  BY DEF IsCollapsible
<1>2. /\ \A x \in N : I[x] \in inner <=> x \in L
      /\ \A e \in entering : \E a \in N \ L : <<a, h>> \in E /\ e = <<I[a], h>>
      /\ \A a \in N \ L : <<a, h>> \in E => <<I[a], h>> \in entering
  BY CollapsedEdges
<1> USE DEF AreEdges, AreCollapsed
<1>4. /\ \A z \in entries : \E a \in N \ L : <<a, h>> \in E /\ z = <<I[a], c>>
      /\ \A a \in N \ L : <<a, h>> \in E => <<I[a], c>> \in entries
  <2>1. ASSUME NEW z \in entries PROVE \E a \in N \ L : <<a, h>> \in E /\ z = <<I[a], c>>
    <3>1. PICK e \in entering : z = <<e[1], c>>
      OBVIOUS
    <3>2. PICK a \in N \ L : <<a, h>> \in E /\ e = <<I[a], h>>
      BY <1>2
    <3> QED  BY <3>1, <3>2
  <2>2. ASSUME NEW a \in N \ L, <<a, h>> \in E PROVE <<I[a], c>> \in entries
    <3>1. <<I[a], h>> \in entering /\ <<I[a], h>>[1] = I[a]
      BY <1>2, <2>2
    <3> QED  BY <3>1
  <2> QED  BY <2>1, <2>2
<1>5. (node \ inner) \cup {c} \cup {e[1] : e \in entries} = {J[x] : x \in N}
  <2>1. ASSUME NEW z \in (node \ inner) \cup {c} \cup {e[1] : e \in entries}
        PROVE  z \in {J[x] : x \in N}
    <3>1. CASE z \in node \ inner
      <4>1. PICK x \in N : z = I[x]
        BY <3>1
      <4> QED  BY <1>2, <3>1, <4>1
    <3>2. CASE z = c
      BY <1>1, <3>2
    <3>3. CASE z \in {e[1] : e \in entries}
      <4>1. PICK e \in entries : z = e[1]
        BY <3>3
      <4>2. PICK a \in N \ L : e = <<I[a], c>>
        BY <1>4
      <4> QED  BY <4>1, <4>2
    <3> QED  BY <2>1, <3>1, <3>2, <3>3
  <2>2. ASSUME NEW x \in N PROVE J[x] \in (node \ inner) \cup {c}
    BY <1>2
  <2> QED  BY <2>1, <2>2
<1>6. ASSUME NEW z \in {e \in edge : e[1] \notin inner /\ e[2] \notin inner} \cup entries \cup exits
      PROVE  z \in {<<J[e[1]], J[e[2]]>> : e \in E} /\ z \notin {<<r, r>> : r \in R \cup {c}}
  <2>1. CASE z \in {e \in edge : e[1] \notin inner /\ e[2] \notin inner}
    <3>1. PICK e \in E : z = <<I[e[1]], I[e[2]]>>
      BY <2>1
    <3>2. e[1] \in N /\ e[2] \in N
      BY <1>1
    <3>3. e[1] \notin L /\ e[2] \notin L
      BY <1>2, <2>1, <3>1, <3>2
    <3>4. z = <<J[e[1]], J[e[2]]>> /\ I[e[1]] # c
      BY <1>1, <3>1, <3>2, <3>3
    <3>5. z \notin {<<r, r>> : r \in R}
      BY <2>1
    <3> QED  BY <3>1, <3>4, <3>5
  <2>2. CASE z \in entries
    <3>1. PICK a \in N \ L : <<a, h>> \in E /\ z = <<I[a], c>>
      BY <1>4, <2>2
    <3>2. h \in N /\ J[a] = I[a] /\ J[h] = c /\ I[a] # c
      BY <1>1
    <3>3. z = <<J[<<a, h>>[1]], J[<<a, h>>[2]]>>
      BY <3>1, <3>2
    <3> QED  BY <1>1, <3>1, <3>2, <3>3
  <2>3. CASE z \in exits
    <3>1. PICK y \in edge : y[1] \in inner /\ y[2] \notin inner /\ z = <<c, y[2]>>
      BY <2>3
    <3>2. PICK e \in E : y = <<I[e[1]], I[e[2]]>>
      BY <3>1
    <3>3. e[1] \in N /\ e[2] \in N
      BY <1>1
    <3>4. e[1] \in L /\ e[2] \notin L
      BY <1>2, <3>1, <3>2, <3>3
    <3>5. z = <<J[e[1]], J[e[2]]>> /\ I[e[2]] # c /\ z = <<c, I[e[2]]>>
      BY <1>1, <3>1, <3>2, <3>3, <3>4
    <3> QED  BY <1>1, <3>5
  <2> QED  BY <1>6, <2>1, <2>2, <2>3
<1>7. ASSUME NEW e \in E, <<J[e[1]], J[e[2]]>> \notin {<<r, r>> : r \in R \cup {c}}
      PROVE  <<J[e[1]], J[e[2]]>> \in
                 {d \in edge : d[1] \notin inner /\ d[2] \notin inner} \cup entries \cup exits
  <2>1. e[1] \in N /\ e[2] \in N /\ e = <<e[1], e[2]>>
    BY <1>1
  <2>2. <<I[e[1]], I[e[2]]>> \notin {<<r, r>> : r \in R} => <<I[e[1]], I[e[2]]>> \in edge
    OBVIOUS
  <2>3. CASE e[1] \notin L /\ e[2] \notin L
    <3>1. J[e[1]] = I[e[1]] /\ J[e[2]] = I[e[2]]
      BY <2>1, <2>3
    <3>2. <<I[e[1]], I[e[2]]>> \in edge
      BY <1>7, <2>2, <3>1
    <3>3. I[e[1]] \notin inner /\ I[e[2]] \notin inner
      BY <1>2, <2>1, <2>3
    <3> QED  BY <3>1, <3>2, <3>3
  <2>4. CASE e[1] \notin L /\ e[2] \in L
    <3>1. e[2] = h
      BY <1>1, <2>4
    <3>2. J[e[1]] = I[e[1]] /\ J[e[2]] = c
      BY <2>1, <2>4
    <3>3. <<I[e[1]], c>> \in entries
      BY <1>4, <2>1, <2>4, <3>1
    <3> QED  BY <3>2, <3>3
  <2>5. CASE e[1] \in L /\ e[2] \notin L
    <3>1. J[e[1]] = c /\ J[e[2]] = I[e[2]]
      BY <2>1, <2>5
    <3>2. I[e[1]] \in inner /\ I[e[2]] \notin inner
      BY <1>2, <2>1, <2>5
    <3>3. I[e[1]] # I[e[2]]
      BY <3>2
    <3>4. <<I[e[1]], I[e[2]]>> \notin {<<r, r>> : r \in R}
      BY <3>3
    <3>5. <<I[e[1]], I[e[2]]>> \in edge
      BY <2>2, <3>4
    <3>6. <<c, I[e[2]]>> \in exits
      <4> DEFINE y == <<I[e[1]], I[e[2]]>>
      <4>1. y \in edge /\ y[1] \in inner /\ y[2] \notin inner /\ y[2] = I[e[2]]
        BY <3>2, <3>5
      <4> HIDE DEF y
      <4> QED  BY <4>1
    <3> QED  BY <3>1, <3>6
  <2>6. CASE e[1] \in L /\ e[2] \in L
    <3>1. J[e[1]] = c /\ J[e[2]] = c
      BY <2>1, <2>6
    <3> QED  BY <1>7, <3>1
  <2> QED  BY <2>3, <2>4, <2>5, <2>6
<1>8. {e \in edge : e[1] \notin inner /\ e[2] \notin inner} \cup entries \cup exits
        = {<<J[e[1]], J[e[2]]>> : e \in E} \ {<<r, r>> : r \in R \cup {c}}
  BY <1>6, <1>7
<1> QED  BY <1>5, <1>8 DEF IsCollapse

-----------------------------------------------------------------------------
(* The loop tree the analysis leaves.                                      *)

\* The parent of a loop is the innermost loop around it, and its own nodes are those it is
\* the innermost loop of.
IsLoopTree(g, info) ==
    \A h \in HeadsOf(g) :
        /\ h # g.entry /\ info[h].backPreds = TailsOf(g, h)
        /\ \/ info[h].parent = g.entry /\ \A k \in HeadsOf(g) : h \in LoopOf(g, k) => k = h
           \/ /\ info[h].parent \in HeadsOf(g) \ {h} /\ h \in LoopOf(g, info[h].parent)
              /\ \A k \in HeadsOf(g) \ {h} : h \in LoopOf(g, k) => info[h].parent \in LoopOf(g, k)
        /\ \A x : x \in info[h].nonheader <=>
              /\ x \in LoopOf(g, h) \ HeadsOf(g)
              /\ \A k \in HeadsOf(g) : x \in LoopOf(g, k) => h \in LoopOf(g, k)

LEMMA AnalyzedHeads ==
    ASSUME InductiveInvariant, phase = "analyzed"
    PROVE  /\ Headers = HeadsOf(graph) /\ Headers \subseteq graph.node
           /\ IsFlowGraph(graph) /\ IsSearch(graph, Num, End) /\ IsNest(graph)
           /\ \A h \in Headers : NumberOf(h) \in Numbers \ {0} /\ NodeAt(NumberOf(h)) = h /\ IsHead(NumberOf(h))
           /\ \A i \in Numbers : IsHead(i) <=> NodeAt(i) \in Headers
           /\ \A i \in Numbers, h \in Headers : InLoop(i, NumberOf(h)) <=> NodeAt(i) \in LoopOf(graph, h)
<1>1. /\ Searched /\ Numbers \subseteq Nat /\ Headers \subseteq graph.node /\ ~IsHead(0)
      /\ \A i \in Numbers : NodeAt(i) \in Headers <=> IsHead(i)
  BY AnalyzedFacts
<1>2. /\ \A n \in graph.node : NumberOf(n) \in Numbers /\ NodeAt(NumberOf(n)) = n
      /\ \A i \in Numbers : NodeAt(i) \in graph.node /\ NumberOf(NodeAt(i)) = i
  BY <1>1, NodesAndNumbers
<1>3. /\ IsFlowGraph(graph) /\ IsSearch(graph, Num, End)
  BY <1>1 DEF Searched
<1>4. IsNest(graph)
  BY <1>3, LoopsAreNest
<1>5. HeadsOf(graph) \subseteq graph.node
  BY <1>4 DEF IsNest
<1>6. \A h : IsHead(h) <=> h \in Numbers /\ NodeAt(h) \in HeadsOf(graph)
  BY <1>1, InLoopMeans
<1>7. Headers = HeadsOf(graph)
  <2>1. ASSUME NEW n \in graph.node PROVE n \in Headers <=> n \in HeadsOf(graph)
    <3>1. NumberOf(n) \in Numbers /\ NodeAt(NumberOf(n)) = n
      BY <1>2
    <3> QED  BY <1>1, <1>6, <3>1
  <2> QED  BY <1>1, <1>5, <2>1
<1>8. \A h \in Headers : NumberOf(h) \in Numbers \ {0} /\ NodeAt(NumberOf(h)) = h /\ IsHead(NumberOf(h))
  BY <1>1, <1>2
<1>9. ASSUME NEW i \in Numbers, NEW h \in Headers
      PROVE  InLoop(i, NumberOf(h)) <=> NodeAt(i) \in LoopOf(graph, h)
  <2>1. NodeAt(NumberOf(h)) = h /\ h \in HeadsOf(graph)
    BY <1>7, <1>8
  <2>2. InLoop(i, NumberOf(h)) <=> NodeAt(NumberOf(h)) \in HeadsOf(graph)
                                   /\ NodeAt(i) \in LoopOf(graph, NodeAt(NumberOf(h)))
    BY <1>1, InLoopMeans
  <2> QED  BY <2>1, <2>2
<1> QED  BY <1>1, <1>3, <1>4, <1>7, <1>8, <1>9

LEMMA AnalyzedTree ==
    ASSUME InductiveInvariant, phase = "analyzed"
    PROVE  IsLoopTree(graph, loops)
<1>1. /\ Headers = HeadsOf(graph) /\ Headers \subseteq graph.node
      /\ \A h \in Headers : NumberOf(h) \in Numbers \ {0} /\ NodeAt(NumberOf(h)) = h /\ IsHead(NumberOf(h))
      /\ \A i \in Numbers : IsHead(i) <=> NodeAt(i) \in Headers
      /\ \A i \in Numbers, h \in Headers : InLoop(i, NumberOf(h)) <=> NodeAt(i) \in LoopOf(graph, h)
  BY AnalyzedHeads
<1>2. /\ Searched /\ Numbers \subseteq Nat /\ NodeAt(0) = graph.entry /\ ~IsHead(0) /\ 0 \in Numbers
      /\ \A i \in Numbers : attrs[i].backPreds = TailNumbers(i) /\ attrs[i].header \in Numbers
      /\ \A i \in Numbers : IsHead(i) => loops[NodeAt(i)] = LoopInfoOf(i)
  BY AnalyzedFacts DEF Root
<1>3. /\ \A n \in graph.node : NumberOf(n) \in Numbers /\ NodeAt(NumberOf(n)) = n
      /\ \A i \in Numbers : NodeAt(i) \in graph.node /\ NumberOf(NodeAt(i)) = i
  BY <1>2, NodesAndNumbers
<1>4. ASSUME NEW i \in Numbers
      PROVE  /\ \A c \in Numbers \ {i} : InLoop(i, c) =>
                  /\ InLoop(i, attrs[i].header) /\ attrs[i].header # i
                  /\ c <= attrs[i].header
             /\ attrs[i].header # 0 => InLoop(i, attrs[i].header) /\ attrs[i].header # i
             /\ \A c \in Numbers : InLoop(i, c) => c # 0 /\ c <= i
  BY HeaderIsLastHead
<1>5. /\ \A i, h \in Numbers : InLoop(i, h) => IsHead(h)
      /\ \A i, b, h \in Numbers : InLoop(i, h) /\ InLoop(i, b) /\ h < b => InLoop(b, h)
      /\ \A h \in Numbers : IsHead(h) => InLoop(h, h)
  BY <1>2, LoopsByNumber
<1>6. ASSUME NEW i \in Numbers, NEW c \in Numbers, NEW p \in Numbers,
             InLoop(i, c), InLoop(i, p), c <= p
      PROVE  InLoop(p, c)
  <2>1. CASE c < p
    BY <1>5, <1>6, <2>1
  <2>2. CASE ~(c < p)
    BY <1>2, <1>5, <1>6, <2>2
  <2> QED  BY <2>1, <2>2
<1>7. SUFFICES ASSUME NEW h \in HeadsOf(graph)
               PROVE
        /\ h # graph.entry /\ loops[h].backPreds = TailsOf(graph, h)
        /\ \/ loops[h].parent = graph.entry /\ \A k \in HeadsOf(graph) : h \in LoopOf(graph, k) => k = h
           \/ /\ loops[h].parent \in HeadsOf(graph) \ {h} /\ h \in LoopOf(graph, loops[h].parent)
              /\ \A k \in HeadsOf(graph) \ {h} :
                    h \in LoopOf(graph, k) => loops[h].parent \in LoopOf(graph, k)
        /\ \A x : x \in loops[h].nonheader <=>
              /\ x \in LoopOf(graph, h) \ HeadsOf(graph)
              /\ \A k \in HeadsOf(graph) : x \in LoopOf(graph, k) => h \in LoopOf(graph, k)
  BY DEF IsLoopTree
<1> DEFINE i == NumberOf(h)
           p == attrs[i].header
<1>8. i \in Numbers \ {0} /\ NodeAt(i) = h /\ IsHead(i) /\ p \in Numbers /\ h \in Headers
  BY <1>1, <1>2
<1>9. h # graph.entry
  BY <1>2, <1>3, <1>8
<1> HIDE DEF i
<1>10. /\ loops[h].parent = NodeAt(p)
       /\ \A k \in Numbers :
            NodeAt(k) \in loops[h].nonheader <=> k # 0 /\ ~IsHead(k) /\ attrs[k].header = i
       /\ loops[h].nonheader \subseteq graph.node
  BY <1>8, BodyByNumber
<1>11. loops[h].backPreds = TailsOf(graph, h)
  <2>1. loops[h].backPreds = {NodeAt(v) : v \in TailNumbers(i)}
    <3>1. loops[h] = LoopInfoOf(i) /\ attrs[i].backPreds = TailNumbers(i)
      BY <1>2, <1>8
    <3>2. LoopInfoOf(i).backPreds = {NodeAt(v) : v \in attrs[i].backPreds}
      BY DEF LoopInfoOf
    <3> QED  BY <3>1, <3>2
  <2>2. \A v \in Numbers : v \in TailNumbers(i) <=> <<NodeAt(v), h>> \in BackEdges(graph)
    <3>1. UpEdges(graph, Num, End) = BackEdges(graph)
      BY <1>2, AnalyzedFacts, UpEdgesIfReducible DEF Searched
    <3> QED  BY <1>2, <1>8, <3>1, TailFacts
  <2>3. TailNumbers(i) \subseteq Numbers
    BY <1>2, <1>8, TailFacts
  <2>4. \A x : x \in TailsOf(graph, h) <=> <<x, h>> \in BackEdges(graph)
    <3>1. BackEdges(graph) \subseteq graph.node \X graph.node
      BY <1>2 DEF Searched, IsFlowGraph, BackEdges
    <3> QED  BY <3>1 DEF TailsOf
  <2>5. \A x : <<x, h>> \in BackEdges(graph) => x \in graph.node
    BY <1>2 DEF Searched, IsFlowGraph, BackEdges
  <2>6. ASSUME NEW x \in TailsOf(graph, h) PROVE x \in loops[h].backPreds
    <3>1. x \in graph.node /\ <<x, h>> \in BackEdges(graph)
      BY <2>4, <2>5, <2>6
    <3>2. NumberOf(x) \in Numbers /\ NodeAt(NumberOf(x)) = x
      BY <1>3, <3>1
    <3> QED  BY <2>1, <2>2, <3>1, <3>2
  <2>7. ASSUME NEW x \in loops[h].backPreds PROVE x \in TailsOf(graph, h)
    <3>1. PICK v \in TailNumbers(i) : x = NodeAt(v)
      BY <2>1, <2>7
    <3> QED  BY <2>2, <2>3, <2>4, <3>1
  <2> QED  BY <2>6, <2>7
<1>12. \/ loops[h].parent = graph.entry /\ \A k \in HeadsOf(graph) : h \in LoopOf(graph, k) => k = h
       \/ /\ loops[h].parent \in HeadsOf(graph) \ {h} /\ h \in LoopOf(graph, loops[h].parent)
          /\ \A k \in HeadsOf(graph) \ {h} :
                h \in LoopOf(graph, k) => loops[h].parent \in LoopOf(graph, k)
  <2>1. ASSUME NEW k \in HeadsOf(graph) \ {h}, h \in LoopOf(graph, k)
        PROVE  /\ InLoop(i, p) /\ p # i /\ NumberOf(k) <= p
               /\ NumberOf(k) \in Numbers /\ InLoop(i, NumberOf(k)) /\ k \in Headers
    <3>1. NumberOf(k) \in Numbers \ {i} /\ k \in Headers
      BY <1>1, <1>8, <2>1
    <3>2. InLoop(i, NumberOf(k))
      BY <1>1, <1>8, <2>1, <3>1
    <3> QED  BY <1>4, <1>8, <3>1, <3>2
  <2>2. CASE p = 0
    <3>1. ASSUME NEW k \in HeadsOf(graph), h \in LoopOf(graph, k) PROVE k = h
      BY <1>2, <1>5, <1>8, <2>1, <2>2, <3>1
    <3> QED  BY <1>2, <1>10, <2>2, <3>1
  <2>3. CASE p # 0
    <3>1. InLoop(i, p) /\ p # i
      BY <1>4, <1>8, <2>3
    <3>2. NodeAt(p) \in Headers /\ NumberOf(NodeAt(p)) = p /\ NodeAt(p) # h
      BY <1>1, <1>3, <1>5, <1>8, <3>1
    <3>3. h \in LoopOf(graph, NodeAt(p))
      BY <1>1, <1>8, <3>1, <3>2
    <3>4. ASSUME NEW k \in HeadsOf(graph) \ {h}, h \in LoopOf(graph, k)
          PROVE  NodeAt(p) \in LoopOf(graph, k)
      <4>1. InLoop(p, NumberOf(k)) /\ k \in Headers
        BY <1>6, <1>8, <2>1, <3>4
      <4> QED  BY <1>1, <1>8, <4>1
    <3> QED  BY <1>1, <1>10, <3>2, <3>3, <3>4
  <2> QED  BY <2>2, <2>3
<1>13. ASSUME NEW x
       PROVE  x \in loops[h].nonheader <=>
              /\ x \in LoopOf(graph, h) \ HeadsOf(graph)
              /\ \A k \in HeadsOf(graph) : x \in LoopOf(graph, k) => h \in LoopOf(graph, k)
  <2>1. LoopOf(graph, h) \subseteq graph.node
    BY AnalyzedHeads DEF IsNest
  <2>2. CASE x \notin graph.node
    BY <1>10, <2>1, <2>2
  <2>3. CASE x \in graph.node
    <3> DEFINE k == NumberOf(x)
               q == attrs[k].header
    <3>1. k \in Numbers /\ NodeAt(k) = x /\ q \in Numbers
      BY <1>2, <1>3, <2>3
    <3> HIDE DEF k
    <3>2. x \in HeadsOf(graph) <=> IsHead(k)
      BY <1>1, <3>1
    <3>3. \A m \in Headers : x \in LoopOf(graph, m) <=> InLoop(k, NumberOf(m))
      BY <1>1, <3>1
    <3>4. x \in loops[h].nonheader <=> k # 0 /\ ~IsHead(k) /\ q = i
      BY <1>10, <3>1
    <3>5. ASSUME k # 0, ~IsHead(k), q = i
          PROVE  /\ x \in LoopOf(graph, h)
                 /\ \A m \in HeadsOf(graph) : x \in LoopOf(graph, m) => h \in LoopOf(graph, m)
      <4>1. InLoop(k, i)
        BY <1>4, <1>8, <3>1, <3>5
      <4>2. x \in LoopOf(graph, h)
        BY <1>8, <3>3, <4>1 DEF i
      <4>3. ASSUME NEW m \in HeadsOf(graph), x \in LoopOf(graph, m) PROVE h \in LoopOf(graph, m)
        <5>1. NumberOf(m) \in Numbers /\ IsHead(NumberOf(m)) /\ InLoop(k, NumberOf(m)) /\ m \in Headers
          BY <1>1, <3>3, <4>3
        <5>2. NumberOf(m) <= i
          BY <1>4, <3>1, <3>5, <5>1
        <5>3. InLoop(i, NumberOf(m))
          BY <1>6, <1>8, <3>1, <4>1, <5>1, <5>2
        <5> QED  BY <1>1, <1>8, <5>1, <5>3
      <4> QED  BY <4>2, <4>3
    <3>6. ASSUME x \in LoopOf(graph, h) \ HeadsOf(graph),
                 \A m \in HeadsOf(graph) : x \in LoopOf(graph, m) => h \in LoopOf(graph, m)
          PROVE  k # 0 /\ ~IsHead(k) /\ q = i
      <4>1. InLoop(k, i) /\ ~IsHead(k) /\ k # i
        BY <1>8, <3>2, <3>3, <3>6 DEF i
      <4>2. i <= q /\ InLoop(k, q) /\ i <= k
        BY <1>4, <1>8, <3>1, <4>1
      <4>3. IsHead(q) /\ NodeAt(q) \in Headers /\ NumberOf(NodeAt(q)) = q
        BY <1>1, <1>3, <1>5, <3>1, <4>2
      <4>4. h \in LoopOf(graph, NodeAt(q))
        BY <1>1, <3>3, <3>6, <4>2, <4>3
      <4>5. InLoop(i, q)
        BY <1>1, <1>8, <4>3, <4>4
      <4>6. q <= i
        BY <1>4, <1>8, <3>1, <4>5
      <4>7. q = i /\ k # 0
        BY <1>2, <1>8, <3>1, <4>2, <4>6
      <4> QED  BY <4>1, <4>7
    <3> QED  BY <3>2, <3>4, <3>5, <3>6
  <2> QED  BY <2>2, <2>3
<1> QED  BY <1>9, <1>11, <1>12, <1>13

-----------------------------------------------------------------------------
(* Levels and preorder numbers.                                            *)

IsDepth(H, par, root, depth) ==
    /\ depth \in [H -> Nat]
    /\ \A h \in H : par[h] # root => par[h] \in H /\ depth[par[h]] < depth[h]

CountsFrom(b, H, par, root, f) ==
    \A h \in H : f[h] = IF par[h] = root THEN b ELSE f[par[h]] + 1

\* A recursion down a tree has one outcome.
LEMMA OneByDepth ==
    ASSUME NEW H, NEW par, NEW root, NEW depth, IsDepth(H, par, root, depth),
           NEW b, NEW f, NEW g, CountsFrom(b, H, par, root, f), CountsFrom(b, H, par, root, g)
    PROVE  \A h \in H : f[h] = g[h]
<1> USE DEF IsDepth, CountsFrom
<1> DEFINE A == {h \in H : f[h] # g[h]}
<1>1. SUFFICES ASSUME A # {} PROVE FALSE
  OBVIOUS
<1>2. PICK h \in A : \A k \in A : depth[h] <= depth[k]
  <2>1. A \in SUBSET H
    OBVIOUS
  <2> HIDE DEF A
  <2> QED  BY <1>1, <2>1, LeastByValue
<1>3. h \in H /\ f[h] # g[h]
  BY <1>2
<1>4. par[h] # root
  BY <1>3
<1>5. par[h] \in H /\ depth[par[h]] < depth[h] /\ depth[par[h]] \in Nat /\ depth[h] \in Nat
  BY <1>3, <1>4
<1>6. par[h] \notin A
  BY <1>2, <1>5
<1>7. f[par[h]] = g[par[h]]
  BY <1>5, <1>6
<1> QED  BY <1>3, <1>4, <1>7

HeadsAround(n) == {m \in Headers : n \in LoopOf(graph, m)}

Depth(n) == Cardinality(HeadsAround(n))

LEMMA Depths ==
    ASSUME InductiveInvariant, phase = "analyzed"
    PROVE  /\ IsFiniteSet(Headers)
           /\ \A h \in Headers : Depth(h) \in Nat /\ h # Root
           /\ \A h \in Headers : loops[h].parent = Root => Depth(h) = 1
           /\ \A h \in Headers : loops[h].parent # Root =>
                loops[h].parent \in Headers /\ Depth(h) = Depth(loops[h].parent) + 1
           /\ \A h, m \in Headers : m \in LoopOf(graph, h) /\ m # h => Depth(h) < Depth(m)
<1>1. Headers = HeadsOf(graph) /\ Headers \subseteq graph.node /\ IsNest(graph)
      /\ IsFlowGraph(graph) /\ IsLoopTree(graph, loops)
  BY AnalyzedHeads, AnalyzedTree
<1>2. IsFiniteSet(Headers)
  BY <1>1, FS_Subset DEF IsFlowGraph
<1>3. \A n : IsFiniteSet(HeadsAround(n)) /\ Depth(n) \in Nat
  <2>1. \A n : HeadsAround(n) \subseteq Headers
    BY DEF HeadsAround
  <2> QED  BY <1>2, <2>1, FS_Subset, FS_CardinalityType DEF Depth
<1>4. \A h \in Headers : h \in LoopOf(graph, h) /\ h # Root
  BY <1>1 DEF IsNest, IsLoopTree, Root
<1>5. ASSUME NEW h \in Headers, loops[h].parent = Root PROVE Depth(h) = 1
  <2>1. loops[h].parent \notin Headers
    BY <1>4, <1>5
  <2>2. \A k \in Headers : h \in LoopOf(graph, k) => k = h
    BY <1>1, <2>1 DEF IsLoopTree
  <2>3. HeadsAround(h) = {h}
    BY <1>4, <2>2 DEF HeadsAround
  <2> QED  BY <2>3, FS_Singleton DEF Depth
<1>6. ASSUME NEW h \in Headers, loops[h].parent # Root
      PROVE  loops[h].parent \in Headers /\ Depth(h) = Depth(loops[h].parent) + 1
  <2> DEFINE p == loops[h].parent
  <2>1. /\ p \in Headers /\ p # h /\ h \in LoopOf(graph, p)
        /\ \A k \in Headers \ {h} : h \in LoopOf(graph, k) => p \in LoopOf(graph, k)
    BY <1>1, <1>6 DEF IsLoopTree, Root
  <2> HIDE DEF p
  <2>2. h \notin HeadsAround(p)
    BY <1>1, <2>1 DEF HeadsAround, IsNest
  <2>3. HeadsAround(h) = HeadsAround(p) \cup {h}
    <3>1. ASSUME NEW m \in HeadsAround(p) PROVE m \in HeadsAround(h)
      <4>1. m \in Headers /\ p \in LoopOf(graph, m)
        BY DEF HeadsAround
      <4>2. h \in LoopOf(graph, m)
        BY <1>1, <2>1, <4>1 DEF IsNest
      <4> QED  BY <4>1, <4>2 DEF HeadsAround
    <3>2. ASSUME NEW m \in HeadsAround(h), m # h PROVE m \in HeadsAround(p)
      BY <2>1, <3>2 DEF HeadsAround
    <3>3. h \in HeadsAround(h)
      BY <1>4 DEF HeadsAround
    <3> QED  BY <3>1, <3>2, <3>3
  <2>4. Depth(h) = Depth(p) + 1
    BY <1>3, <2>2, <2>3, FS_AddElement DEF Depth
  <2> QED  BY <2>1, <2>4 DEF p
<1>7. ASSUME NEW h \in Headers, NEW m \in Headers, m \in LoopOf(graph, h), m # h
      PROVE  Depth(h) < Depth(m)
  <2>1. m \notin HeadsAround(h) /\ m \in HeadsAround(m)
    BY <1>1, <1>4, <1>7 DEF HeadsAround, IsNest
  <2>2. HeadsAround(h) \subseteq HeadsAround(m)
    <3>1. ASSUME NEW k \in HeadsAround(h) PROVE k \in HeadsAround(m)
      <4>1. k \in Headers /\ h \in LoopOf(graph, k)
        BY DEF HeadsAround
      <4>2. m \in LoopOf(graph, k)
        BY <1>1, <1>7, <4>1 DEF IsNest
      <4> QED  BY <4>1, <4>2 DEF HeadsAround
    <3> QED  BY <3>1
  <2>3. Depth(h) <= Depth(m) /\ Depth(h) # Depth(m)
    <3>1. /\ Cardinality(HeadsAround(h)) <= Cardinality(HeadsAround(m))
          /\ Cardinality(HeadsAround(h)) = Cardinality(HeadsAround(m)) => HeadsAround(h) = HeadsAround(m)
      BY <1>3, <2>2, FS_Subset
    <3> QED  BY <2>1, <3>1 DEF Depth
  <2> QED  BY <1>3, <2>3
<1> QED  BY <1>2, <1>3, <1>4, <1>5, <1>6, <1>7

\* get_loop_level and _note_preorder_number count the loops around a loop.
LEMMA LevelsAreDepths ==
    ASSUME InductiveInvariant, phase = "analyzed"
    PROVE  \A h \in Headers : /\ LoopLevel[h] = Depth(h) - 1
                              /\ LoopPreorderNumber[h] = Depth(h) + 1
<1> DEFINE par   == [h \in Headers |-> loops[h].parent]
           depth == [h \in Headers |-> Depth(h)]
<1>1. /\ depth \in [Headers -> Nat]
      /\ \A h \in Headers : depth[h] = Depth(h) /\ Depth(h) \in Nat /\ par[h] = loops[h].parent /\ h # Root
      /\ \A h \in Headers : par[h] # Root => par[h] \in Headers /\ depth[par[h]] < depth[h]
      /\ \A h \in Headers : loops[h].parent = Root => Depth(h) = 1
      /\ \A h \in Headers : loops[h].parent # Root =>
            loops[h].parent \in Headers /\ Depth(h) = Depth(loops[h].parent) + 1
  <2>1. \A h \in Headers : Depth(h) \in Nat /\ h # Root
    BY Depths
  <2>2. \A h \in Headers : loops[h].parent = Root => Depth(h) = 1
    BY Depths
  <2>3. \A h \in Headers : loops[h].parent # Root =>
            loops[h].parent \in Headers /\ Depth(h) = Depth(loops[h].parent) + 1
    BY Depths
  <2> QED  BY <2>1, <2>2, <2>3
<1> HIDE DEF par, depth
<1>2. IsDepth(Headers, par, Root, depth)
  BY <1>1 DEF IsDepth
<1>3. \A h \in Headers : LoopLevel[h] = Depth(h) - 1
  <2> DEFINE f == [h \in Headers |-> Depth(h) - 1]
             level == LoopLevel
             Step(g) == [h \in Headers |-> IF loops[h].parent = Root THEN 0
                                           ELSE g[loops[h].parent] + 1]
  <2>1. \A h \in Headers : f[h] = Depth(h) - 1
    OBVIOUS
  <2>2. \A h \in Headers : f[h] = IF loops[h].parent = Root THEN 0 ELSE f[loops[h].parent] + 1
    BY <1>1
  <2>3. f = Step(f)
    BY <2>2
  <2>4. level = CHOOSE g : g = Step(g)
    BY DEF LoopLevel
  <2> HIDE DEF f, level
  <2>5. level = Step(level)
    <3> HIDE DEF Step
    <3> QED  BY <2>3, <2>4
  <2>6. CountsFrom(0, Headers, par, Root, level)
    BY <1>1, <2>5 DEF CountsFrom
  <2>7. CountsFrom(0, Headers, par, Root, f)
    BY <1>1, <2>2 DEF CountsFrom
  <2>8. \A h \in Headers : level[h] = f[h]
    BY <1>2, <2>6, <2>7, OneByDepth
  <2> QED  BY <2>1, <2>8 DEF level
<1>4. \A h \in Headers : LoopPreorderNumber[h] = Depth(h) + 1
  <2> DEFINE f == [h \in Headers \cup {Root} |-> IF h = Root THEN 1 ELSE Depth(h) + 1]
             number == LoopPreorderNumber
             Step(g) == [h \in Headers \cup {Root} |-> IF h = Root THEN 1
                                                       ELSE g[loops[h].parent] + 1]
  <2>1. f[Root] = 1 /\ \A h \in Headers : f[h] = Depth(h) + 1
    BY <1>1
  <2>2. \A h \in Headers : f[h] = f[loops[h].parent] + 1
    <3>1. SUFFICES ASSUME NEW h \in Headers PROVE f[h] = f[loops[h].parent] + 1
      OBVIOUS
    <3>2. CASE loops[h].parent = Root
      BY <1>1, <2>1, <3>2
    <3>3. CASE loops[h].parent # Root
      BY <1>1, <2>1, <3>3
    <3> QED  BY <3>2, <3>3
  <2>3. f = Step(f)
    <3>1. \A h \in Headers \cup {Root} : f[h] = IF h = Root THEN 1 ELSE f[loops[h].parent] + 1
      BY <2>1, <2>2
    <3> QED  BY <3>1
  <2>4. number = CHOOSE g : g = Step(g)
    BY DEF LoopPreorderNumber
  <2> HIDE DEF f, number
  <2>5. number = Step(number)
    <3> HIDE DEF Step
    <3> QED  BY <2>3, <2>4
  <2>6. number[Root] = 1 /\ \A h \in Headers : number[h] = number[loops[h].parent] + 1
    BY <1>1, <2>5
  <2>7. CountsFrom(2, Headers, par, Root, number)
    BY <1>1, <2>6 DEF CountsFrom
  <2>8. CountsFrom(2, Headers, par, Root, f)
    BY <1>1, <2>1, <2>2 DEF CountsFrom
  <2>9. \A h \in Headers : number[h] = f[h]
    BY <1>2, <2>7, <2>8, OneByDepth
  <2> QED  BY <2>1, <2>9 DEF number
<1> QED  BY <1>3, <1>4

-----------------------------------------------------------------------------
(* The image in the words of the specification.                            *)

LEMMA ImageByIsImage ==
    ASSUME NEW g, IsFlowGraph(g), NEW num, NEW end, IsSearch(g, num, end),
           NEW S \in SUBSET HeadsOf(g), NEW s, NEW D
    PROVE  IsImage(g, D, S, s, [x \in D |-> ImageBy(LoopsAt(g, S), s, x)])
<1> DEFINE LoopAt(n) == [head |-> n, tails |-> TailsOf(g, n), nodes |-> LoopOf(g, n)]
           nest == LoopsAt(g, S)
           I == [x \in D |-> ImageBy(nest, s, x)]
<1>1. NaturalLoops(g) = {LoopAt(n) : n \in HeadsOf(g)}
  BY NaturalLoopsAreLoops
<1>2. \A n : LoopAt(n).head = n /\ LoopAt(n).nodes = LoopOf(g, n)
  OBVIOUS
<1> HIDE DEF LoopAt
<1>3. /\ \A loop \in nest : loop.head \in S /\ loop = LoopAt(loop.head)
      /\ \A h \in S : LoopAt(h) \in nest
  BY <1>1, <1>2 DEF LoopsAt
<1>4. IsNest(g)
  BY LoopsAreNest
<1> HIDE DEF nest
<1>5. SUFFICES ASSUME NEW x \in D
               PROVE  \/ I[x] = x /\ \A h \in S : x \notin LoopOf(g, h)
                      \/ \E h : IsOutermost(g, S, x, h) /\ I[x] = s[h]
  BY DEF IsImage, nest
<1> DEFINE outer == {loop \in Around(nest, x) :
                       \A other \in Around(nest, x) : other.nodes \subseteq loop.nodes}
<1>6. I[x] = IF outer = {} THEN x ELSE s[(CHOOSE loop \in outer : TRUE).head]
  BY DEF ImageBy
<1>7. \A loop : loop \in Around(nest, x) <=> loop \in nest /\ x \in loop.nodes
  BY DEF Around
<1>8. CASE \A h \in S : x \notin LoopOf(g, h)
  <2>1. Around(nest, x) = {}
    BY <1>2, <1>3, <1>7, <1>8
  <2> QED  BY <1>6, <1>8, <2>1
<1>9. CASE \E h \in S : x \in LoopOf(g, h)
  <2>1. PICK h : IsOutermost(g, S, x, h)
    BY <1>9, OutermostExists
  <2>2. h \in S /\ x \in LoopOf(g, h) /\ \A k \in S : x \in LoopOf(g, k) => k \in LoopOf(g, h)
    BY <2>1 DEF IsOutermost
  <2>3. LoopAt(h) \in Around(nest, x)
    BY <1>2, <1>3, <1>7, <2>2
  <2>4. ASSUME NEW other \in Around(nest, x) PROVE other.nodes \subseteq LoopOf(g, h)
    <3>1. other.head \in S /\ other.nodes = LoopOf(g, other.head) /\ x \in LoopOf(g, other.head)
      BY <1>2, <1>3, <1>7
    <3>2. other.head \in LoopOf(g, h)
      BY <2>2, <3>1
    <3> QED  BY <1>4, <2>2, <3>1, <3>2 DEF IsNest
  <2>5. LoopAt(h) \in outer
    BY <1>2, <2>3, <2>4
  <2>6. ASSUME NEW loop \in outer PROVE loop.head = h
    <3>1. loop.head \in S /\ loop.nodes = LoopOf(g, loop.head)
      BY <1>2, <1>3, <1>7
    <3>2. LoopOf(g, h) \subseteq LoopOf(g, loop.head) /\ LoopOf(g, loop.head) \subseteq LoopOf(g, h)
      BY <1>2, <2>3, <2>4, <3>1
    <3>3. h \in LoopOf(g, loop.head) /\ loop.head \in LoopOf(g, h)
      BY <1>4, <2>2, <3>1, <3>2 DEF IsNest
    <3> QED  BY <1>4, <2>2, <3>1, <3>3 DEF IsNest
  <2> HIDE DEF outer
  <2>7. I[x] = s[h]
    <3>1. (CHOOSE loop \in outer : TRUE) \in outer
      BY <2>5
    <3> QED  BY <1>6, <2>5, <2>6, <3>1
  <2> QED  BY <2>1, <2>7
<1> QED  BY <1>8, <1>9

OnePerHeader(rg) == \A q, r \in DOMAIN rg : rg[q].header = rg[r].header => q = r

LEMMA SurrogateIs ==
    ASSUME NEW rg, OnePerHeader(rg)
    PROVE  /\ DOMAIN SurrogatesIn(rg) = {rg[r].header : r \in DOMAIN rg}
           /\ \A r \in DOMAIN rg : SurrogatesIn(rg)[rg[r].header] = r
           /\ \A h \in {rg[r].header : r \in DOMAIN rg} :
                SurrogatesIn(rg)[h] \in DOMAIN rg /\ rg[SurrogatesIn(rg)[h]].header = h
<1> DEFINE H == {rg[r].header : r \in DOMAIN rg}
<1>1. ASSUME NEW r \in DOMAIN rg PROVE SurrogatesIn(rg)[rg[r].header] = r
  <2>1. rg[r].header \in H
    OBVIOUS
  <2>2. SurrogatesIn(rg)[rg[r].header] = CHOOSE q \in DOMAIN rg : rg[q].header = rg[r].header
    BY <2>1 DEF SurrogatesIn
  <2> QED  BY <2>2 DEF OnePerHeader
<1>2. ASSUME NEW h \in H
      PROVE  SurrogatesIn(rg)[h] \in DOMAIN rg /\ rg[SurrogatesIn(rg)[h]].header = h
  BY <1>1
<1> QED  BY <1>1, <1>2 DEF SurrogatesIn

-----------------------------------------------------------------------------
(* What holds while loops are reduced.                                     *)

LEMMA HeadNodes ==
    ASSUME InductiveInvariant, phase = "analyzed", NEW h \in Headers
    PROVE  NodesOf(h) = LoopOf(graph, h)
<1> DEFINE LoopAt(n) == [head |-> n, tails |-> TailsOf(graph, n), nodes |-> LoopOf(graph, n)]
<1>1. NaturalLoops(graph) = {LoopAt(n) : n \in HeadsOf(graph)}
  BY NaturalLoopsAreLoops
<1>2. \A n : LoopAt(n).head = n /\ LoopAt(n).nodes = LoopOf(graph, n)
  OBVIOUS
<1> HIDE DEF LoopAt
<1>3. h \in HeadsOf(graph)
  BY AnalyzedHeads
<1>4. LoopAt(h) \in NaturalLoops(graph) /\ \A loop \in NaturalLoops(graph) : loop.head = h => loop = LoopAt(h)
  BY <1>1, <1>2, <1>3
<1>5. (CHOOSE loop \in NaturalLoops(graph) : loop.head = h) = LoopAt(h)
  BY <1>2, <1>4
<1> QED  BY <1>2, <1>5 DEF NodesOf

LEMMA ReductionFacts ==
    ASSUME ReductionInvariant, stage # "waiting"
    PROVE  /\ InductiveInvariant /\ phase = "analyzed" /\ IsFlowGraph(graph)
           /\ Headers = HeadsOf(graph) /\ Headers \subseteq graph.node
           /\ IsNest(graph) /\ IsLoopTree(graph, loops)
           /\ Reduced \subseteq Headers /\ OnePerHeader(regions)
           /\ \A h \in Reduced :
                /\ SurrogateOf(h) = SurrogatesIn(regions)[h]
                /\ SurrogateOf(h) \in DOMAIN regions /\ regions[SurrogateOf(h)].header = h
           /\ \A r \in DOMAIN regions : /\ regions[r].header \in Reduced
                                        /\ SurrogateOf(regions[r].header) = r
           /\ \A h \in Headers : NodesOf(h) = LoopOf(graph, h)
           /\ \A h \in Reduced, m \in Headers : m \in LoopOf(graph, h) => m \in Reduced
<1>1. InductiveInvariant /\ phase = "analyzed" /\ SurrogatesAreNew
  BY DEF ReductionInvariant
<1>2. /\ Headers = HeadsOf(graph) /\ Headers \subseteq graph.node /\ IsFlowGraph(graph)
      /\ IsNest(graph) /\ IsLoopTree(graph, loops)
  BY <1>1, AnalyzedHeads, AnalyzedTree
<1>3. OnePerHeader(regions) /\ Reduced \subseteq Headers
  BY <1>1 DEF SurrogatesAreNew, OnePerHeader, Reduced
<1>4. \A h \in Headers : NodesOf(h) = LoopOf(graph, h)
  BY <1>1, HeadNodes
<1>5. ASSUME NEW h \in Reduced
      PROVE  /\ SurrogateOf(h) = SurrogatesIn(regions)[h]
             /\ SurrogateOf(h) \in DOMAIN regions /\ regions[SurrogateOf(h)].header = h
  <2>1. SurrogateOf(h) = SurrogatesIn(regions)[h]
    BY DEF SurrogateOf, SurrogatesIn, Reduced
  <2>2. SurrogatesIn(regions)[h] \in DOMAIN regions /\ regions[SurrogatesIn(regions)[h]].header = h
    BY <1>3, SurrogateIs DEF Reduced
  <2> QED  BY <2>1, <2>2
<1>6. ASSUME NEW r \in DOMAIN regions
      PROVE  regions[r].header \in Reduced /\ SurrogateOf(regions[r].header) = r
  <2>1. regions[r].header \in Reduced
    BY DEF Reduced
  <2> QED  BY <1>3, <1>5, <2>1 DEF OnePerHeader
<1>7. \A h \in Reduced, m \in Headers : m \in LoopOf(graph, h) => m \in Reduced
  BY <1>1, <1>3, <1>4 DEF SurrogatesAreNew
<1> QED  BY <1>1, <1>2, <1>3, <1>4, <1>5, <1>6, <1>7

\* The next loop is one whose inner loops have been reduced.
LEMMA DeepestIsNext ==
    ASSUME ReductionInvariant, stage = "reduce", NEW n \in DeepestLeft(Headers \ Reduced)
    PROVE  IsNext(graph, Reduced, n) /\ n \in Headers \ Reduced
<1>1. /\ InductiveInvariant /\ phase = "analyzed" /\ Headers = HeadsOf(graph)
      /\ Reduced \subseteq Headers
      /\ \A h \in Reduced, m \in Headers : m \in LoopOf(graph, h) => m \in Reduced
  BY ReductionFacts
<1>2. n \in Headers \ Reduced
      /\ \A m \in Headers \ Reduced : LoopPreorderNumber[m] <= LoopPreorderNumber[n]
  BY DEF DeepestLeft
<1>3. ASSUME NEW m \in Headers, m \in LoopOf(graph, n), m # n PROVE m \in Reduced
  <2>1. Depth(n) < Depth(m) /\ Depth(n) \in Nat /\ Depth(m) \in Nat
    BY <1>1, <1>2, <1>3, Depths
  <2>2. LoopPreorderNumber[m] = Depth(m) + 1 /\ LoopPreorderNumber[n] = Depth(n) + 1
    BY <1>1, <1>2, <1>3, LevelsAreDepths
  <2> QED  BY <1>2, <1>3, <2>1, <2>2
<1> QED  BY <1>1, <1>2, <1>3 DEF IsNext

\* get_body_nodes: the nodes a loop is the innermost of, and the heads of the next loops.
LEMMA BodyFacts ==
    ASSUME InductiveInvariant, phase = "analyzed", NEW n \in Headers
    PROVE  /\ BodyNodes(n) \subseteq LoopOf(graph, n) /\ LoopOf(graph, n) \subseteq graph.node
           /\ n \notin BodyNodes(n)
           /\ \A m \in Headers : m \in BodyNodes(n) <=> loops[m].parent = n
           /\ \A x \in graph.node \ Headers : x \in BodyNodes(n) <=>
                 /\ x \in LoopOf(graph, n)
                 /\ \A k \in Headers : x \in LoopOf(graph, k) => n \in LoopOf(graph, k)
<1>1. Headers = HeadsOf(graph) /\ Headers \subseteq graph.node /\ IsNest(graph) /\ IsLoopTree(graph, loops)
  BY AnalyzedHeads, AnalyzedTree
<1>2. \A x : x \in loops[n].nonheader <=>
          /\ x \in LoopOf(graph, n) \ Headers
          /\ \A k \in Headers : x \in LoopOf(graph, k) => n \in LoopOf(graph, k)
  BY <1>1 DEF IsLoopTree
<1>3. \A m \in Headers : loops[m].parent = n => m \in LoopOf(graph, n) /\ m # n
  BY <1>1 DEF IsLoopTree
<1>4. LoopOf(graph, n) \subseteq graph.node
  BY <1>1 DEF IsNest
<1>5. \A x : x \in BodyNodes(n) <=> x \in loops[n].nonheader \/ (x \in Headers /\ loops[x].parent = n)
  BY DEF BodyNodes
<1> QED  BY <1>2, <1>3, <1>4, <1>5

\* Translated, those are surrogates of the next loops, and nodes that are in no loop reduced
\* so far.
LEMMA LoopNodesFacts ==
    ASSUME ReductionInvariant, stage = "reduce", NEW n \in Headers \ Reduced, IsNext(graph, Reduced, n)
    PROVE  /\ nextId \in Int
           /\ \A y \in LoopNodes(n) : y \in Int /\ y < nextId
           /\ \A y \in LoopNodes(n) : y \in DOMAIN regions => loops[regions[y].header].parent = n
           /\ \A m \in Headers : loops[m].parent = n => m \in Reduced /\ SurrogateOf(m) \in LoopNodes(n)
<1>1. /\ InductiveInvariant /\ phase = "analyzed" /\ IsFlowGraph(graph)
      /\ Headers = HeadsOf(graph) /\ Headers \subseteq graph.node
      /\ Reduced \subseteq Headers
      /\ \A h \in Reduced : SurrogateOf(h) \in DOMAIN regions /\ regions[SurrogateOf(h)].header = h
  BY ReductionFacts
<1>2. /\ nextId \in Int /\ \A x \in graph.node : x \in Int /\ x < nextId
      /\ \A r \in DOMAIN regions : r \in Int /\ r < nextId /\ \A x \in graph.node : x < r
  BY <1>1 DEF ReductionInvariant, SurrogatesAreNew, IsFlowGraph
<1>3. /\ BodyNodes(n) \subseteq LoopOf(graph, n) /\ LoopOf(graph, n) \subseteq graph.node
      /\ \A m \in Headers : m \in BodyNodes(n) <=> loops[m].parent = n
      /\ n \notin BodyNodes(n)
  BY <1>1, BodyFacts
<1>4. ASSUME NEW y \in LoopNodes(n)
      PROVE  y \in Int /\ y < nextId /\ (y \in DOMAIN regions => loops[regions[y].header].parent = n)
  <2>1. y = n \/ \E b \in BodyNodes(n) : y = TranslateNodeId(b)
    BY DEF LoopNodes
  <2>2. \A x \in graph.node : x \notin DOMAIN regions
    BY <1>2
  <2>3. CASE y = n
    BY <1>1, <1>2, <2>2, <2>3
  <2>4. ASSUME NEW b \in BodyNodes(n), y = TranslateNodeId(b)
        PROVE  y \in Int /\ y < nextId /\ (y \in DOMAIN regions => loops[regions[y].header].parent = n)
    <3>1. b \in graph.node
      BY <1>3
    <3>2. CASE b \in Reduced
      <4>1. y = SurrogateOf(b)
        BY <2>4, <3>2 DEF TranslateNodeId
      <4> QED  BY <1>1, <1>2, <1>3, <3>2, <4>1
    <3>3. CASE b \notin Reduced
      <4>1. y = b
        BY <2>4, <3>3 DEF TranslateNodeId
      <4> QED  BY <1>2, <2>2, <3>1, <4>1
    <3> QED  BY <3>2, <3>3
  <2> QED  BY <2>1, <2>3, <2>4
<1>5. ASSUME NEW m \in Headers, loops[m].parent = n
      PROVE  m \in Reduced /\ SurrogateOf(m) \in LoopNodes(n)
  <2>1. m \in BodyNodes(n) /\ m \in LoopOf(graph, n) /\ m # n
    BY <1>3, <1>5
  <2>2. m \in Reduced
    BY <1>1, <2>1 DEF IsNext
  <2>3. TranslateNodeId(m) = SurrogateOf(m)
    BY <2>2 DEF TranslateNodeId
  <2> QED  BY <2>1, <2>2, <2>3 DEF LoopNodes
<1> QED  BY <1>2, <1>4, <1>5

-----------------------------------------------------------------------------
(* reduce_all_loops.                                                       *)

Entries(n) == {<<e[1], nextId>> : e \in EntryEdges(n)}

Exits(n) == {<<nextId, e[2]>> : e \in ExitEdgesOf(LoopNodes(n))}

\* What ReduceSingleLoop does for n.
Collapses(n) ==
    /\ IsNext(graph, Reduced, n) /\ n \in Headers \ Reduced
    /\ DOMAIN curr' = DOMAIN curr
    /\ curr'.node = (curr.node \ LoopNodes(n)) \cup {nextId} \cup {e[1] : e \in Entries(n)}
    /\ curr'.edge = {e \in curr.edge : e[1] \notin LoopNodes(n) /\ e[2] \notin LoopNodes(n)}
                    \cup Entries(n) \cup Exits(n)
    /\ nextId \notin DOMAIN regions /\ DOMAIN regions' = DOMAIN regions \cup {nextId}
    /\ \A r \in DOMAIN regions : regions'[r] = regions[r]
    /\ regions'[nextId].header = n /\ regions'[nextId].level = LoopLevel[n]
    /\ regions'[nextId].graph.node = curr.node \cap LoopNodes(n)
    /\ regions'[nextId].graph.edge = curr.edge \cap (LoopNodes(n) \X LoopNodes(n))
    /\ regions'[nextId].graph.entry = n
    /\ {"node", "edge", "entry"} \subseteq DOMAIN regions'[nextId].graph
    /\ nextId' = nextId + 1 /\ stage = "reduce"
    /\ UNCHANGED <<vars, stage, hierarchy>>

LEMMA ReducePicks ==
    ASSUME ReductionInvariant, ReduceSingleLoop
    PROVE  \E n : Collapses(n)
<1>1. PICK n \in DeepestLeft(Headers \ Reduced) :
        /\ curr' = [curr EXCEPT
             !.node = (@ \ LoopNodes(n)) \cup {nextId} \cup {e[1] : e \in Entries(n)},
             !.edge = {e \in @ : e[1] \notin LoopNodes(n) /\ e[2] \notin LoopNodes(n)}
                      \cup Entries(n) \cup Exits(n)]
        /\ regions' = [r \in DOMAIN regions \cup {nextId} |->
             IF r # nextId THEN regions[r]
             ELSE [header     |-> n,
                   graph      |-> [Subgraph(curr, LoopNodes(n)) EXCEPT !.entry = n],
                   level      |-> LoopLevel[n],
                   parentloop |-> loops[n].parent]]
  BY DEF ReduceSingleLoop, Entries, Exits
<1>2. nextId' = nextId + 1 /\ stage = "reduce" /\ UNCHANGED <<vars, stage, hierarchy>>
  BY DEF ReduceSingleLoop, FollowingId
<1>3. IsNext(graph, Reduced, n) /\ n \in Headers \ Reduced
  BY <1>2, DeepestIsNext
<1>4. {"node", "edge", "entry"} \subseteq DOMAIN curr
  BY DEF ReductionInvariant, CurrentGraph
<1>5. nextId \notin DOMAIN regions
  BY <1>2 DEF ReductionInvariant, SurrogatesAreNew
<1>6. /\ DOMAIN curr' = DOMAIN curr
      /\ curr'.node = (curr.node \ LoopNodes(n)) \cup {nextId} \cup {e[1] : e \in Entries(n)}
      /\ curr'.edge = {e \in curr.edge : e[1] \notin LoopNodes(n) /\ e[2] \notin LoopNodes(n)}
                      \cup Entries(n) \cup Exits(n)
  BY <1>1, <1>4
<1>7. /\ DOMAIN regions' = DOMAIN regions \cup {nextId}
      /\ \A r \in DOMAIN regions : regions'[r] = regions[r]
      /\ regions'[nextId].header = n /\ regions'[nextId].level = LoopLevel[n]
      /\ regions'[nextId].graph = [Subgraph(curr, LoopNodes(n)) EXCEPT !.entry = n]
  BY <1>1, <1>5
<1>8. /\ regions'[nextId].graph.node = curr.node \cap LoopNodes(n)
      /\ regions'[nextId].graph.edge = curr.edge \cap (LoopNodes(n) \X LoopNodes(n))
      /\ regions'[nextId].graph.entry = n
      /\ {"node", "edge", "entry"} \subseteq DOMAIN regions'[nextId].graph
  BY <1>4, <1>7 DEF Subgraph
<1> QED  BY <1>2, <1>3, <1>5, <1>6, <1>7, <1>8 DEF Collapses

\* The other loops keep their surrogates.
LEMMA SurrogatesGrow ==
    ASSUME ReductionInvariant, NEW n, Collapses(n)
    PROVE  /\ Reduced' = Reduced \cup {n} /\ OnePerHeader(regions')
           /\ \A h \in Reduced : SurrogateOf(h)' = SurrogateOf(h)
           /\ SurrogateOf(n)' = nextId
           /\ \A h \in Reduced \cup {n} : SurrogateOf(h)' = SurrogatesIn(regions')[h]
<1>1. /\ n \notin Reduced /\ nextId \notin DOMAIN regions /\ DOMAIN regions' = DOMAIN regions \cup {nextId}
      /\ \A r \in DOMAIN regions : regions'[r] = regions[r]
      /\ regions'[nextId].header = n /\ stage = "reduce"
  BY DEF Collapses
<1>2. /\ OnePerHeader(regions) /\ \A r \in DOMAIN regions : regions[r].header \in Reduced
      /\ \A h \in Reduced : SurrogateOf(h) \in DOMAIN regions /\ regions[SurrogateOf(h)].header = h
  BY <1>1, ReductionFacts
<1>3. \A r \in DOMAIN regions : regions'[r].header = regions[r].header /\ regions[r].header # n
  BY <1>1, <1>2
<1>4. OnePerHeader(regions')
  BY <1>1, <1>2, <1>3 DEF OnePerHeader
<1>5. Reduced' = {regions'[r].header : r \in DOMAIN regions'}
  BY DEF Reduced
<1>6. Reduced' = Reduced \cup {n}
  <2>1. ASSUME NEW h \in Reduced' PROVE h \in Reduced \cup {n}
    BY <1>1, <1>2, <1>3, <1>5
  <2>2. ASSUME NEW h \in Reduced \cup {n} PROVE h \in Reduced'
    <3>1. \E r \in DOMAIN regions' : regions'[r].header = h
      BY <1>1, <1>2, <1>3
    <3> QED  BY <1>5, <3>1
  <2> QED  BY <2>1, <2>2
<1>7. ASSUME NEW h \in Reduced \cup {n} PROVE SurrogateOf(h)' = SurrogatesIn(regions')[h]
  <2>1. h \in {regions'[r].header : r \in DOMAIN regions'}
    BY <1>5, <1>6
  <2> QED  BY <2>1 DEF SurrogateOf, SurrogatesIn
<1>8. \A r \in DOMAIN regions' : SurrogatesIn(regions')[regions'[r].header] = r
  BY <1>4, SurrogateIs
<1>9. SurrogateOf(n)' = nextId
  BY <1>1, <1>7, <1>8
<1>10. ASSUME NEW h \in Reduced PROVE SurrogateOf(h)' = SurrogateOf(h)
  <2>1. SurrogateOf(h) \in DOMAIN regions' /\ regions'[SurrogateOf(h)].header = h
    BY <1>1, <1>2, <1>3
  <2> QED  BY <1>7, <1>8, <2>1
<1> QED  BY <1>4, <1>6, <1>7, <1>9, <1>10

LEMMA ReduceKeepsGraph ==
    ASSUME ReductionInvariant, NEW n, Collapses(n)
    PROVE  CurrentGraph'
<1>1. /\ {"node", "edge", "entry"} \subseteq DOMAIN curr
      /\ IsFiniteSet(curr.node) /\ curr.node \subseteq Int
      /\ curr.edge \subseteq curr.node \X curr.node
  BY DEF ReductionInvariant, CurrentGraph
<1>2. /\ DOMAIN curr' = DOMAIN curr /\ stage' = "reduce"
      /\ curr'.node = (curr.node \ LoopNodes(n)) \cup {nextId} \cup {e[1] : e \in Entries(n)}
      /\ curr'.edge = {e \in curr.edge : e[1] \notin LoopNodes(n) /\ e[2] \notin LoopNodes(n)}
                      \cup Entries(n) \cup Exits(n)
  BY DEF Collapses
<1>3. nextId \in Int
  BY DEF ReductionInvariant, SurrogatesAreNew, Collapses
<1>4. \A e \in Entries(n) : e = <<e[1], nextId>> /\ e[1] \in curr.node
  <2>1. \A e \in EntryEdges(n) : e[1] \in curr.node
    BY <1>1 DEF EntryEdges
  <2> QED  BY <2>1 DEF Entries
<1>5. \A e \in Exits(n) : e = <<nextId, e[2]>> /\ e[2] \in curr.node \ LoopNodes(n)
  <2>1. \A e \in ExitEdgesOf(LoopNodes(n)) : e[2] \in curr.node \ LoopNodes(n)
    BY <1>1 DEF ExitEdgesOf
  <2> QED  BY <2>1 DEF Exits
<1>6. curr'.node \subseteq curr.node \cup {nextId}
  BY <1>2, <1>4
<1>7. IsFiniteSet(curr'.node)
  <2>1. IsFiniteSet(curr.node \cup {nextId})
    BY <1>1, FS_AddElement
  <2> QED  BY <1>6, <2>1, FS_Subset
<1>8. curr'.edge \subseteq curr'.node \X curr'.node
  <2>1. ASSUME NEW e \in curr'.edge PROVE e \in curr'.node \X curr'.node
    <3>1. CASE e \in curr.edge /\ e[1] \notin LoopNodes(n) /\ e[2] \notin LoopNodes(n)
      BY <1>1, <1>2, <3>1
    <3>2. CASE e \in Entries(n)
      BY <1>2, <1>4, <3>2
    <3>3. CASE e \in Exits(n)
      BY <1>2, <1>5, <3>3
    <3> QED  BY <1>2, <2>1, <3>1, <3>2, <3>3
  <2> QED  BY <2>1
<1> QED  BY <1>1, <1>2, <1>3, <1>6, <1>7, <1>8 DEF CurrentGraph

LEMMA NestStays ==
    ASSUME UNCHANGED vars
    PROVE  /\ Headers' = Headers /\ LoopLevel' = LoopLevel /\ Root' = Root
           /\ \A h : NodesOf(h)' = NodesOf(h)
           /\ HasDeepBackEdge(graph)' = HasDeepBackEdge(graph)
<1>1. graph' = graph /\ loops' = loops
  BY DEF vars
<1>2. Headers' = Headers /\ Root' = Root
  BY <1>1 DEF Headers, Root
<1>3. LoopLevel' = LoopLevel
  BY <1>1, <1>2 DEF LoopLevel
<1>4. \A h : NodesOf(h)' = NodesOf(h)
  BY <1>1 DEF NodesOf
<1>5. HasDeepBackEdge(graph)' = HasDeepBackEdge(graph)
  BY <1>1 DEF HasDeepBackEdge
<1> QED  BY <1>2, <1>3, <1>4, <1>5

LEMMA ReduceKeepsNew ==
    ASSUME ReductionInvariant, NEW n, Collapses(n)
    PROVE  SurrogatesAreNew'
<1>1. /\ IsNext(graph, Reduced, n) /\ n \in Headers \ Reduced
      /\ nextId \notin DOMAIN regions /\ DOMAIN regions' = DOMAIN regions \cup {nextId}
      /\ \A r \in DOMAIN regions : regions'[r] = regions[r]
      /\ regions'[nextId].header = n /\ nextId' = nextId + 1 /\ stage = "reduce"
      /\ graph' = graph /\ UNCHANGED vars
  BY DEF Collapses, vars
<1>2. /\ nextId \in Int /\ (\A x \in graph.node : x < nextId)
      /\ IsFiniteSet(DOMAIN regions)
      /\ \A r \in DOMAIN regions :
          /\ r \in Int /\ r < nextId /\ regions[r].header \in Headers
          /\ \A x \in graph.node : x < r
      /\ \A h \in Reduced : Headers \cap NodesOf(h) \subseteq Reduced
  BY <1>1 DEF ReductionInvariant, SurrogatesAreNew
<1>3. OnePerHeader(regions') /\ Reduced' = Reduced \cup {n}
  BY SurrogatesGrow
<1>4. Headers' = Headers /\ \A h : NodesOf(h)' = NodesOf(h)
  BY <1>1, NestStays
<1>5. \A x \in graph.node : x \in Int
  BY <1>1, ReductionFacts DEF IsFlowGraph
<1>6. nextId' \in Int /\ \A x \in graph'.node : x < nextId'
  BY <1>1, <1>2, <1>5
<1>7. IsFiniteSet(DOMAIN regions')
  BY <1>1, <1>2, FS_AddElement
<1>8. ASSUME NEW r \in DOMAIN regions'
      PROVE  /\ r \in Int /\ r < nextId' /\ regions'[r].header \in Headers
             /\ \A x \in graph.node : x < r
  <2>1. CASE r = nextId
    BY <1>1, <1>2, <2>1
  <2>2. CASE r \in DOMAIN regions
    BY <1>1, <1>2, <2>2
  <2> QED  BY <1>1, <2>1, <2>2
<1>9. \A h \in Reduced \cup {n} : Headers \cap NodesOf(h) \subseteq Reduced \cup {n}
  <2>1. Headers \cap NodesOf(n) \subseteq Reduced \cup {n}
    <3>1. NodesOf(n) = LoopOf(graph, n) /\ Headers = HeadsOf(graph)
      BY <1>1, ReductionFacts
    <3> QED  BY <1>1, <3>1 DEF IsNext
  <2> QED  BY <1>2, <2>1
<1>10. \A h \in Reduced' : Headers' \cap NodesOf(h)' \subseteq Reduced'
  BY <1>3, <1>4, <1>9
<1>11. \A q, r \in DOMAIN regions' : regions'[q].header = regions'[r].header => q = r
  BY <1>3 DEF OnePerHeader
<1> QED  BY <1>1, <1>4, <1>6, <1>7, <1>8, <1>10, <1>11 DEF SurrogatesAreNew

LEMMA ReduceKeepsSurrogates ==
    ASSUME ReductionInvariant, NEW n, Collapses(n)
    PROVE  SurrogatesAreKept'
<1>1. /\ IsNext(graph, Reduced, n) /\ n \in Headers \ Reduced
      /\ curr'.node = (curr.node \ LoopNodes(n)) \cup {nextId} \cup {e[1] : e \in Entries(n)}
      /\ nextId \notin DOMAIN regions /\ DOMAIN regions' = DOMAIN regions \cup {nextId}
      /\ \A r \in DOMAIN regions : regions'[r] = regions[r]
      /\ regions'[nextId].header = n /\ regions'[nextId].level = LoopLevel[n]
      /\ regions'[nextId].graph.node = curr.node \cap LoopNodes(n)
      /\ nextId' = nextId + 1 /\ stage = "reduce"
      /\ loops' = loops /\ UNCHANGED vars
  BY DEF Collapses, vars
<1>2. /\ \A h \in Reduced : loops[h].parent \in Reduced \/ SurrogateOf(h) \in curr.node
      /\ \A r \in DOMAIN regions :
          /\ regions[r].level = LoopLevel[regions[r].header]
          /\ \A x \in regions[r].graph.node : x \in Int /\ x < nextId
          /\ \A m \in Headers : loops[m].parent = regions[r].header
                => SurrogateOf(m) \in regions[r].graph.node
          /\ \A q \in DOMAIN regions \cap regions[r].graph.node :
                loops[regions[q].header].parent = regions[r].header
  BY <1>1 DEF ReductionInvariant, SurrogatesAreKept
<1>3. /\ Reduced' = Reduced \cup {n}
      /\ \A h \in Reduced : SurrogateOf(h)' = SurrogateOf(h)
      /\ SurrogateOf(n)' = nextId
  BY SurrogatesGrow
<1>4. Headers' = Headers /\ LoopLevel' = LoopLevel
  BY <1>1, NestStays
<1>5. /\ nextId \in Int
      /\ \A y \in LoopNodes(n) : y \in Int /\ y < nextId
      /\ \A y \in LoopNodes(n) : y \in DOMAIN regions => loops[regions[y].header].parent = n
      /\ \A m \in Headers : loops[m].parent = n => m \in Reduced /\ SurrogateOf(m) \in LoopNodes(n)
  BY <1>1, LoopNodesFacts
<1>6. /\ \A h \in Reduced : SurrogateOf(h) \in DOMAIN regions /\ regions[SurrogateOf(h)].header = h
      /\ \A r \in DOMAIN regions : regions[r].header \in Reduced
      /\ IsLoopTree(graph, loops) /\ Headers = HeadsOf(graph) /\ Reduced \subseteq Headers
      /\ \A h \in Reduced, m \in Headers : m \in LoopOf(graph, h) => m \in Reduced
  BY <1>1, ReductionFacts
<1>7. ASSUME NEW h \in Reduced', loops[h].parent \notin Reduced' PROVE SurrogateOf(h)' \in curr'.node
  <2>1. CASE h = n
    BY <1>1, <1>3, <2>1
  <2>2. CASE h \in Reduced
    <3>1. SurrogateOf(h) \in curr.node
      BY <1>2, <1>3, <1>7, <2>2
    <3>2. SurrogateOf(h) \notin LoopNodes(n)
      BY <1>3, <1>5, <1>6, <1>7, <2>2
    <3> QED  BY <1>1, <1>3, <2>2, <3>1, <3>2
  <2> QED  BY <1>3, <2>1, <2>2
<1>8. \A r \in DOMAIN regions' : regions'[r].level = LoopLevel[regions'[r].header]
  BY <1>1, <1>2
<1>9. ASSUME NEW r \in DOMAIN regions'
      PROVE  \A x \in regions'[r].graph.node : x \in Int /\ x < nextId'
  <2>1. CASE r = nextId
    BY <1>1, <1>5, <2>1
  <2>2. CASE r \in DOMAIN regions
    <3>1. \A x \in regions[r].graph.node : x \in Int /\ x < nextId
      BY <1>2, <2>2
    <3> QED  BY <1>1, <1>5, <2>2, <3>1
  <2> QED  BY <1>1, <2>1, <2>2
<1>10. ASSUME NEW r \in DOMAIN regions', NEW m \in Headers, loops[m].parent = regions'[r].header
       PROVE  SurrogateOf(m)' \in regions'[r].graph.node
  <2>1. CASE r = nextId
    <3>1. m \in Reduced /\ SurrogateOf(m) \in LoopNodes(n) /\ loops[m].parent = n
      BY <1>1, <1>5, <1>10, <2>1
    <3>2. SurrogateOf(m) \in curr.node
      BY <1>1, <1>2, <3>1
    <3> QED  BY <1>1, <1>3, <2>1, <3>1, <3>2
  <2>2. CASE r \in DOMAIN regions
    <3>1. loops[m].parent = regions[r].header /\ regions[r].header \in Reduced
      BY <1>1, <1>6, <1>10, <2>2
    <3>2. m \in LoopOf(graph, loops[m].parent)
      BY <1>6, <3>1 DEF IsLoopTree
    <3>3. m \in Reduced
      BY <1>6, <3>1, <3>2
    <3> QED  BY <1>1, <1>2, <1>3, <2>2, <3>1, <3>3
  <2> QED  BY <1>1, <2>1, <2>2
<1>11. ASSUME NEW r \in DOMAIN regions', NEW q \in DOMAIN regions' \cap regions'[r].graph.node
       PROVE  loops[regions'[q].header].parent = regions'[r].header
  <2>1. CASE r = nextId
    <3>1. q \in LoopNodes(n) /\ q # nextId
      BY <1>1, <1>5, <1>11, <2>1
    <3>2. q \in DOMAIN regions
      BY <1>1, <1>11, <3>1
    <3> QED  BY <1>1, <1>5, <2>1, <3>1, <3>2
  <2>2. CASE r \in DOMAIN regions
    <3>1. q # nextId
      BY <1>1, <1>2, <1>5, <1>11, <2>2
    <3>2. q \in DOMAIN regions \cap regions[r].graph.node
      BY <1>1, <1>11, <2>2, <3>1
    <3> QED  BY <1>1, <1>2, <2>2, <3>2
  <2> QED  BY <1>1, <2>1, <2>2
<1> QED  BY <1>1, <1>3, <1>4, <1>7, <1>8, <1>9, <1>10, <1>11 DEF SurrogatesAreKept

-----------------------------------------------------------------------------
(* Collapsing a loop leaves a quotient.                                    *)

LEMMA FreshSurrogates ==
    ASSUME ReductionInvariant, stage # "waiting"
    PROVE  /\ IsFresh(graph, Reduced, SurrogatesIn(regions))
           /\ \A h \in Reduced : SurrogatesIn(regions)[h] \in DOMAIN regions
           /\ \A r \in DOMAIN regions : r \notin graph.node
           /\ nextId \notin graph.node /\ nextId \notin DOMAIN regions
<1>1. /\ IsFlowGraph(graph)
      /\ \A h \in Reduced : /\ SurrogateOf(h) = SurrogatesIn(regions)[h]
                            /\ SurrogateOf(h) \in DOMAIN regions /\ regions[SurrogateOf(h)].header = h
  BY ReductionFacts
<1>2. /\ nextId \in Int /\ \A n \in graph.node : n < nextId /\ n \in Int
      /\ \A r \in DOMAIN regions : r \in Int /\ r < nextId /\ \A n \in graph.node : n < r
  BY <1>1 DEF ReductionInvariant, SurrogatesAreNew, IsFlowGraph
<1>3. \A r \in DOMAIN regions : r \notin graph.node
  BY <1>2
<1>4. nextId \notin graph.node /\ nextId \notin DOMAIN regions
  BY <1>2
<1>5. IsFresh(graph, Reduced, SurrogatesIn(regions))
  <2>1. ASSUME NEW h \in Reduced, NEW k \in Reduced, SurrogatesIn(regions)[k] = SurrogatesIn(regions)[h]
        PROVE  k = h
    <3>1. regions[SurrogatesIn(regions)[h]].header = h /\ regions[SurrogatesIn(regions)[k]].header = k
      BY <1>1
    <3> QED  BY <2>1, <3>1
  <2> QED  BY <1>1, <1>3, <2>1 DEF IsFresh
<1> QED  BY <1>1, <1>3, <1>4, <1>5

\* translate_node_id: the nodes of the loop that are left are the images of all its nodes.
LEMMA LoopNodesAreImages ==
    ASSUME ReductionInvariant, stage = "reduce", NEW n \in Headers \ Reduced, IsNext(graph, Reduced, n),
           NEW I, IsImage(graph, graph.node, Reduced, SurrogatesIn(regions), I)
    PROVE  LoopNodes(n) = {I[x] : x \in LoopOf(graph, n)}
<1> DEFINE L == LoopOf(graph, n)
<1>1. /\ InductiveInvariant /\ phase = "analyzed" /\ IsNest(graph) /\ IsLoopTree(graph, loops)
      /\ Headers = HeadsOf(graph) /\ Headers \subseteq graph.node /\ Reduced \subseteq Headers
      /\ \A h \in Reduced : SurrogateOf(h) = SurrogatesIn(regions)[h]
      /\ \A h \in Reduced, m \in Headers : m \in LoopOf(graph, h) => m \in Reduced
  BY ReductionFacts
<1>2. /\ BodyNodes(n) \subseteq L /\ L \subseteq graph.node /\ n \notin BodyNodes(n)
      /\ \A m \in Headers : m \in BodyNodes(n) <=> loops[m].parent = n
      /\ \A x \in graph.node \ Headers : x \in BodyNodes(n) <=>
            /\ x \in LoopOf(graph, n)
            /\ \A k \in Headers : x \in LoopOf(graph, k) => n \in LoopOf(graph, k)
  BY <1>1, BodyFacts
<1>3. \A k \in Reduced : n \notin LoopOf(graph, k)
  BY InsideNext, <1>1
<1>4. \A x \in graph.node :
        /\ \A h : IsOutermost(graph, Reduced, x, h) => I[x] = SurrogatesIn(regions)[h]
        /\ (\A h \in Reduced : x \notin LoopOf(graph, h)) => I[x] = x
  <2>1. Reduced \in SUBSET HeadsOf(graph) /\ IsNest(graph)
    BY <1>1
  <2> QED  BY <2>1, ImageOf
<1>5. n \in L /\ n \in graph.node /\ I[n] = n
  BY <1>1, <1>3, <1>4 DEF IsNest
<1>6. ASSUME NEW b \in BodyNodes(n) PROVE TranslateNodeId(b) = I[b]
  <2>1. b \in graph.node /\ b \in L
    BY <1>2
  <2>2. CASE b \in Headers
    <3>1. loops[b].parent = n /\ b # n /\ b \in Reduced
      BY <1>1, <1>2, <1>6, <2>1, <2>2 DEF IsNext
    <3>2. \A k \in Headers \ {b} : b \in LoopOf(graph, k) => n \in LoopOf(graph, k)
      BY <1>1, <2>2, <3>1 DEF IsLoopTree
    <3>3. b \in LoopOf(graph, b)
      BY <1>1, <2>2 DEF IsNest
    <3>4. IsOutermost(graph, Reduced, b, b)
      BY <1>1, <1>3, <3>1, <3>2, <3>3 DEF IsOutermost
    <3>5. I[b] = SurrogateOf(b)
      BY <1>1, <1>4, <2>1, <3>1, <3>4
    <3> QED  BY <3>1, <3>5 DEF TranslateNodeId
  <2>3. CASE b \notin Headers
    <3>1. \A k \in Reduced : b \notin LoopOf(graph, k)
      BY <1>1, <1>2, <1>3, <1>6, <2>1, <2>3
    <3>2. b \notin Reduced /\ I[b] = b
      BY <1>1, <1>4, <2>1, <2>3, <3>1
    <3> QED  BY <3>2 DEF TranslateNodeId
  <2> QED  BY <2>2, <2>3
<1>7. ASSUME NEW x \in L PROVE I[x] \in LoopNodes(n)
  <2>1. x \in graph.node
    BY <1>2
  <2>2. CASE \A k \in Reduced : x \notin LoopOf(graph, k)
    <3>1. I[x] = x
      BY <1>4, <2>1, <2>2
    <3>2. CASE x = n
      BY <3>1, <3>2 DEF LoopNodes
    <3>3. CASE x # n
      <4>1. x \notin Reduced
        BY <1>1, <2>2 DEF IsNest
      <4>2. x \notin Headers
        BY <1>1, <3>3, <4>1 DEF IsNext
      <4>3. ASSUME NEW k \in Headers, x \in LoopOf(graph, k) PROVE n \in LoopOf(graph, k)
        <5>1. k \notin Reduced
          BY <2>2, <4>3
        <5>2. k \in L => k = n
          BY <1>1, <5>1 DEF IsNext
        <5> QED  BY <1>1, <1>5, <4>3, <5>2 DEF IsNest
      <4>4. x \in BodyNodes(n)
        BY <1>2, <2>1, <4>2, <4>3
      <4> QED  BY <1>6, <3>1, <4>4 DEF LoopNodes
    <3> QED  BY <3>2, <3>3
  <2>3. CASE \E k \in Reduced : x \in LoopOf(graph, k)
    <3>1. PICK k : IsOutermost(graph, Reduced, x, k) /\ I[x] = SurrogatesIn(regions)[k]
      BY <2>1, <2>3 DEF IsImage
    <3>2. /\ k \in Reduced /\ x \in LoopOf(graph, k)
          /\ \A m \in Reduced : x \in LoopOf(graph, m) => m \in LoopOf(graph, k)
      BY <3>1 DEF IsOutermost
    <3>3. k \in L /\ k # n /\ k \in Headers
      BY <1>1, <3>2, InsideNext
    <3>4. loops[k].parent = n
      <4> DEFINE p == loops[k].parent
      <4>1. /\ p \in Headers \ {k} /\ k \in LoopOf(graph, p) /\ p \in L
        BY <1>1, <1>5, <3>3 DEF IsLoopTree
      <4>2. x \in LoopOf(graph, p)
        BY <1>1, <3>2, <3>3, <4>1 DEF IsNest
      <4>3. p \notin LoopOf(graph, k)
        BY <1>1, <3>3, <4>1 DEF IsNest
      <4>4. p \notin Reduced
        BY <3>2, <4>2, <4>3
      <4> QED  BY <1>1, <4>1, <4>4 DEF IsNext
    <3>5. k \in BodyNodes(n) /\ TranslateNodeId(k) = SurrogateOf(k)
      BY <1>2, <3>2, <3>3, <3>4 DEF TranslateNodeId
    <3>6. I[x] = TranslateNodeId(k)
      BY <1>1, <3>1, <3>2, <3>5
    <3> QED  BY <3>5, <3>6 DEF LoopNodes
  <2> QED  BY <2>2, <2>3
<1>8. ASSUME NEW y \in LoopNodes(n) PROVE \E x \in L : y = I[x]
  <2>1. y = n \/ \E b \in BodyNodes(n) : y = TranslateNodeId(b)
    BY DEF LoopNodes
  <2> QED  BY <1>2, <1>5, <1>6, <2>1
<1> QED  BY <1>7, <1>8

\* Unless a back edge comes from inside an inner loop, the tails are translated too.
LEMMA TailsAreImages ==
    ASSUME ReductionInvariant, stage = "reduce", ~HasDeepBackEdge(graph),
           NEW n \in Headers \ Reduced, IsNext(graph, Reduced, n),
           NEW I, IsImage(graph, graph.node, Reduced, SurrogatesIn(regions), I)
    PROVE  \A b \in TailsOf(graph, n) : TranslateNodeId(b) = I[b]
<1> DEFINE LoopAt(k) == [head |-> k, tails |-> TailsOf(graph, k), nodes |-> LoopOf(graph, k)]
<1>1. /\ IsNest(graph) /\ Headers = HeadsOf(graph) /\ Reduced \subseteq Headers
      /\ \A h \in Reduced : SurrogateOf(h) = SurrogatesIn(regions)[h]
  BY ReductionFacts
<1>2. SUFFICES ASSUME NEW b \in TailsOf(graph, n) PROVE TranslateNodeId(b) = I[b]
  OBVIOUS
<1>3. n \in HeadsOf(graph) /\ b \in LoopOf(graph, n) /\ b \in graph.node
  BY <1>1 DEF IsNest
<1>4. \A x \in graph.node :
        /\ \A h : IsOutermost(graph, Reduced, x, h) => I[x] = SurrogatesIn(regions)[h]
        /\ (\A h \in Reduced : x \notin LoopOf(graph, h)) => I[x] = x
  <2>1. Reduced \in SUBSET HeadsOf(graph) /\ IsNest(graph)
    BY <1>1
  <2> QED  BY <2>1, ImageOf
<1>5. CASE \A k \in Reduced : b \notin LoopOf(graph, k)
  <2>1. b \notin Reduced
    BY <1>1, <1>5 DEF IsNest
  <2> QED  BY <1>3, <1>4, <1>5, <2>1 DEF TranslateNodeId
<1>6. CASE \E k \in Reduced : b \in LoopOf(graph, k)
  <2>1. PICK k : IsOutermost(graph, Reduced, b, k)
    BY <1>3, <1>6 DEF IsImage
  <2>2. k \in Reduced /\ b \in LoopOf(graph, k)
    BY <2>1 DEF IsOutermost
  <2>3. k \in LoopOf(graph, n) /\ k # n /\ k \in HeadsOf(graph)
    BY <1>1, <1>3, <2>2, InsideNext
  <2>4. b = k
    <3>1. NaturalLoops(graph) = {LoopAt(m) : m \in HeadsOf(graph)}
      BY NaturalLoopsAreLoops
    <3>2. LoopAt(n) \in NaturalLoops(graph) /\ LoopAt(k) \in NaturalLoops(graph)
      BY <1>3, <2>3, <3>1
    <3>3. /\ LoopAt(n).head = n /\ LoopAt(k).head = k /\ LoopAt(n).tails = TailsOf(graph, n)
          /\ LoopAt(n).nodes = LoopOf(graph, n) /\ LoopAt(k).nodes = LoopOf(graph, k)
      OBVIOUS
    <3>4. LoopAt(n) # LoopAt(k)
      BY <2>3, <3>3
    <3> HIDE DEF LoopAt
    <3>5. (TailsOf(graph, n) \cap LoopOf(graph, k)) \ {k} = {}
      BY <2>3, <3>2, <3>3, <3>4 DEF HasDeepBackEdge
    <3> QED  BY <2>2, <3>5
  <2> QED  BY <1>1, <1>3, <1>4, <2>1, <2>2, <2>4 DEF TranslateNodeId
<1> QED  BY <1>5, <1>6

LEMMA NextIsCollapsible ==
    ASSUME ReductionInvariant, stage = "reduce", NEW n \in Headers \ Reduced,
           IsNext(graph, Reduced, n),
           NEW I, IsImage(graph, graph.node, Reduced, SurrogatesIn(regions), I)
    PROVE  IsCollapsible(graph.node, graph.edge, LoopOf(graph, n), n, TailsOf(graph, n), I,
                         DOMAIN regions, nextId)
<1>1. /\ IsNest(graph) /\ Headers = HeadsOf(graph) /\ Headers \subseteq graph.node
  BY ReductionFacts
<1>2. /\ IsFresh(graph, Reduced, SurrogatesIn(regions))
      /\ \A h \in Reduced : SurrogatesIn(regions)[h] \in DOMAIN regions
      /\ \A r \in DOMAIN regions : r \notin graph.node
      /\ nextId \notin graph.node /\ nextId \notin DOMAIN regions
  BY FreshSurrogates
<1>3. /\ \A x \in LoopOf(graph, n), y \in graph.node : I[x] = I[y] => y \in LoopOf(graph, n)
      /\ I[n] = n /\ \A y \in graph.node : I[y] = n => y = n
  BY <1>1, <1>2, NextIsSaturated
<1>4. \A x \in graph.node : I[x] # nextId
  <2>1. SUFFICES ASSUME NEW x \in graph.node PROVE I[x] # nextId
    OBVIOUS
  <2>2. I[x] = x \/ \E h : IsOutermost(graph, Reduced, x, h) /\ I[x] = SurrogatesIn(regions)[h]
    BY DEF IsImage
  <2>3. \A h : IsOutermost(graph, Reduced, x, h) => h \in Reduced
    BY DEF IsOutermost
  <2> QED  BY <1>2, <2>2, <2>3
<1>5. n \in graph.node /\ n \in HeadsOf(graph)
  BY <1>1
<1>6. /\ graph.edge \subseteq graph.node \X graph.node
      /\ n \in LoopOf(graph, n) /\ LoopOf(graph, n) \subseteq graph.node
      /\ TailsOf(graph, n) \subseteq LoopOf(graph, n)
      /\ \A e \in graph.edge :
          /\ e[2] \in LoopOf(graph, n) \ {n} => e[1] \in LoopOf(graph, n)
          /\ e[2] = n /\ e[1] \in LoopOf(graph, n) => e[1] \in TailsOf(graph, n)
  BY <1>1, <1>5 DEF IsNest
<1> QED  BY <1>2, <1>3, <1>4, <1>5, <1>6 DEF IsCollapsible

IsInside(E, L, J, R, c, node, edge, inner) ==
    /\ node \cap inner = {J[x] : x \in L}
    /\ edge \cap (inner \X inner)
         = {<<J[e[1]], J[e[2]]>> : e \in E \cap (L \X L)} \ {<<r, r>> : r \in R \cup {c}}

\* The inner graph of the region, under any images that agree with I.
LEMMA RegionGraph ==
    ASSUME NEW N, NEW E, NEW L, NEW h, NEW T, NEW I, NEW R, NEW c,
           IsCollapsible(N, E, L, h, T, I, R, c),
           NEW edge, NEW inner, NEW entering, AreEdges(E, L, h, T, I, R, edge, inner, entering),
           NEW J, \A x \in L : J[x] = I[x], NEW node, node = {I[x] : x \in N}
    PROVE  IsInside(E, L, J, R, c, node, edge, inner)
<1>1. /\ E \subseteq N \X N /\ L \subseteq N /\ (\A x \in N : I[x] # c)
  BY DEF IsCollapsible
<1>2. \A x \in N : I[x] \in inner <=> x \in L
  BY CollapsedEdges
<1> USE DEF AreEdges
<1>3. node \cap inner = {J[x] : x \in L}
  BY <1>1
<1>4. ASSUME NEW z \in edge \cap (inner \X inner)
      PROVE  /\ z \in {<<J[e[1]], J[e[2]]>> : e \in E \cap (L \X L)}
             /\ z \notin {<<r, r>> : r \in R \cup {c}}
  <2>1. PICK e \in E : z = <<I[e[1]], I[e[2]]>>
    BY <1>4
  <2>2. e[1] \in N /\ e[2] \in N /\ e = <<e[1], e[2]>>
    BY <1>1
  <2>3. I[e[1]] \in inner /\ I[e[2]] \in inner
    BY <1>4, <2>1
  <2>4. e[1] \in L /\ e[2] \in L
    BY <1>2, <2>2, <2>3
  <2>5. e \in E \cap (L \X L) /\ z = <<J[e[1]], J[e[2]]>> /\ I[e[1]] # c
    BY <1>1, <2>1, <2>2, <2>4
  <2>6. z \notin {<<r, r>> : r \in R}
    BY <1>4
  <2> QED  BY <2>1, <2>5, <2>6
<1>5. ASSUME NEW e \in E \cap (L \X L), <<J[e[1]], J[e[2]]>> \notin {<<r, r>> : r \in R \cup {c}}
      PROVE  <<J[e[1]], J[e[2]]>> \in edge \cap (inner \X inner)
  <2>1. J[e[1]] = I[e[1]] /\ J[e[2]] = I[e[2]] /\ I[e[1]] \in inner /\ I[e[2]] \in inner
    OBVIOUS
  <2>2. <<I[e[1]], I[e[2]]>> \notin {<<r, r>> : r \in R}
    BY <1>5, <2>1
  <2> QED  BY <2>1, <2>2
<1>6. edge \cap (inner \X inner)
        = {<<J[e[1]], J[e[2]]>> : e \in E \cap (L \X L)} \ {<<r, r>> : r \in R \cup {c}}
  BY <1>4, <1>5
<1> QED  BY <1>3, <1>6 DEF IsInside

LEMMA ImageSame ==
    ASSUME NEW g, NEW D, NEW S, NEW s, NEW t, \A h \in S : t[h] = s[h],
           NEW I, IsImage(g, D, S, s, I)
    PROVE  IsImage(g, D, S, t, I)
BY DEF IsImage, IsOutermost

\* A surrogate more changes no quotient that does not use it.
LEMMA SameQuotient ==
    ASSUME NEW g, NEW flow, NEW nodes, NEW S, NEW rg, NEW rg2, NEW c,
           IsQuotient(g, flow, nodes, S, rg), DOMAIN rg2 = DOMAIN rg \cup {c},
           \A x \in nodes :
              /\ ImageBy(LoopsAt(flow, S), SurrogatesIn(rg2), x)
                    = ImageBy(LoopsAt(flow, S), SurrogatesIn(rg), x)
              /\ ImageBy(LoopsAt(flow, S), SurrogatesIn(rg), x) # c
    PROVE  IsQuotient(g, flow, nodes, S, rg2)
<1> DEFINE I == [x \in nodes |-> ImageBy(LoopsAt(flow, S), SurrogatesIn(rg), x)]
           J == [x \in nodes |-> ImageBy(LoopsAt(flow, S), SurrogatesIn(rg2), x)]
           F == flow.edge \cap (nodes \X nodes)
<1>1. J = I /\ \A x \in nodes : I[x] # c
  OBVIOUS
<1>2. /\ g.node = {I[n] : n \in nodes}
      /\ g.edge = {<<I[e[1]], I[e[2]]>> : e \in F} \ {<<r, r>> : r \in DOMAIN rg}
  BY DEF IsQuotient
<1> HIDE DEF I, J
<1>3. \A e \in F : e[1] \in nodes /\ e[2] \in nodes
  OBVIOUS
<1>4. {<<I[e[1]], I[e[2]]>> : e \in F} \ {<<r, r>> : r \in DOMAIN rg}
        = {<<I[e[1]], I[e[2]]>> : e \in F} \ {<<r, r>> : r \in DOMAIN rg2}
  <2>1. <<c, c>> \notin {<<I[e[1]], I[e[2]]>> : e \in F}
    BY <1>1, <1>3
  <2> QED  BY <2>1
<1>5. /\ g.node = {J[n] : n \in nodes}
      /\ g.edge = {<<J[e[1]], J[e[2]]>> : e \in F} \ {<<r, r>> : r \in DOMAIN rg2}
  BY <1>1, <1>2, <1>4
<1> QED  BY <1>5 DEF IsQuotient, J

LEMMA ReduceFacts ==
    ASSUME ReductionInvariant, NEW n, Collapses(n)
    PROVE  /\ IsNest(graph) /\ Headers = HeadsOf(graph) /\ Reduced \subseteq Headers
           /\ IsNext(graph, Reduced, n) /\ n \in Headers \ Reduced /\ stage = "reduce"
           /\ Reduced' = Reduced \cup {n}
           /\ \A k \in Reduced : SurrogatesIn(regions')[k] = SurrogatesIn(regions)[k]
           /\ SurrogatesIn(regions')[n] = nextId
           /\ DOMAIN regions' = DOMAIN regions \cup {nextId}
           /\ \A S, D : S \subseteq Headers =>
                /\ IsImage(graph, D, S, SurrogatesIn(regions),
                       [x \in D |-> ImageBy(LoopsAt(graph, S), SurrogatesIn(regions), x)])
                /\ IsImage(graph, D, S, SurrogatesIn(regions'),
                       [x \in D |-> ImageBy(LoopsAt(graph, S), SurrogatesIn(regions'), x)])
<1>1. /\ IsNext(graph, Reduced, n) /\ n \in Headers \ Reduced /\ stage = "reduce"
      /\ DOMAIN regions' = DOMAIN regions \cup {nextId}
  BY DEF Collapses
<1>2. /\ InductiveInvariant /\ phase = "analyzed" /\ IsNest(graph) /\ Headers = HeadsOf(graph)
      /\ Reduced \subseteq Headers
      /\ \A h \in Reduced : SurrogateOf(h) = SurrogatesIn(regions)[h]
  BY <1>1, ReductionFacts
<1>3. /\ Reduced' = Reduced \cup {n}
      /\ \A h \in Reduced : SurrogateOf(h)' = SurrogateOf(h)
      /\ SurrogateOf(n)' = nextId
      /\ \A h \in Reduced \cup {n} : SurrogateOf(h)' = SurrogatesIn(regions')[h]
  BY SurrogatesGrow
<1>4. IsFlowGraph(graph) /\ IsSearch(graph, Num, End)
  BY <1>2, AnalyzedHeads
<1>5. \A S, D, s : S \subseteq Headers =>
         IsImage(graph, D, S, s, [x \in D |-> ImageBy(LoopsAt(graph, S), s, x)])
  BY <1>2, <1>4, ImageByIsImage
<1> QED  BY <1>1, <1>2, <1>3, <1>5

\* Where the nodes go now.
LEMMA ImageGrows ==
    ASSUME ReductionInvariant, NEW n, Collapses(n),
           NEW I, I = [x \in graph.node |-> ImageBy(LoopsAt(graph, Reduced), SurrogatesIn(regions), x)],
           NEW J, J = [x \in graph.node |->
                         ImageBy(LoopsAt(graph, Reduced \cup {n}), SurrogatesIn(regions'), x)]
    PROVE  /\ IsImage(graph, graph.node, Reduced, SurrogatesIn(regions), I)
           /\ \A x \in graph.node : J[x] = IF x \in LoopOf(graph, n) THEN nextId ELSE I[x]
<1> DEFINE s == SurrogatesIn(regions)
           t == SurrogatesIn(regions')
           K == [x \in graph.node |-> IF x \in LoopOf(graph, n) THEN t[n] ELSE I[x]]
           S == Reduced \cup {n}
<1>1. /\ IsNest(graph) /\ Headers = HeadsOf(graph) /\ S \in SUBSET HeadsOf(graph)
      /\ IsNext(graph, Reduced, n) /\ Reduced \subseteq Headers
      /\ \A k \in Reduced : t[k] = s[k]
      /\ t[n] = nextId
  BY ReduceFacts
<1>2. IsImage(graph, graph.node, Reduced, s, I)
  BY ReduceFacts
<1>3. IsImage(graph, graph.node, S, t, J)
  BY <1>1, ReduceFacts
<1>4. \A x \in graph.node : K[x] = IF x \in LoopOf(graph, n) THEN t[n] ELSE I[x]
  OBVIOUS
<1> HIDE DEF K, s, t
<1>5. IsImage(graph, graph.node, S, t, K)
  BY <1>1, <1>2, <1>4, NextImage
<1> HIDE DEF S
<1>6. \A x \in graph.node : J[x] = K[x]
  BY <1>1, <1>3, <1>5, ImageIsOne
<1> QED  BY <1>1, <1>2, <1>4, <1>6 DEF s

LEMMA EdgesOfNext ==
    ASSUME ReductionInvariant, NEW n, Collapses(n), ~HasDeepBackEdge(graph),
           NEW I, I = [x \in graph.node |-> ImageBy(LoopsAt(graph, Reduced), SurrogatesIn(regions), x)]
    PROVE  /\ curr.node = {I[x] : x \in graph.node}
           /\ IsCollapsible(graph.node, graph.edge, LoopOf(graph, n), n, TailsOf(graph, n), I,
                            DOMAIN regions, nextId)
           /\ AreEdges(graph.edge, LoopOf(graph, n), n, TailsOf(graph, n), I, DOMAIN regions,
                       curr.edge, LoopNodes(n), EntryEdges(n))
<1>1. /\ IsNest(graph) /\ Headers = HeadsOf(graph) /\ Reduced \subseteq Headers
      /\ IsNext(graph, Reduced, n) /\ n \in Headers \ Reduced /\ stage = "reduce"
  BY ReduceFacts
<1>2. IsImage(graph, graph.node, Reduced, SurrogatesIn(regions), I)
  BY <1>1, ReduceFacts
<1>3. IsCollapsible(graph.node, graph.edge, LoopOf(graph, n), n, TailsOf(graph, n), I,
                    DOMAIN regions, nextId)
  BY <1>1, <1>2, NextIsCollapsible
<1>4. LoopNodes(n) = {I[x] : x \in LoopOf(graph, n)}
  BY <1>1, <1>2, LoopNodesAreImages
<1>5. /\ curr.node = {I[x] : x \in graph.node}
      /\ curr.edge = {<<I[e[1]], I[e[2]]>> : e \in graph.edge} \ {<<r, r>> : r \in DOMAIN regions}
  <2>1. IsQuotient(curr, graph, graph.node, Reduced, regions)
    BY <1>1 DEF ReductionInvariant, Quotients
  <2>2. graph.edge \cap (graph.node \X graph.node) = graph.edge
    BY <1>1 DEF IsNest
  <2> QED  BY <2>1, <2>2 DEF IsQuotient
<1>6. EntryEdges(n) = {e \in curr.edge : e[2] = n} \ {<<I[b], n>> : b \in TailsOf(graph, n)}
  <2>1. loops[n].backPreds = TailsOf(graph, n)
    BY <1>1, ReductionFacts DEF IsLoopTree
  <2>2. \A b \in TailsOf(graph, n) : TranslateNodeId(b) = I[b]
    BY <1>1, <1>2, TailsAreImages
  <2>3. {<<TranslateNodeId(b), n>> : b \in TailsOf(graph, n)} = {<<I[b], n>> : b \in TailsOf(graph, n)}
    BY <2>2
  <2> QED  BY <2>1, <2>3 DEF EntryEdges
<1> QED  BY <1>3, <1>4, <1>5, <1>6 DEF AreEdges

LEMMA CurrentStaysQuotient ==
    ASSUME ReductionInvariant, NEW n, Collapses(n), ~HasDeepBackEdge(graph)
    PROVE  IsQuotient(curr', graph, graph.node, Reduced', regions')
<1>1. PICK I, J :
        /\ I = [x \in graph.node |-> ImageBy(LoopsAt(graph, Reduced), SurrogatesIn(regions), x)]
        /\ J = [x \in graph.node |->
                  ImageBy(LoopsAt(graph, Reduced \cup {n}), SurrogatesIn(regions'), x)]
  OBVIOUS
<1> DEFINE L == LoopOf(graph, n)
           R == DOMAIN regions
<1>2. /\ IsImage(graph, graph.node, Reduced, SurrogatesIn(regions), I)
      /\ \A x \in graph.node : J[x] = IF x \in L THEN nextId ELSE I[x]
  BY <1>1, ImageGrows
<1>3. /\ curr.node = {I[x] : x \in graph.node}
      /\ IsCollapsible(graph.node, graph.edge, L, n, TailsOf(graph, n), I, R, nextId)
      /\ AreEdges(graph.edge, L, n, TailsOf(graph, n), I, R, curr.edge, LoopNodes(n), EntryEdges(n))
  BY <1>1, EdgesOfNext
<1>4. /\ Reduced' = Reduced \cup {n} /\ IsNest(graph)
      /\ DOMAIN regions' = R \cup {nextId}
  BY ReduceFacts
<1> HIDE DEF L, R
<1>5. AreCollapsed(graph.node, L, I, nextId, J, curr.node, curr.edge, LoopNodes(n),
                   EntryEdges(n), Entries(n), Exits(n))
  BY <1>2, <1>3 DEF AreCollapsed, Entries, Exits, ExitEdgesOf
<1>6. IsCollapse(graph.node, graph.edge, J, R, nextId, curr.node, curr.edge, LoopNodes(n),
                 Entries(n), Exits(n))
  BY <1>3, <1>5, CollapsedGraph
<1>7. /\ curr'.node = {J[x] : x \in graph.node}
      /\ curr'.edge = {<<J[e[1]], J[e[2]]>> : e \in graph.edge} \ {<<r, r>> : r \in DOMAIN regions'}
  BY <1>4, <1>6 DEF Collapses, IsCollapse
<1>8. graph.edge \cap (graph.node \X graph.node) = graph.edge
  BY <1>4 DEF IsNest
<1> QED  BY <1>1, <1>4, <1>7, <1>8 DEF IsQuotient

\* The new region is the quotient of its loop by the loops inside.
LEMMA RegionIsQuotient ==
    ASSUME ReductionInvariant, NEW n, Collapses(n), ~HasDeepBackEdge(graph)
    PROVE  IsQuotient(regions'[nextId].graph, graph, LoopOf(graph, n),
                      (Headers \cap LoopOf(graph, n)) \ {n}, regions')
<1> DEFINE L == LoopOf(graph, n)
           S == (Headers \cap L) \ {n}
           R == DOMAIN regions
<1>1. PICK I, J :
        /\ I = [x \in graph.node |-> ImageBy(LoopsAt(graph, Reduced), SurrogatesIn(regions), x)]
        /\ J = [x \in L |-> ImageBy(LoopsAt(graph, S), SurrogatesIn(regions'), x)]
  OBVIOUS
<1>2. /\ IsNest(graph) /\ Headers = HeadsOf(graph) /\ S \subseteq Headers
      /\ IsNext(graph, Reduced, n) /\ S \subseteq Reduced
      /\ \A k \in Reduced : SurrogatesIn(regions')[k] = SurrogatesIn(regions)[k]
      /\ DOMAIN regions' = R \cup {nextId}
  BY ReduceFacts DEF IsNext
<1>3. IsImage(graph, L, S, SurrogatesIn(regions'), J)
  BY <1>1, <1>2, ReduceFacts
<1>4. IsImage(graph, L, S, SurrogatesIn(regions'), I)
  <2>1. IsImage(graph, graph.node, Reduced, SurrogatesIn(regions), I)
    BY <1>1, ReduceFacts
  <2>2. IsImage(graph, L, S, SurrogatesIn(regions), I)
    BY <1>2, <2>1, InnerImage
  <2>3. \A k \in S : SurrogatesIn(regions')[k] = SurrogatesIn(regions)[k]
    BY <1>2
  <2> HIDE DEF S, L
  <2> QED  BY <2>2, <2>3, ImageSame
<1> HIDE DEF R
<1>5. \A x \in L : J[x] = I[x]
  <2>1. S \in SUBSET HeadsOf(graph)
    BY <1>2
  <2> HIDE DEF S, L
  <2> QED  BY <1>2, <1>3, <1>4, <2>1, ImageIsOne
<1>6. /\ curr.node = {I[x] : x \in graph.node}
      /\ IsCollapsible(graph.node, graph.edge, L, n, TailsOf(graph, n), I, R, nextId)
      /\ AreEdges(graph.edge, L, n, TailsOf(graph, n), I, R, curr.edge, LoopNodes(n), EntryEdges(n))
  BY <1>1, EdgesOfNext DEF R
<1> HIDE DEF L, S
<1>7. IsInside(graph.edge, L, J, R, nextId, curr.node, curr.edge, LoopNodes(n))
  BY <1>5, <1>6, RegionGraph
<1>8. /\ regions'[nextId].graph.node = {J[x] : x \in L}
      /\ regions'[nextId].graph.edge = {<<J[e[1]], J[e[2]]>> : e \in graph.edge \cap (L \X L)}
                                       \ {<<r, r>> : r \in DOMAIN regions'}
  BY <1>2, <1>7 DEF Collapses, IsInside
<1>9. IsQuotient(regions'[nextId].graph, graph, L, S, regions')
  BY <1>1, <1>8 DEF IsQuotient
<1> QED  BY <1>9 DEF L, S

LEMMA ReduceKeepsQuotients ==
    ASSUME ReductionInvariant, NEW n, Collapses(n), ~HasDeepBackEdge(graph)
    PROVE  Quotients'
<1> DEFINE LoopAt(k) == [head |-> k, tails |-> TailsOf(graph, k), nodes |-> LoopOf(graph, k)]
           Inner(k) == (Headers \cap LoopOf(graph, k)) \ {k}
<1>1. /\ IsNest(graph) /\ Headers = HeadsOf(graph) /\ Reduced \subseteq Headers
      /\ IsNext(graph, Reduced, n) /\ n \in Headers \ Reduced /\ stage = "reduce"
      /\ \A k \in Reduced : SurrogatesIn(regions')[k] = SurrogatesIn(regions)[k]
      /\ DOMAIN regions' = DOMAIN regions \cup {nextId}
  BY ReduceFacts
<1>2. /\ \A r \in DOMAIN regions : regions'[r] = regions[r]
      /\ regions'[nextId].header = n /\ regions'[nextId].graph.entry = n
      /\ {"node", "edge", "entry"} \subseteq DOMAIN regions'[nextId].graph
      /\ graph' = graph /\ UNCHANGED vars
  BY DEF Collapses, vars
<1>3. Headers' = Headers
  BY <1>2, NestStays
<1>4. NaturalLoops(graph) = {LoopAt(m) : m \in HeadsOf(graph)}
  BY NaturalLoopsAreLoops
<1>5. \A m : LoopAt(m).head = m /\ LoopAt(m).nodes = LoopOf(graph, m)
  OBVIOUS
<1> HIDE DEF LoopAt
<1>6. \A loop \in NaturalLoops(graph) : loop.nodes = LoopOf(graph, loop.head) /\ loop.head \in HeadsOf(graph)
  BY <1>4, <1>5
<1>7. /\ \A r \in DOMAIN regions : /\ {"node", "edge", "entry"} \subseteq DOMAIN regions[r].graph
                                    /\ regions[r].graph.entry = regions[r].header
      /\ \A loop \in NaturalLoops(graph) : \A r \in DOMAIN regions :
          loop.head = regions[r].header =>
            IsQuotient(regions[r].graph, graph, loop.nodes,
                       (Headers \cap loop.nodes) \ {loop.head}, regions)
  BY <1>1 DEF ReductionInvariant, Quotients
<1>8. IsQuotient(curr', graph', graph'.node, Reduced', regions')
  BY <1>2, CurrentStaysQuotient
<1>9. \A r \in DOMAIN regions' : /\ {"node", "edge", "entry"} \subseteq DOMAIN regions'[r].graph
                                  /\ regions'[r].graph.entry = regions'[r].header
  BY <1>1, <1>2, <1>7
<1>10. ASSUME NEW loop \in NaturalLoops(graph), NEW r \in DOMAIN regions', loop.head = regions'[r].header
       PROVE  IsQuotient(regions'[r].graph, graph, loop.nodes,
                         (Headers \cap loop.nodes) \ {loop.head}, regions')
  <2>1. CASE r = nextId
    <3>1. loop.head = n /\ loop.nodes = LoopOf(graph, n)
      BY <1>2, <1>6, <1>10, <2>1
    <3> QED  BY <2>1, <3>1, RegionIsQuotient
  <2>2. CASE r \in DOMAIN regions
    <3> DEFINE N == loop.nodes
               h == loop.head
               S == (Headers \cap N) \ {h}
               s == SurrogatesIn(regions)
               t == SurrogatesIn(regions')
    <3>1. PICK I, J :
            /\ I = [x \in N |-> ImageBy(LoopsAt(graph, S), s, x)]
            /\ J = [x \in N |-> ImageBy(LoopsAt(graph, S), t, x)]
      OBVIOUS
    <3>2. h = regions[r].header /\ h \in Reduced /\ N = LoopOf(graph, h) /\ N \subseteq graph.node
      BY <1>1, <1>2, <1>6, <1>10, <2>2, ReductionFacts DEF IsNest
    <3>3. S \subseteq Reduced /\ S \in SUBSET HeadsOf(graph) /\ S \subseteq Headers
      BY <1>1, <3>2, ReductionFacts
    <3>4. IsImage(graph, N, S, s, I) /\ IsImage(graph, N, S, t, J)
      BY <3>1, <3>3, ReduceFacts
    <3>5. IsQuotient(regions[r].graph, graph, N, S, regions)
      BY <1>7, <2>2, <3>2
    <3>6. \A k \in S : t[k] = s[k]
      BY <1>1, <3>3
    <3> HIDE DEF N, h, S, t
    <3>7. IsImage(graph, N, S, t, I)
      BY <3>4, <3>6, ImageSame
    <3>8. \A x \in N : I[x] = J[x]
      BY <1>1, <3>3, <3>4, <3>7, ImageIsOne
    <3>9. \A x \in N : I[x] # nextId
      <4>1. SUFFICES ASSUME NEW x \in N PROVE I[x] # nextId
        OBVIOUS
      <4>2. I[x] = x \/ \E k : IsOutermost(graph, S, x, k) /\ I[x] = s[k]
        BY <3>4 DEF IsImage
      <4>3. \A k : IsOutermost(graph, S, x, k) => k \in Reduced
        BY <3>3 DEF IsOutermost
      <4>4. /\ \A k \in Reduced : s[k] \in DOMAIN regions
            /\ nextId \notin graph.node /\ nextId \notin DOMAIN regions
        BY <1>1, FreshSurrogates
      <4> QED  BY <3>2, <4>2, <4>3, <4>4
    <3>10. \A x \in N : /\ ImageBy(LoopsAt(graph, S), t, x) = ImageBy(LoopsAt(graph, S), s, x)
                        /\ ImageBy(LoopsAt(graph, S), s, x) # nextId
      BY <3>1, <3>8, <3>9
    <3>11. IsQuotient(regions[r].graph, graph, N, S, regions')
      BY <1>1, <3>5, <3>10, SameQuotient DEF t
    <3> QED  BY <1>2, <2>2, <3>11 DEF N, S, h
  <2> QED  BY <1>1, <2>1, <2>2
<1> QED  BY <1>2, <1>3, <1>8, <1>9, <1>10 DEF Quotients

-----------------------------------------------------------------------------
(* The steps of the reduction.                                             *)

LEMMA ReductionStays ==
    ASSUME ReductionInvariant, UNCHANGED <<vars, curr, regions, nextId>>
    PROVE  /\ InductiveInvariant' /\ (phase = "analyzed" => phase' = "analyzed")
           /\ (stage' # "waiting" => CurrentGraph')
           /\ Headers' = Headers /\ Reduced' = Reduced
           /\ SurrogatesAreNew' = SurrogatesAreNew
           /\ SurrogatesAreKept' = SurrogatesAreKept
           /\ (HasDeepBackEdge(graph)' \/ Quotients') = (HasDeepBackEdge(graph) \/ Quotients)
<1>1. InductiveInvariant' /\ (phase = "analyzed" => phase' = "analyzed")
  BY StepHolds DEF ReductionInvariant, vars
<1>2. CurrentGraph
  BY DEF ReductionInvariant
<1>3. stage' # "waiting" => CurrentGraph'
  BY <1>2 DEF CurrentGraph
<1>4. /\ Headers' = Headers /\ LoopLevel' = LoopLevel
      /\ (\A h : NodesOf(h)' = NodesOf(h))
      /\ HasDeepBackEdge(graph)' = HasDeepBackEdge(graph)
  BY NestStays
<1>5. Reduced' = Reduced /\ \A h : SurrogateOf(h)' = SurrogateOf(h)
  BY DEF Reduced, SurrogateOf
<1>6. SurrogatesAreNew' = SurrogatesAreNew
  BY <1>4, <1>5 DEF SurrogatesAreNew, vars
<1>7. SurrogatesAreKept' = SurrogatesAreKept
  BY <1>4, <1>5 DEF SurrogatesAreKept, vars
<1>8. Quotients' = Quotients
  BY <1>4, <1>5 DEF Quotients, vars
<1> QED  BY <1>1, <1>3, <1>4, <1>5, <1>6, <1>7, <1>8

LEMMA ReductionInitHolds == InitReduction => ReductionInvariant
<1> SUFFICES ASSUME InitReduction PROVE ReductionInvariant
  OBVIOUS
<1>1. InductiveInvariant
  BY InitHolds DEF InitReduction
<1>2. IsFlowGraph(graph)
  BY <1>1 DEF InductiveInvariant, TypeOK
<1>3. CurrentGraph
  BY <1>2 DEF InitReduction, CurrentGraph, IsFlowGraph
<1> QED  BY <1>1, <1>3 DEF InitReduction, ReductionInvariant, Stages, Assembled

LEMMA AnalyzeStep ==
    ASSUME ReductionInvariant, Analyze
    PROVE  ReductionInvariant'
<1>1. AnalysisStep /\ UNCHANGED <<stage, curr, regions, nextId, hierarchy>>
  BY DEF Analyze, reduction
<1>2. phase # "analyzed"
  BY <1>1 DEF AnalysisStep, PruneUnreachable, VisitSuccessor, LeaveNode, CheckTree, FindBackEdges,
    TryHeader, ExpandBody, CollapseLoop, FinishHeaders, BuildLoopTree
<1>3. stage = "waiting" /\ InductiveInvariant /\ CurrentGraph /\ IsFlowGraph(graph)
  BY <1>2 DEF ReductionInvariant, InductiveInvariant, TypeOK
<1>4. InductiveInvariant'
  BY <1>1, <1>3, StepHolds DEF Next
<1>5. graph'.node \subseteq graph.node
  <2>1. CASE PruneUnreachable
    BY <1>3, <2>1 DEF PruneUnreachable, Subgraph, IsFlowGraph
  <2>2. CASE ~PruneUnreachable
    BY <1>1, <2>2 DEF AnalysisStep, VisitSuccessor, LeaveNode, CheckTree, FindBackEdges,
      TryHeader, ExpandBody, CollapseLoop, FinishHeaders, BuildLoopTree
  <2> QED  BY <2>1, <2>2
<1>6. CurrentGraph'
  BY <1>1, <1>3, <1>5 DEF CurrentGraph
<1> QED  BY <1>1, <1>3, <1>4, <1>6 DEF ReductionInvariant, Stages, Assembled

LEMMA StartStep ==
    ASSUME ReductionInvariant, StartReduction
    PROVE  ReductionInvariant'
<1>1. /\ phase = "analyzed" /\ stage = "waiting" /\ stage' = "reduce" /\ curr' = graph
      /\ nextId' = Max(curr.node) + 1 /\ UNCHANGED vars /\ regions' = regions
      /\ graph' = graph /\ phase' = "analyzed"
  BY DEF StartReduction, vars
<1>2. /\ InductiveInvariant /\ IsFlowGraph(graph) /\ regions = << >>
      /\ IsFiniteSet(curr.node) /\ curr.node \in SUBSET Int /\ graph.node \subseteq curr.node
  BY <1>1 DEF ReductionInvariant, InductiveInvariant, TypeOK, CurrentGraph
<1>3. InductiveInvariant'
  BY <1>1, <1>2, StepHolds
<1>4. DOMAIN regions' = {} /\ Reduced' = {}
  BY <1>1, <1>2 DEF Reduced
<1>5. CurrentGraph'
  BY <1>1, <1>2 DEF CurrentGraph, IsFlowGraph
<1>6. SurrogatesAreNew'
  <2>1. Max(curr.node) \in curr.node /\ \A n \in curr.node : n <= Max(curr.node)
    <3>1. curr.node # {}
      BY <1>2 DEF IsFlowGraph
    <3> QED  BY <1>2, <3>1, MaxOfFiniteIntegers
  <2>2. nextId' \in Int /\ \A n \in graph'.node : n < nextId'
    <3> HIDE DEF Max
    <3> QED  BY <1>1, <1>2, <2>1
  <2>3. IsFiniteSet(DOMAIN regions')
    BY <1>4, FS_EmptySet
  <2> QED  BY <1>4, <2>2, <2>3 DEF SurrogatesAreNew
<1>7. SurrogatesAreKept'
  BY <1>4 DEF SurrogatesAreKept
<1>8. Quotients'
  <2>1. \A n : ImageBy(LoopsAt(graph, {}), SurrogatesIn(regions'), n) = n
    <3>1. LoopsAt(graph, {}) = {}
      BY DEF LoopsAt
    <3>2. \A n : Around({}, n) = {}
      BY DEF Around
    <3> QED  BY <3>1, <3>2 DEF ImageBy
  <2>2. PICK I : I = [n \in graph.node |-> ImageBy(LoopsAt(graph, {}), SurrogatesIn(regions'), n)]
    OBVIOUS
  <2>3. \A n \in graph.node : I[n] = n
    BY <2>1, <2>2
  <2>4. graph.edge \cap (graph.node \X graph.node) = graph.edge
    BY <1>2 DEF IsFlowGraph
  <2>5. graph.node = {I[n] : n \in graph.node}
    BY <2>3
  <2>6. graph.edge = {<<I[e[1]], I[e[2]]>> : e \in graph.edge} \ {<<r, r>> : r \in DOMAIN regions'}
    <3>1. \A e \in graph.edge : e = <<I[e[1]], I[e[2]]>>
      BY <1>2, <2>3 DEF IsFlowGraph
    <3> QED  BY <1>4, <3>1
  <2>7. IsQuotient(graph, graph, graph.node, {}, regions')
    <3>1. graph.edge = {<<I[e[1]], I[e[2]]>> : e \in graph.edge \cap (graph.node \X graph.node)}
                       \ {<<r, r>> : r \in DOMAIN regions'}
      BY <2>4, <2>6
    <3> QED  BY ONLY <2>2, <2>5, <3>1 DEF IsQuotient
  <2> QED  BY <1>1, <1>4, <2>7 DEF Quotients
<1> QED  BY <1>1, <1>3, <1>5, <1>6, <1>7, <1>8 DEF ReductionInvariant, Stages, Assembled

LEMMA ReduceStep ==
    ASSUME ReductionInvariant, ReduceSingleLoop
    PROVE  ReductionInvariant'
<1>1. PICK n : Collapses(n)
  BY ReducePicks
<1>2. stage' = "reduce" /\ stage = "reduce" /\ UNCHANGED vars /\ phase' = phase
  BY <1>1 DEF Collapses, vars
<1>3. InductiveInvariant' /\ phase' = "analyzed"
  BY <1>2, StepHolds DEF ReductionInvariant
<1>4. CurrentGraph' /\ SurrogatesAreNew' /\ SurrogatesAreKept'
  BY <1>1, ReduceKeepsGraph, ReduceKeepsNew, ReduceKeepsSurrogates
<1>5. HasDeepBackEdge(graph)' = HasDeepBackEdge(graph)
  BY <1>2, NestStays
<1>6. ~HasDeepBackEdge(graph) => Quotients'
  BY <1>1, ReduceKeepsQuotients
<1>7. Assembled'
  BY <1>2 DEF Assembled
<1> QED  BY <1>2, <1>3, <1>4, <1>5, <1>6, <1>7 DEF ReductionInvariant, Stages

LEMMA FinishStep ==
    ASSUME ReductionInvariant, FinishReduction
    PROVE  ReductionInvariant'
<1>1. /\ stage = "reduce" /\ stage' = "assemble" /\ Headers = Reduced
      /\ UNCHANGED <<vars, curr, regions, nextId>>
  BY DEF FinishReduction
<1>2. /\ phase = "analyzed" /\ SurrogatesAreNew /\ SurrogatesAreKept
      /\ ~HasDeepBackEdge(graph) => Quotients
  BY <1>1 DEF ReductionInvariant
<1>3. Assembled'
  BY <1>1, ReductionStays DEF Assembled
<1> QED  BY <1>1, <1>2, <1>3, ReductionStays DEF ReductionInvariant, Stages

\* get_individual_loops_as_hierarchy finds one flow for every region, that of the loop around.
LEMMA HeldByParent ==
    ASSUME ReductionInvariant, stage = "assemble", NEW r \in DOMAIN regions
    PROVE  /\ regions[r].level > 0 <=> loops[regions[r].header].parent # Root
           /\ loops[regions[r].header].parent # Root =>
                FlowsHolding(r) = {SurrogateOf(loops[regions[r].header].parent)}
<1> DEFINE h == regions[r].header
           p == loops[h].parent
<1>1. /\ InductiveInvariant /\ phase = "analyzed"
      /\ Headers = Reduced
      /\ \A k \in Reduced : SurrogateOf(k) \in DOMAIN regions /\ regions[SurrogateOf(k)].header = k
      /\ \A q \in DOMAIN regions : /\ regions[q].header \in Reduced
                                   /\ SurrogateOf(regions[q].header) = q
  BY ReductionFacts DEF ReductionInvariant, Assembled
<1>2. \A q \in DOMAIN regions :
        /\ regions[q].level = LoopLevel[regions[q].header]
        /\ \A m \in Headers : loops[m].parent = regions[q].header
              => SurrogateOf(m) \in regions[q].graph.node
        /\ \A b \in DOMAIN regions \cap regions[q].graph.node :
              loops[regions[b].header].parent = regions[q].header
  BY DEF ReductionInvariant, SurrogatesAreKept
<1>3. /\ \A k \in Headers : Depth(k) \in Nat
      /\ \A k \in Headers : loops[k].parent = Root => Depth(k) = 1
      /\ \A k \in Headers : loops[k].parent # Root =>
            loops[k].parent \in Headers /\ Depth(k) = Depth(loops[k].parent) + 1
  BY <1>1, Depths
<1>4. \A q \in DOMAIN regions : regions[q].level = Depth(regions[q].header) - 1
  BY <1>1, <1>2, LevelsAreDepths
<1>5. h \in Headers
  BY <1>1
<1>6. regions[r].level > 0 <=> p # Root
  <2>1. CASE p = Root
    BY <1>3, <1>4, <1>5, <2>1
  <2>2. CASE p # Root
    <3>1. p \in Headers /\ Depth(h) = Depth(p) + 1 /\ Depth(p) \in Nat
      BY <1>3, <1>5, <2>2
    <3>2. Depth(p) # 0
      BY <1>3, <3>1
    <3> QED  BY <1>4, <2>2, <3>1, <3>2
  <2> QED  BY <2>1, <2>2
<1>7. ASSUME p # Root PROVE FlowsHolding(r) = {SurrogateOf(p)}
  <2>1. p \in Headers /\ Depth(h) = Depth(p) + 1 /\ Depth(p) \in Nat
    BY <1>3, <1>5, <1>7
  <2>2. SurrogateOf(p) \in DOMAIN regions /\ regions[SurrogateOf(p)].header = p
    BY <1>1, <2>1
  <2>3. regions[SurrogateOf(p)].level = regions[r].level - 1
    <3>1. regions[SurrogateOf(p)].level = Depth(p) - 1 /\ regions[r].level = Depth(h) - 1
      BY <1>4, <2>2
    <3> QED  BY <2>1, <3>1
  <2>4. r \in regions[SurrogateOf(p)].graph.node
    BY <1>1, <1>2, <1>5, <2>2
  <2>5. ASSUME NEW q \in FlowsHolding(r) PROVE q = SurrogateOf(p)
    <3>1. q \in DOMAIN regions /\ r \in regions[q].graph.node
      BY <2>5 DEF FlowsHolding
    <3>2. p = regions[q].header
      BY <1>2, <3>1
    <3> QED  BY <1>1, <3>1, <3>2
  <2> QED  BY <2>2, <2>3, <2>4, <2>5 DEF FlowsHolding
<1> QED  BY <1>6, <1>7

LEMMA AssembleStep ==
    ASSUME ReductionInvariant, AssembleHierarchy
    PROVE  ReductionInvariant'
<1>1. /\ stage = "assemble" /\ UNCHANGED <<vars, curr, regions, nextId>>
      /\ loops' = loops
  BY DEF AssembleHierarchy, vars
<1>2. \A r \in DOMAIN regions :
        /\ regions[r].level > 0 <=> loops[regions[r].header].parent # Root
        /\ loops[regions[r].header].parent # Root =>
             FlowsHolding(r) = {SurrogateOf(loops[regions[r].header].parent)}
  BY <1>1, HeldByParent
<1>3. /\ stage' = "done"
      /\ \A r \in DOMAIN regions :
           IF loops[regions[r].header].parent = Root
           THEN hierarchy'[r] = Top
           ELSE hierarchy'[r] = SurrogateOf(loops[regions[r].header].parent)
  <2>1. ~ \E r \in {r \in DOMAIN regions : regions[r].level > 0} : FlowsHolding(r) = {}
    BY <1>2
  <2>2. /\ stage' = "done"
        /\ \A r \in DOMAIN regions :
             IF r \in {q \in DOMAIN regions : regions[q].level > 0}
             THEN hierarchy'[r] \in FlowsHolding(r) ELSE hierarchy'[r] = Top
    BY <2>1 DEF AssembleHierarchy
  <2> QED  BY <1>2, <2>2
<1>4. /\ phase = "analyzed" /\ SurrogatesAreNew /\ SurrogatesAreKept /\ Headers = Reduced
      /\ ~HasDeepBackEdge(graph) => Quotients
  BY <1>1 DEF ReductionInvariant, Assembled
<1>5. regions' = regions /\ Root' = Root /\ \A h : SurrogateOf(h)' = SurrogateOf(h)
  BY <1>1 DEF Root, SurrogateOf, vars
<1>6. Assembled'
  BY <1>1, <1>3, <1>4, <1>5, ReductionStays DEF Assembled
<1> QED  BY <1>1, <1>3, <1>4, <1>6, ReductionStays DEF ReductionInvariant, Stages

LEMMA ReductionStepHolds ==
    ASSUME ReductionInvariant, [NextReduction]_allVars
    PROVE  ReductionInvariant'
<1>1. CASE UNCHANGED allVars
  <2>1. /\ UNCHANGED <<vars, curr, regions, nextId>> /\ UNCHANGED <<stage, hierarchy, loops>>
        /\ phase' = phase /\ CurrentGraph /\ stage \in Stages /\ Assembled
    BY <1>1 DEF allVars, reduction, vars, ReductionInvariant
  <2>2. regions' = regions /\ Root' = Root /\ \A h : SurrogateOf(h)' = SurrogateOf(h)
    BY <2>1 DEF Root, SurrogateOf, vars
  <2>3. Assembled'
    BY <2>1, <2>2, ReductionStays DEF Assembled
  <2>4. CurrentGraph'
    BY <2>1 DEF CurrentGraph, vars
  <2> QED  BY <2>1, <2>3, <2>4, ReductionStays DEF ReductionInvariant
<1>2. CASE Analyze \/ Reduction
  BY <1>2, AnalyzeStep, StartStep, ReduceStep, FinishStep, AssembleStep DEF Reduction
<1> QED  BY <1>1, <1>2 DEF NextReduction, Ended

-----------------------------------------------------------------------------
(* The theorems about the reduction.                                       *)

\* The invariant holds in every reachable state of get_reduced_hierarchy.
THEOREM ReductionInvariantHolds == SpecReduction => []ReductionInvariant
<1>1. InitReduction => ReductionInvariant
  BY ReductionInitHolds
<1>2. ReductionInvariant /\ [NextReduction]_allVars => ReductionInvariant'
  BY ReductionStepHolds
<1> QED  BY <1>1, <1>2, PTL DEF SpecReduction

\* The hierarchy of flows can always be built, and its flows hang into each other as the
\* loops do (get_individual_loops_as_hierarchy).
THEOREM HierarchyIsTree == SpecReduction => []HierarchyIsLoopTree
<1>1. ReductionInvariant => HierarchyIsLoopTree
  BY DEF ReductionInvariant, Assembled, HierarchyIsLoopTree
<1> QED  BY <1>1, ReductionInvariantHolds, PTL

\* Every variable keeps its type, and every loop that has been reduced has one surrogate, a
\* node that was not in the flow (reduce_all_loops).
THEOREM ReductionTypeCorrect == SpecReduction => []TypeOKReduction
<1>1. ASSUME ReductionInvariant PROVE TypeOKReduction
  <2>1. TypeOK /\ stage \in Stages /\ curr.node \subseteq Int /\ curr.edge \subseteq curr.node \X curr.node
    BY <1>1 DEF ReductionInvariant, InductiveInvariant, CurrentGraph
  <2>2. ASSUME stage # "waiting"
        PROVE  /\ DOMAIN regions \subseteq Int \ graph.node
               /\ \A r \in DOMAIN regions : r < nextId
               /\ Reduced \subseteq Headers
               /\ Cardinality(Reduced) = Cardinality(DOMAIN regions)
    <3>1. /\ IsFiniteSet(DOMAIN regions) /\ OnePerHeader(regions) /\ Reduced \subseteq Headers
          /\ \A r \in DOMAIN regions : r \in Int /\ r < nextId
          /\ \A r \in DOMAIN regions : r \notin graph.node
      BY <1>1, <2>2, ReductionFacts, FreshSurrogates DEF ReductionInvariant, SurrogatesAreNew
    <3>2. Cardinality(Reduced) = Cardinality(DOMAIN regions)
      <4> DEFINE f == [r \in DOMAIN regions |-> regions[r].header]
      <4>1. f \in Bijection(DOMAIN regions, Reduced)
        BY <3>1 DEF OnePerHeader, Reduced, Bijection, Injection, Surjection, IsInjective
      <4>2. ExistsBijection(DOMAIN regions, Reduced)
        BY <4>1 DEF ExistsBijection
      <4> QED  BY <3>1, <4>2, FS_Bijection
    <3> QED  BY <3>1, <3>2
  <2> QED  BY <2>1, <2>2 DEF TypeOKReduction
<1> QED  BY <1>1, ReductionInvariantHolds, PTL

\* After every single reduction the graph is the quotient of the analysed graph by the loops
\* reduced so far, unless a back edge comes from inside an inner loop: translate_node_id,
\* which knows the headers only, then leaves a node behind.
THEOREM ReductionIsQuotient ==
    SpecReduction => [](~HasDeepBackEdge(graph) => CurrentIsQuotient)
<1>1. ASSUME ReductionInvariant, ~HasDeepBackEdge(graph), stage \in {"reduce", "assemble", "done"}
      PROVE  LET nest == {loop \in NaturalLoops(graph) : loop.head \in Reduced}
             IN  /\ curr.node = {ImageIn(nest, n) : n \in graph.node}
                 /\ curr.edge = {<<ImageIn(nest, e[1]), ImageIn(nest, e[2])>> : e \in graph.edge}
                                \ {<<r, r>> : r \in DOMAIN regions}
  <2> DEFINE nest == LoopsAt(graph, Reduced)
             s == SurrogatesIn(regions)
  <2>1. /\ IsQuotient(curr, graph, graph.node, Reduced, regions) /\ IsFlowGraph(graph)
        /\ \A h \in Reduced : SurrogateOf(h) = s[h]
    BY <1>1, ReductionFacts DEF ReductionInvariant, Quotients
  <2>2. PICK I : I = [n \in graph.node |-> ImageBy(nest, s, n)]
    OBVIOUS
  <2>3. \A n : ImageIn(nest, n) = ImageBy(nest, s, n)
    <3>1. \A loop \in nest : loop.head \in Reduced
      BY DEF LoopsAt
    <3>2. SUFFICES ASSUME NEW n PROVE ImageIn(nest, n) = ImageBy(nest, s, n)
      OBVIOUS
    <3> DEFINE outer == {loop \in Around(nest, n) :
                           \A other \in Around(nest, n) : other.nodes \subseteq loop.nodes}
    <3>3. \A loop \in outer : loop.head \in Reduced
      BY <3>1 DEF Around
    <3> HIDE DEF nest
    <3>4. /\ ImageIn(nest, n) = IF outer = {} THEN n ELSE SurrogateOf((CHOOSE loop \in outer : TRUE).head)
          /\ ImageBy(nest, s, n) = IF outer = {} THEN n ELSE s[(CHOOSE loop \in outer : TRUE).head]
      BY DEF ImageIn, ImageBy
    <3> HIDE DEF outer, s
    <3>5. outer # {} => (CHOOSE loop \in outer : TRUE) \in outer
      OBVIOUS
    <3> QED  BY <2>1, <3>3, <3>4, <3>5
  <2>4. /\ curr.node = {I[n] : n \in graph.node}
        /\ curr.edge = {<<I[e[1]], I[e[2]]>> : e \in graph.edge} \ {<<r, r>> : r \in DOMAIN regions}
    <3>1. graph.edge \cap (graph.node \X graph.node) = graph.edge
      BY <2>1 DEF IsFlowGraph
    <3> QED  BY <2>1, <2>2, <3>1 DEF IsQuotient
  <2>5. nest = {loop \in NaturalLoops(graph) : loop.head \in Reduced}
    BY DEF LoopsAt
  <2> HIDE DEF nest, s
  <2>6. \A n \in graph.node : I[n] = ImageIn(nest, n)
    BY <2>2, <2>3
  <2>7. curr.node = {ImageIn(nest, n) : n \in graph.node}
    BY <2>4, <2>6
  <2>8. {<<I[e[1]], I[e[2]]>> : e \in graph.edge}
          = {<<ImageIn(nest, e[1]), ImageIn(nest, e[2])>> : e \in graph.edge}
    <3>1. \A e \in graph.edge : e[1] \in graph.node /\ e[2] \in graph.node
      BY <2>1 DEF IsFlowGraph
    <3> QED  BY <2>6, <3>1
  <2> QED  BY <2>4, <2>5, <2>7, <2>8
<1>2. ReductionInvariant => (~HasDeepBackEdge(graph) => CurrentIsQuotient)
  BY <1>1 DEF CurrentIsQuotient
<1> QED  BY <1>2, ReductionInvariantHolds, PTL

-----------------------------------------------------------------------------
(* What is left has no cycle.                                              *)

\* The node, or the head of the loop, that the image of x stands for.
StandsFor(g, S, x, a) ==
    \/ a = x /\ \A h \in S : x \notin LoopOf(g, h)
    \/ IsOutermost(g, S, x, a)

\* The edges e are those of the quotient: those between different images, of which those
\* to a head are none but its own.
LEMMA QuotientLeadsDown ==
    ASSUME NEW g, IsFlowGraph(g), Reducible(g), NEW num, NEW end, IsSearch(g, num, end),
           NEW S \in SUBSET HeadsOf(g), NEW e \in g.edge, NEW a, NEW b,
           StandsFor(g, S, e[1], a), StandsFor(g, S, e[2], b), a # b,
           e[2] \in S \/ e \notin BackEdges(g)
    PROVE  IsBelow(num, end, b, a) /\ a \in g.node /\ b \in g.node
<1>1. IsNest(g)
  BY LoopsAreNest
<1>2. e[1] \in g.node /\ e[2] \in g.node /\ S \subseteq HeadsOf(g) /\ HeadsOf(g) \subseteq g.node
  BY <1>1 DEF IsFlowGraph, IsNest
<1>3. a \in g.node /\ b \in g.node
  BY <1>2 DEF StandsFor, IsOutermost
<1>4. ASSUME b \in S, e[2] \in LoopOf(g, b), e[1] \in LoopOf(g, b),
             \A k \in S : e[2] \in LoopOf(g, k) => k \in LoopOf(g, b)
      PROVE  FALSE
  <2>1. a \in S /\ e[1] \in LoopOf(g, a) /\ b \in LoopOf(g, a)
    BY <1>4 DEF StandsFor, IsOutermost
  <2>2. LoopOf(g, b) \subseteq LoopOf(g, a) /\ a \notin LoopOf(g, b)
    BY <1>1, <1>2, <1>4, <2>1 DEF IsNest
  <2> QED  BY <1>4, <2>1, <2>2
<1>5. e[2] = b
  <2>1. SUFFICES ASSUME e[2] # b, IsOutermost(g, S, e[2], b) PROVE FALSE
    BY DEF StandsFor
  <2>2. b \in S /\ e[2] \in LoopOf(g, b) /\ \A k \in S : e[2] \in LoopOf(g, k) => k \in LoopOf(g, b)
    BY <2>1 DEF IsOutermost
  <2>3. e[1] \in LoopOf(g, b)
    BY <1>1, <1>2, <2>1, <2>2 DEF IsNest
  <2> QED  BY <1>4, <2>2, <2>3
<1>6. e \notin BackEdges(g)
  <2>1. SUFFICES ASSUME e \in BackEdges(g), b \in S PROVE FALSE
    BY <1>5
  <2>2. b \in LoopOf(g, b) /\ e[1] \in LoopOf(g, b)
    <3>1. e[1] \in TailsOf(g, b)
      BY <1>5, <2>1 DEF TailsOf
    <3> QED  BY <1>1, <1>2, <2>1, <3>1 DEF IsNest
  <2>3. \A k \in S : e[2] \in LoopOf(g, k) => k \in LoopOf(g, b)
    BY <1>5, <2>1, <2>2 DEF StandsFor, IsOutermost
  <2> QED  BY <1>4, <1>5, <2>1, <2>2, <2>3
<1>7. IsBelow(num, end, e[2], e[1])
  BY <1>6, UpEdgesIfReducible, OtherEdgesLeadDown
<1>8. num[a] <= num[e[1]] /\ end[e[1]] <= end[a]
  <2>1. CASE a = e[1]
    BY <1>2, <2>1 DEF IsSearch
  <2>2. CASE e[1] \in LoopOf(g, a)
    <3>1. Spans(num, end, a, e[1])
      BY <1>3, <2>2, LoopWithinHead
    <3> QED  BY <1>2, <1>3, <3>1 DEF IsSearch, Spans
  <2> QED  BY <2>1, <2>2 DEF StandsFor, IsOutermost
<1>9. \A n \in g.node : num[n] \in Nat /\ end[n] \in Nat
  BY DEF IsSearch
<1> QED  BY <1>2, <1>3, <1>5, <1>7, <1>8, <1>9 DEF IsBelow

LEMMA StandsForOne ==
    ASSUME NEW g, IsFlowGraph(g), NEW num, NEW end, IsSearch(g, num, end),
           NEW S \in SUBSET HeadsOf(g), NEW s, IsFresh(g, S, s),
           NEW D \in SUBSET g.node, NEW I, IsImage(g, D, S, s, I)
    PROVE  /\ \A x \in D : \E a : StandsFor(g, S, x, a)
           /\ \A x, y \in D : \A a, b : StandsFor(g, S, x, a) /\ StandsFor(g, S, y, b)
                => (I[x] = I[y] <=> a = b)
           /\ \A x \in D : I[x] = x \/ \E h \in S : I[x] = s[h]
<1>1. IsNest(g)
  BY LoopsAreNest
<1>2. \A x \in D : \E a : StandsFor(g, S, x, a)
  BY DEF IsImage, StandsFor
<1>3. ASSUME NEW x \in D, NEW y \in D, NEW a, NEW b, StandsFor(g, S, x, a), StandsFor(g, S, y, b)
      PROVE  I[x] = I[y] <=> a = b
  <2>1. ASSUME NEW z \in D, NEW c, StandsFor(g, S, z, c)
        PROVE  \/ I[z] = z /\ c = z /\ \A h \in S : z \notin LoopOf(g, h)
               \/ I[z] = s[c] /\ c \in S
    <3>1. /\ \A h : IsOutermost(g, S, z, h) => I[z] = s[h]
          /\ (\A h \in S : z \notin LoopOf(g, h)) => I[z] = z
      BY <1>1, ImageOf
    <3>2. CASE c = z /\ \A h \in S : z \notin LoopOf(g, h)
      BY <3>1, <3>2
    <3>3. CASE IsOutermost(g, S, z, c)
      BY <3>1, <3>3 DEF IsOutermost
    <3> QED  BY <2>1, <3>2, <3>3 DEF StandsFor
  <2>2. \A h \in S : s[h] \notin g.node /\ \A k \in S : s[k] = s[h] => k = h
    BY DEF IsFresh
  <2>3. \A h \in S : h \in LoopOf(g, h)
    BY <1>1 DEF IsNest
  <2>4. \/ I[x] = x /\ a = x /\ \A h \in S : x \notin LoopOf(g, h)
        \/ I[x] = s[a] /\ a \in S
    BY <1>3, <2>1
  <2>5. \/ I[y] = y /\ b = y /\ \A h \in S : y \notin LoopOf(g, h)
        \/ I[y] = s[b] /\ b \in S
    BY <1>3, <2>1
  <2> QED  BY <2>2, <2>3, <2>4, <2>5
<1>4. \A x \in D : I[x] = x \/ \E h \in S : I[x] = s[h]
  BY DEF IsImage, IsOutermost
<1> QED  BY <1>2, <1>3, <1>4

\* d is the quotient, or part of it.
IsPartOfQuotient(g, D, S, I, d) ==
    /\ d.node = {I[x] : x \in D}
    /\ d.edge \subseteq d.node \X d.node
    /\ \A z \in d.edge : \E e \in g.edge :
        /\ e[1] \in D /\ e[2] \in D /\ z = <<I[e[1]], I[e[2]]>> /\ I[e[1]] # I[e[2]]
        /\ e[2] \in S \/ e \notin BackEdges(g)

LEMMA QuotientIsAcyclic ==
    ASSUME NEW g, IsFlowGraph(g), Reducible(g), NEW num, NEW end, IsSearch(g, num, end),
           NEW S \in SUBSET HeadsOf(g), NEW s, IsFresh(g, S, s),
           NEW D \in SUBSET g.node, NEW I, IsImage(g, D, S, s, I),
           NEW d, IsPartOfQuotient(g, D, S, I, d)
    PROVE  Acyclic(d)
<1>1. /\ \A x \in D : \E a : StandsFor(g, S, x, a)
      /\ \A x, y \in D : \A a, b : StandsFor(g, S, x, a) /\ StandsFor(g, S, y, b)
            => (I[x] = I[y] <=> a = b)
  BY StandsForOne
<1>2. /\ d.node = {I[x] : x \in D} /\ d.edge \subseteq d.node \X d.node
      /\ \A z \in d.edge : \E e \in g.edge :
            /\ e[1] \in D /\ e[2] \in D /\ z = <<I[e[1]], I[e[2]]>> /\ I[e[1]] # I[e[2]]
            /\ e[2] \in S \/ e \notin BackEdges(g)
  BY DEF IsPartOfQuotient
<1> DEFINE Rep(z) == CHOOSE a : \E x \in D : I[x] = z /\ StandsFor(g, S, x, a)
           rep == [z \in d.node |-> Rep(z)]
<1>3. ASSUME NEW x \in D, NEW a, StandsFor(g, S, x, a) PROVE rep[I[x]] = a
  <2>1. I[x] \in d.node
    BY <1>2
  <2>2. rep[I[x]] = Rep(I[x])
    <3> HIDE DEF Rep
    <3> QED  BY <2>1
  <2>3. \A b : (\E y \in D : I[y] = I[x] /\ StandsFor(g, S, y, b)) <=> b = a
    BY <1>1, <1>3
  <2> HIDE DEF rep
  <2> QED  BY <2>2, <2>3
<1>4. DOMAIN rep = d.node
  OBVIOUS
<1> HIDE DEF Rep
<1>5. rep = [z \in d.node |-> rep[z]]
  OBVIOUS
<1> HIDE DEF rep
<1>6. \A x \in D : \A a : StandsFor(g, S, x, a) => a \in g.node
  <2>1. S \subseteq g.node
    BY LoopsAreNest DEF IsNest
  <2> QED  BY <2>1 DEF StandsFor, IsOutermost
<1>7. rep \in [d.node -> g.node]
  <2>1. ASSUME NEW z \in d.node PROVE rep[z] \in g.node
    <3>1. PICK x \in D : z = I[x]
      BY <1>2
    <3> QED  BY <1>1, <1>3, <1>6, <3>1
  <2> QED  BY <1>5, <2>1
<1>8. ASSUME NEW z \in d.edge PROVE IsBelow(num, end, rep[z[2]], rep[z[1]])
  <2>1. PICK e \in g.edge :
            /\ e[1] \in D /\ e[2] \in D /\ z = <<I[e[1]], I[e[2]]>> /\ I[e[1]] # I[e[2]]
            /\ e[2] \in S \/ e \notin BackEdges(g)
    BY <1>2
  <2>2. PICK a, b : StandsFor(g, S, e[1], a) /\ StandsFor(g, S, e[2], b)
    BY <1>1, <2>1
  <2>3. a # b
    BY <1>1, <2>1, <2>2
  <2>4. IsBelow(num, end, b, a)
    BY <2>1, <2>2, <2>3, QuotientLeadsDown
  <2>5. rep[z[1]] = a /\ rep[z[2]] = b
    BY <1>3, <2>1, <2>2
  <2> QED  BY <2>4, <2>5
<1>9. IsFiniteSet(d.node)
  <2>1. IsFiniteSet(D)
    BY FS_Subset DEF IsFlowGraph
  <2>2. [x \in D |-> I[x]] \in Surjection(D, d.node)
    BY <1>2 DEF Surjection
  <2> QED  BY <2>1, <2>2, FS_Surjection
<1> QED  BY <1>2, <1>7, <1>8, <1>9, AcyclicIfDown DEF IsSearch

\* An edge whose ends have one image goes within a loop.
OneImageMeansLoop(g, D, S, s, I) ==
    \A e \in g.edge :
        e[1] \in D /\ e[2] \in D /\ I[e[1]] = I[e[2]] /\ (e[2] \in S \/ e \notin BackEdges(g))
            => \E h \in S : I[e[1]] = s[h]

LEMMA OneImageIsLoop ==
    ASSUME NEW g, IsFlowGraph(g), IsNest(g), NEW S \in SUBSET HeadsOf(g), NEW s, IsFresh(g, S, s),
           NEW D \in SUBSET g.node, NEW I, IsImage(g, D, S, s, I)
    PROVE  OneImageMeansLoop(g, D, S, s, I)
<1>1. SUFFICES ASSUME NEW e \in g.edge, e[1] \in D, e[2] \in D, I[e[1]] = I[e[2]],
                      e[2] \in S \/ e \notin BackEdges(g),
                      \A h \in S : I[e[1]] # s[h]
               PROVE  FALSE
  BY DEF OneImageMeansLoop
<1>2. \A x \in D : \/ I[x] = x /\ \A h \in S : x \notin LoopOf(g, h)
                   \/ \E h \in S : I[x] = s[h]
  BY DEF IsImage, IsOutermost
<1>3. e[1] = e[2] /\ \A h \in S : e[2] \notin LoopOf(g, h)
  BY <1>1, <1>2
<1>4. e[2] \notin S
  BY <1>3 DEF IsNest
<1>5. Dominates(g, e[2], e[1])
  BY <1>3, DominatesSelf, FlowGraphIsRooted DEF IsFlowGraph
<1> QED  BY <1>1, <1>4, <1>5 DEF BackEdges

LEMMA ReductionSearch ==
    ASSUME ReductionInvariant, stage # "waiting"
    PROVE  /\ IsFlowGraph(graph) /\ IsSearch(graph, Num, End) /\ Reducible(graph) /\ IsNest(graph)
           /\ Headers = HeadsOf(graph) /\ Reduced \subseteq Headers
           /\ \A S, D : S \subseteq Headers =>
                IsImage(graph, D, S, SurrogatesIn(regions),
                        [x \in D |-> ImageBy(LoopsAt(graph, S), SurrogatesIn(regions), x)])
           /\ \A S : S \subseteq Reduced => IsFresh(graph, S, SurrogatesIn(regions))
           /\ \A h \in Reduced : /\ SurrogatesIn(regions)[h] \in DOMAIN regions
                                 /\ regions[SurrogatesIn(regions)[h]].header = h
           /\ \A r \in DOMAIN regions : r \notin graph.node
<1>1. /\ InductiveInvariant /\ phase = "analyzed" /\ IsFlowGraph(graph) /\ IsNest(graph)
      /\ Headers = HeadsOf(graph) /\ Reduced \subseteq Headers
      /\ \A h \in Reduced :
           /\ SurrogateOf(h) = SurrogatesIn(regions)[h]
           /\ SurrogateOf(h) \in DOMAIN regions /\ regions[SurrogateOf(h)].header = h
  BY ReductionFacts
<1>2. IsSearch(graph, Num, End)
  BY <1>1, AnalyzedHeads
<1>3. Reducible(graph)
  BY <1>1, AnalyzedIsReducible
<1>4. \A S, D : S \subseteq Headers =>
         IsImage(graph, D, S, SurrogatesIn(regions),
                 [x \in D |-> ImageBy(LoopsAt(graph, S), SurrogatesIn(regions), x)])
  BY <1>1, <1>2, ImageByIsImage
<1>5. IsFresh(graph, Reduced, SurrogatesIn(regions)) /\ \A r \in DOMAIN regions : r \notin graph.node
  BY FreshSurrogates
<1>6. \A S : S \subseteq Reduced => IsFresh(graph, S, SurrogatesIn(regions))
  BY <1>5 DEF IsFresh
<1> QED  BY <1>1, <1>2, <1>3, <1>4, <1>5, <1>6

\* When all loops are reduced no cycle is left.
LEMMA CurrentIsAcyclic ==
    ASSUME ReductionInvariant, ~HasDeepBackEdge(graph), stage \in {"assemble", "done"}
    PROVE  Acyclic(curr)
<1> DEFINE S == Reduced
           s == SurrogatesIn(regions)
           D == graph.node
<1>1. PICK I : I = [x \in D |-> ImageBy(LoopsAt(graph, S), s, x)]
  OBVIOUS
<1>2. /\ IsFlowGraph(graph) /\ IsSearch(graph, Num, End) /\ Reducible(graph) /\ IsNest(graph)
      /\ S \in SUBSET HeadsOf(graph) /\ IsFresh(graph, S, s) /\ D \in SUBSET graph.node
      /\ \A h \in S : s[h] \in DOMAIN regions
      /\ S = HeadsOf(graph) /\ S \subseteq Headers
  BY ReductionSearch DEF ReductionInvariant, Assembled
<1>3. IsImage(graph, D, S, s, I)
  BY <1>1, <1>2, ReductionSearch
<1>4. /\ curr.node = {I[n] : n \in D}
      /\ curr.edge = {<<I[e[1]], I[e[2]]>> : e \in graph.edge} \ {<<r, r>> : r \in DOMAIN regions}
  <2>1. IsQuotient(curr, graph, D, S, regions)
    BY DEF ReductionInvariant, Quotients
  <2>2. graph.edge \cap (D \X D) = graph.edge
    BY <1>2 DEF IsNest
  <2> QED  BY <1>1, <2>1, <2>2 DEF IsQuotient
<1> HIDE DEF S, s
<1>5. IsPartOfQuotient(graph, D, S, I, curr)
  <2>1. curr.edge \subseteq curr.node \X curr.node
    BY DEF ReductionInvariant, CurrentGraph
  <2>2. ASSUME NEW z \in curr.edge
        PROVE  \E e \in graph.edge :
                 /\ e[1] \in D /\ e[2] \in D /\ z = <<I[e[1]], I[e[2]]>> /\ I[e[1]] # I[e[2]]
                 /\ e[2] \in S \/ e \notin BackEdges(graph)
    <3>1. PICK e \in graph.edge : z = <<I[e[1]], I[e[2]]>>
      BY <1>4
    <3>2. e[1] \in D /\ e[2] \in D
      BY <1>2 DEF IsFlowGraph
    <3>3. e[2] \in S \/ e \notin BackEdges(graph)
      BY <1>2 DEF HeadsOf
    <3>4. I[e[1]] # I[e[2]]
      <4>1. SUFFICES ASSUME I[e[1]] = I[e[2]] PROVE FALSE
        OBVIOUS
      <4>2. \E h \in S : I[e[1]] = s[h]
        <5>1. OneImageMeansLoop(graph, D, S, s, I)
          BY <1>2, <1>3, OneImageIsLoop
        <5> QED  BY <3>2, <3>3, <4>1, <5>1 DEF OneImageMeansLoop
      <4>3. z \notin {<<r, r>> : r \in DOMAIN regions}
        BY <1>4
      <4> QED  BY <1>2, <3>1, <4>1, <4>2, <4>3
    <3> QED  BY <3>1, <3>2, <3>3, <3>4
  <2> QED  BY <1>4, <2>1, <2>2 DEF IsPartOfQuotient
<1> QED  BY <1>2, <1>3, <1>5, QuotientIsAcyclic

\* The image of the nodes of a region, and the region itself.
IsRegion(r, h, D, S, I) ==
    /\ h \in HeadsOf(graph) /\ h \in D /\ D \in SUBSET graph.node
    /\ D = LoopOf(graph, h) /\ S = (HeadsOf(graph) \cap D) \ {h}
    /\ S \in SUBSET HeadsOf(graph) /\ S \subseteq Reduced /\ \A k \in S : h \notin LoopOf(graph, k)
    /\ h = regions[r].header
    /\ IsFresh(graph, S, SurrogatesIn(regions))
    /\ IsImage(graph, D, S, SurrogatesIn(regions), I)
    /\ {"node", "edge", "entry"} \subseteq DOMAIN regions[r].graph
    /\ regions[r].graph.entry = h
    /\ regions[r].graph.node = {I[x] : x \in D}
    /\ regions[r].graph.edge = {<<I[e[1]], I[e[2]]>> : e \in graph.edge \cap (D \X D)}
                               \ {<<q, q>> : q \in DOMAIN regions}

LEMMA RegionFacts ==
    ASSUME ReductionInvariant, stage # "waiting", ~HasDeepBackEdge(graph),
           NEW r \in DOMAIN regions
    PROVE  \E h, D, S, I : IsRegion(r, h, D, S, I)
<1> DEFINE LoopAt(k) == [head |-> k, tails |-> TailsOf(graph, k), nodes |-> LoopOf(graph, k)]
<1>1. PICK h, D, S, I :
        /\ h = regions[r].header /\ D = LoopOf(graph, h) /\ S = (HeadsOf(graph) \cap D) \ {h}
        /\ I = [x \in D |-> ImageBy(LoopsAt(graph, S), SurrogatesIn(regions), x)]
  OBVIOUS
<1>2. /\ IsNest(graph) /\ Headers = HeadsOf(graph) /\ Reduced \subseteq Headers
      /\ \A q \in DOMAIN regions : regions[q].header \in Reduced
      /\ \A k \in Reduced, m \in Headers : m \in LoopOf(graph, k) => m \in Reduced
  BY ReductionFacts
<1>3. h \in Reduced /\ h \in HeadsOf(graph)
  BY <1>1, <1>2
<1>4. h \in D /\ D \in SUBSET graph.node
  BY <1>1, <1>2, <1>3 DEF IsNest
<1>5. S \in SUBSET HeadsOf(graph) /\ S \subseteq Reduced /\ S \subseteq Headers
  BY <1>1, <1>2, <1>3
<1>6. \A k \in S : h \notin LoopOf(graph, k)
  BY <1>1, <1>2, <1>3 DEF IsNest
<1>7. IsFresh(graph, S, SurrogatesIn(regions)) /\ IsImage(graph, D, S, SurrogatesIn(regions), I)
  <2>1. IsFresh(graph, S, SurrogatesIn(regions))
    BY <1>5, ReductionSearch
  <2>2. IsImage(graph, D, S, SurrogatesIn(regions),
                [x \in D |-> ImageBy(LoopsAt(graph, S), SurrogatesIn(regions), x)])
    BY <1>5, ReductionSearch
  <2>3. I = [x \in D |-> ImageBy(LoopsAt(graph, S), SurrogatesIn(regions), x)]
    BY <1>1
  <2>4. SUFFICES IsImage(graph, D, S, SurrogatesIn(regions), I)
    BY <2>1
  <2> QED  BY ONLY <2>2, <2>3
<1>8. Quotients
  BY DEF ReductionInvariant
<1>9. LoopAt(h) \in NaturalLoops(graph) /\ LoopAt(h).head = h /\ LoopAt(h).nodes = D
  BY <1>1, <1>3, NaturalLoopsAreLoops
<1> HIDE DEF LoopAt
<1>10. IsQuotient(regions[r].graph, graph, D, S, regions)
  <2>1. S = (Headers \cap LoopAt(h).nodes) \ {LoopAt(h).head}
    BY <1>1, <1>2, <1>9
  <2> QED  BY <1>1, <1>8, <1>9, <2>1 DEF Quotients
<1>11. /\ {"node", "edge", "entry"} \subseteq DOMAIN regions[r].graph
       /\ regions[r].graph.entry = h
  BY <1>1, <1>8 DEF Quotients
<1>12. /\ regions[r].graph.node = {I[x] : x \in D}
       /\ regions[r].graph.edge = {<<I[e[1]], I[e[2]]>> : e \in graph.edge \cap (D \X D)}
                                  \ {<<q, q>> : q \in DOMAIN regions}
  BY <1>1, <1>10 DEF IsQuotient
<1>13. IsRegion(r, h, D, S, I)
  BY <1>1, <1>3, <1>4, <1>5, <1>6, <1>7, <1>11, <1>12 DEF IsRegion
<1> QED  BY <1>13

\* A region has no cycle but through its header.
LEMMA RegionIsAcyclic ==
    ASSUME ReductionInvariant, stage # "waiting", ~HasDeepBackEdge(graph), NEW r \in DOMAIN regions
    PROVE  Acyclic([regions[r].graph EXCEPT !.edge = {e \in @ : e[2] # regions[r].header}])
<1>1. PICK h, D, S, I : IsRegion(r, h, D, S, I)
  BY RegionFacts
<1> DEFINE s == SurrogatesIn(regions)
           d == [regions[r].graph EXCEPT !.edge = {e \in @ : e[2] # h}]
<1>2. /\ h \in HeadsOf(graph) /\ h \in D /\ D \in SUBSET graph.node
      /\ S \in SUBSET HeadsOf(graph) /\ S \subseteq Reduced /\ \A k \in S : h \notin LoopOf(graph, k)
      /\ IsFresh(graph, S, s)
      /\ IsImage(graph, D, S, s, I)
      /\ {"node", "edge", "entry"} \subseteq DOMAIN regions[r].graph
      /\ regions[r].graph.node = {I[x] : x \in D}
      /\ regions[r].graph.edge = {<<I[e[1]], I[e[2]]>> : e \in graph.edge \cap (D \X D)}
                                 \ {<<q, q>> : q \in DOMAIN regions}
      /\ h = regions[r].header /\ S = (HeadsOf(graph) \cap D) \ {h}
  BY <1>1 DEF IsRegion
<1>3. /\ IsFlowGraph(graph) /\ IsSearch(graph, Num, End) /\ Reducible(graph) /\ IsNest(graph)
      /\ \A k \in Reduced : s[k] \in DOMAIN regions
  BY ReductionSearch
<1>4. d.node = {I[x] : x \in D} /\ d.edge = {z \in regions[r].graph.edge : z[2] # h}
  BY <1>2
<1> HIDE DEF d, s
<1>5. I[h] = h
  BY <1>2 DEF IsImage, IsOutermost
<1>6. ASSUME NEW z \in d.edge
      PROVE  \E e \in graph.edge :
               /\ e[1] \in D /\ e[2] \in D /\ z = <<I[e[1]], I[e[2]]>> /\ I[e[1]] # I[e[2]]
               /\ e[2] \in S \/ e \notin BackEdges(graph)
  <2>1. PICK e \in graph.edge \cap (D \X D) : z = <<I[e[1]], I[e[2]]>>
    BY <1>2, <1>4
  <2>2. e[1] \in D /\ e[2] \in D /\ e[2] # h
    BY <1>4, <1>5, <1>6, <2>1
  <2>3. e[2] \in S \/ e \notin BackEdges(graph)
    BY <1>2, <2>2 DEF HeadsOf
  <2>4. I[e[1]] # I[e[2]]
    <3>1. SUFFICES ASSUME I[e[1]] = I[e[2]] PROVE FALSE
      OBVIOUS
    <3>2. \E k \in S : I[e[1]] = s[k]
      <4>1. OneImageMeansLoop(graph, D, S, s, I)
        BY <1>2, <1>3, OneImageIsLoop
      <4> QED  BY <2>2, <2>3, <3>1, <4>1 DEF OneImageMeansLoop
    <3>3. z \notin {<<q, q>> : q \in DOMAIN regions}
      BY <1>2, <1>4
    <3> QED  BY <1>2, <1>3, <2>1, <3>1, <3>2, <3>3
  <2> QED  BY <2>1, <2>2, <2>3, <2>4
<1>7. d.edge \subseteq d.node \X d.node
  BY <1>4, <1>6
<1>8. IsPartOfQuotient(graph, D, S, I, d)
  BY <1>4, <1>6, <1>7 DEF IsPartOfQuotient
<1>9. Acyclic(d)
  BY <1>2, <1>3, <1>8, QuotientIsAcyclic
<1> QED  BY <1>2, <1>9 DEF d

-----------------------------------------------------------------------------
(* Regions are the levels of the nest.                                     *)

\* Two images by the same loops: a node has gone into the same loop, or stayed, in both.
ImagesMatch(D, S, s, t, I, J) ==
    \A x \in D : \/ I[x] = x /\ J[x] = x
                 \/ \E k \in S : I[x] = s[k] /\ J[x] = t[k]

LEMMA ImagesOfOneNest ==
    ASSUME NEW g, IsNest(g), NEW D, NEW S \in SUBSET HeadsOf(g), NEW s, NEW t,
           NEW I, IsImage(g, D, S, s, I), NEW J, IsImage(g, D, S, t, J)
    PROVE  ImagesMatch(D, S, s, t, I, J)
<1>1. SUFFICES ASSUME NEW x \in D
               PROVE  \/ I[x] = x /\ J[x] = x
                      \/ \E k \in S : I[x] = s[k] /\ J[x] = t[k]
  BY DEF ImagesMatch
<1>2. \/ I[x] = x /\ \A h \in S : x \notin LoopOf(g, h)
      \/ \E h : IsOutermost(g, S, x, h) /\ I[x] = s[h]
  BY DEF IsImage
<1>3. /\ \A h : IsOutermost(g, S, x, h) => J[x] = t[h]
      /\ (\A h \in S : x \notin LoopOf(g, h)) => J[x] = x
  BY ImageOf
<1>4. \A h : IsOutermost(g, S, x, h) => h \in S
  BY DEF IsOutermost
<1> QED  BY <1>2, <1>3, <1>4

\* Renaming the surrogates s to the surrogates t makes the one quotient of the other.
RenamesEdges(N, I, J, D, E, R, nodes) ==
    {<<N[z[1]], N[z[2]]>> : z \in {<<I[e[1]], I[e[2]]>> : e \in E} \ {<<r, r>> : r \in R}}
        = {<<J[e[1]], J[e[2]]>> : e \in E} \ {<<n, n>> : n \in {J[x] : x \in D} \ nodes}

LEMMA RenamedQuotient ==
    ASSUME NEW g, NEW D, D \subseteq g.node, NEW S, NEW s, IsFresh(g, S, s), NEW t, IsFresh(g, S, t),
           NEW I, NEW J, ImagesMatch(D, S, s, t, I, J),
           NEW R, \A k \in S : s[k] \in R, \A r \in R : r \notin g.node,
           NEW E, E \subseteq g.edge \cap (D \X D),
           NEW N, \A x \in D : N[I[x]] = J[x]
    PROVE  RenamesEdges(N, I, J, D, E, R, g.node)
<1>1. \A x, y \in D : I[x] = I[y] /\ I[x] \in R
        => J[x] = J[y] /\ J[x] \notin g.node
  BY DEF ImagesMatch, IsFresh
<1>2. \A x, y \in D : J[x] = J[y] /\ J[x] \notin g.node
        => I[x] = I[y] /\ I[x] \in R
  BY DEF ImagesMatch, IsFresh
<1>3. ASSUME NEW e \in E
      PROVE  /\ <<I[e[1]], I[e[2]]>> \in {<<r, r>> : r \in R} <=>
                <<J[e[1]], J[e[2]]>> \in {<<n, n>> : n \in {J[x] : x \in D} \ g.node}
             /\ <<N[<<I[e[1]], I[e[2]]>>[1]], N[<<I[e[1]], I[e[2]]>>[2]]>> = <<J[e[1]], J[e[2]]>>
  <2>1. e[1] \in D /\ e[2] \in D
    OBVIOUS
  <2>2. <<I[e[1]], I[e[2]]>> \in {<<r, r>> : r \in R} <=> I[e[1]] = I[e[2]] /\ I[e[1]] \in R
    OBVIOUS
  <2>3. <<J[e[1]], J[e[2]]>> \in {<<n, n>> : n \in {J[x] : x \in D} \ g.node}
          <=> J[e[1]] = J[e[2]] /\ J[e[1]] \notin g.node
    BY <2>1
  <2>4. N[I[e[1]]] = J[e[1]] /\ N[I[e[2]]] = J[e[2]]
    BY <2>1
  <2> QED  BY <1>1, <1>2, <2>1, <2>2, <2>3, <2>4
<1> DEFINE dR == {<<r, r>> : r \in R}
           dN == {<<n, n>> : n \in {J[x] : x \in D} \ g.node}
           A(e) == <<I[e[1]], I[e[2]]>>
           B(e) == <<J[e[1]], J[e[2]]>>
           M(z) == <<N[z[1]], N[z[2]]>>
<1>5. \A e \in E : (A(e) \in dR <=> B(e) \in dN) /\ M(A(e)) = B(e)
  BY <1>3
<1> HIDE DEF dR, dN, A, B, M
<1>6. {M(z) : z \in {A(e) : e \in E} \ dR} = {B(e) : e \in E} \ dN
  BY <1>5
<1> QED  BY <1>6 DEF RenamesEdges, dR, dN, A, B, M

\* The loops directly inside a loop around a node: the outermost of those inside it.
HasOutermost(g, S, x, around) ==
    /\ \A k : IsOutermost(g, S, x, k) => around # {} /\ \A M \in around : M.head = k
    /\ (\A k \in S : x \notin LoopOf(g, k)) => around = {}

LEMMA SubloopsAround ==
    ASSUME NEW g, IsNest(g), NEW h \in HeadsOf(g), NEW L, L \in NaturalLoops(g), L.head = h,
           NEW S, S = (HeadsOf(g) \cap LoopOf(g, h)) \ {h}, NEW x \in LoopOf(g, h)
    PROVE  HasOutermost(g, S, x, Hier!Around(Hier!Subloops(NaturalLoops(g), L), x))
<1> DEFINE LoopAt(k) == [head |-> k, tails |-> TailsOf(g, k), nodes |-> LoopOf(g, k)]
           nest == NaturalLoops(g)
           inside == {l \in nest \ {L} : l.nodes \subseteq L.nodes}
           subs == {l \in inside : \A m \in inside \ {l} : ~(l.nodes \subseteq m.nodes)}
<1>1. Hier!Around(Hier!Subloops(NaturalLoops(g), L), x) = {l \in subs : x \in l.nodes}
  BY DEF Hier!Around, Hier!Subloops
<1>2. /\ \A M \in nest : M.head \in HeadsOf(g) /\ M = LoopAt(M.head) /\ M.nodes = LoopOf(g, M.head)
      /\ \A k \in HeadsOf(g) : LoopAt(k) \in nest /\ LoopAt(k).head = k /\ LoopAt(k).nodes = LoopOf(g, k)
  BY NaturalLoopsAreLoops
<1> HIDE DEF nest, LoopAt
<1>3. L \in nest /\ L.nodes = LoopOf(g, h)
  BY <1>2 DEF nest
<1>4. \A M \in nest : M \in inside <=> M.head \in S
  <2>1. SUFFICES ASSUME NEW M \in nest PROVE M \in inside <=> M.head \in S
    OBVIOUS
  <2>2. M.head \in HeadsOf(g) /\ M.head \in LoopOf(g, M.head) /\ M.nodes = LoopOf(g, M.head)
    BY <1>2 DEF IsNest
  <2>3. M = L <=> M.head = h
    BY <1>2, <1>3
  <2>4. M.head # h /\ M.head \in LoopOf(g, h) => LoopOf(g, M.head) \subseteq LoopOf(g, h)
    BY <2>2 DEF IsNest
  <2> QED  BY <1>3, <2>2, <2>3, <2>4
<1> HIDE DEF inside
<1>5. inside \subseteq nest
  BY DEF inside
<1>6. ASSUME NEW k, IsOutermost(g, S, x, k)
      PROVE  LoopAt(k) \in subs /\ x \in LoopAt(k).nodes /\ \A M \in subs : x \in M.nodes => M.head = k
  <2>1. k \in S /\ k \in HeadsOf(g) /\ x \in LoopOf(g, k) /\ \A m \in S : x \in LoopOf(g, m) => m \in LoopOf(g, k)
    BY <1>6 DEF IsOutermost
  <2>2. LoopAt(k) \in inside /\ LoopAt(k).nodes = LoopOf(g, k) /\ LoopAt(k).head = k
    BY <1>2, <1>4, <2>1
  <2>3. ASSUME NEW M \in inside \ {LoopAt(k)} PROVE ~(LoopAt(k).nodes \subseteq M.nodes)
    <3>1. M \in nest /\ M.head \in S /\ M.nodes = LoopOf(g, M.head) /\ M.head \in HeadsOf(g) /\ M.head # k
      BY <1>2, <1>4, <1>5
    <3>2. SUFFICES ASSUME LoopOf(g, k) \subseteq LoopOf(g, M.head) PROVE FALSE
      BY <2>2, <3>1
    <3>3. M.head \in LoopOf(g, k)
      BY <2>1, <3>1, <3>2
    <3>4. k \notin LoopOf(g, M.head) /\ k \in LoopOf(g, k)
      BY <2>1, <3>1, <3>3 DEF IsNest
    <3> QED  BY <3>2, <3>4
  <2>4. ASSUME NEW M \in subs, x \in M.nodes PROVE M.head = k
    <3>1. M \in inside /\ M \in nest /\ M.head \in S /\ M.nodes = LoopOf(g, M.head) /\ M.head \in HeadsOf(g)
      BY <1>2, <1>4, <1>5
    <3>2. M.head \in LoopOf(g, k)
      BY <2>1, <2>4, <3>1
    <3>3. SUFFICES ASSUME M.head # k PROVE FALSE
      OBVIOUS
    <3>4. M.nodes \subseteq LoopAt(k).nodes
      BY <2>1, <2>2, <3>1, <3>2, <3>3 DEF IsNest
    <3>5. LoopAt(k) # M
      BY <2>2, <3>3
    <3> QED  BY <2>2, <3>4, <3>5
  <2> QED  BY <2>1, <2>2, <2>3, <2>4
<1>7. ASSUME \A k \in S : x \notin LoopOf(g, k), NEW M \in subs, x \in M.nodes PROVE FALSE
  BY <1>2, <1>4, <1>5, <1>7
<1> HIDE DEF subs
<1> QED  BY <1>1, <1>6, <1>7 DEF HasOutermost

\* A level of a flow is the quotient of its loop by the loops inside.
SurrogatesOf(g) == [k \in HeadsOf(g) |-> Hier!Surrogate(g, k)]

IsLevel(g, h, D, S, J, level) ==
    /\ IsImage(g, D, S, SurrogatesOf(g), J)
    /\ level = [node  |-> {J[x] : x \in D},
                edge  |-> {<<J[e[1]], J[e[2]]>> : e \in g.edge \cap (D \X D)}
                          \ {<<n, n>> : n \in {J[x] : x \in D} \ g.node},
                entry |-> h]

LEMMA LevelIs ==
    ASSUME NEW g, IsNest(g), NEW num, NEW end, IsFlowGraph(g), IsSearch(g, num, end),
           NEW h \in HeadsOf(g), h # Hier!Top, NEW L, L \in NaturalLoops(g), L.head = h,
           NEW D, D = LoopOf(g, h), NEW S, S = (HeadsOf(g) \cap D) \ {h}
    PROVE  \E J : IsLevel(g, h, D, S, J, Hier!LevelGraph(g, NaturalLoops(g), L))
<1> DEFINE subs == Hier!Subloops(NaturalLoops(g), L)
           im(x) == IF Hier!Around(subs, x) = {} THEN x
                    ELSE Hier!Surrogate(g, Hier!InnermostHead(Hier!Around(subs, x), x))
           J == [x \in L.nodes |-> im(x)]
<1>1. L.nodes = D
  BY NaturalLoopsAreLoops
<1>2. Hier!LevelGraph(g, NaturalLoops(g), L)
        = [node  |-> {J[x] : x \in D},
           edge  |-> {<<J[e[1]], J[e[2]]>> : e \in g.edge \cap (D \X D)}
                     \ {<<n, n>> : n \in {J[x] : x \in D} \ g.node},
           entry |-> h]
  BY <1>1 DEF Hier!LevelGraph
<1>3. \A x \in D : HasOutermost(g, S, x, Hier!Around(subs, x))
  BY SubloopsAround
<1>4. ASSUME NEW x \in D
      PROVE  \/ J[x] = x /\ \A k \in S : x \notin LoopOf(g, k)
             \/ \E k : IsOutermost(g, S, x, k) /\ J[x] = SurrogatesOf(g)[k]
  <2>1. J[x] = im(x)
    BY <1>1
  <2>2. CASE \A k \in S : x \notin LoopOf(g, k)
    <3>1. Hier!Around(subs, x) = {}
      BY <1>3, <2>2 DEF HasOutermost
    <3> HIDE DEF subs
    <3> QED  BY <2>1, <2>2, <3>1
  <2>3. CASE \E k \in S : x \in LoopOf(g, k)
    <3>1. S \in SUBSET HeadsOf(g)
      OBVIOUS
    <3>2. PICK k : IsOutermost(g, S, x, k)
      BY <2>3, <3>1, OutermostExists
    <3>3. k \in HeadsOf(g)
      BY <3>1, <3>2 DEF IsOutermost
    <3>4. Hier!Around(subs, x) # {} /\ \A M \in Hier!Around(subs, x) : M.head = k
      BY <1>3, <3>2 DEF HasOutermost
    <3>5. \A M, O \in Hier!Around(subs, x) : M = O
      <4>1. Hier!Around(subs, x) \subseteq NaturalLoops(g)
        BY DEF Hier!Around, Hier!Subloops
      <4>2. \A M, O \in NaturalLoops(g) : M.head = O.head => M = O
        BY NaturalLoopsAreLoops
      <4> QED  BY <3>4, <4>1, <4>2
    <3> HIDE DEF subs
    <3>6. Hier!InnermostHead(Hier!Around(subs, x), x) = k
      <4>1. \E M \in Hier!Around(subs, x) : \A O \in Hier!Around(subs, x) : M.nodes \subseteq O.nodes
        BY <3>4, <3>5
      <4> QED  BY <3>4, <4>1 DEF Hier!InnermostHead
    <3>7. J[x] = SurrogatesOf(g)[k]
      BY <2>1, <3>3, <3>4, <3>6 DEF SurrogatesOf
    <3> QED  BY <3>2, <3>7
  <2> QED  BY <2>2, <2>3
<1> HIDE DEF J
<1>5. IsLevel(g, h, D, S, J, Hier!LevelGraph(g, NaturalLoops(g), L))
  BY <1>2, <1>4 DEF IsLevel, IsImage
<1> QED  BY <1>5

LEMMA SurrogatesAreFresh ==
    ASSUME NEW g, IsFlowGraph(g), HeadsOf(g) \subseteq Nat
    PROVE  IsFresh(g, HeadsOf(g), SurrogatesOf(g))
<1>1. Max(g.node) \in g.node /\ \A x \in g.node : x <= Max(g.node)
  BY MaxOfFiniteIntegers DEF IsFlowGraph
<1>2. Max(g.node) \in Int /\ g.node \subseteq Int
  BY <1>1 DEF IsFlowGraph
<1>3. \A k \in HeadsOf(g) : SurrogatesOf(g)[k] = Max(g.node) + 1 + k
  BY DEF SurrogatesOf, Hier!Surrogate, Hier!Max, Max
<1> QED  BY <1>1, <1>2, <1>3 DEF IsFresh

\* Each region is a level, with the surrogates named as in the closed form.
LEMMA RegionIsLevel ==
    ASSUME ReductionInvariant, stage # "waiting", ~HasDeepBackEdge(graph),
           Headers \subseteq Nat \ {Top}, NEW r \in DOMAIN regions,
           NEW N, \A n \in DOMAIN regions : N[n] = Hier!Surrogate(graph, regions[n].header),
           \A n \in graph.node : N[n] = n,
           NEW L, L \in NaturalLoops(graph), L.head = regions[r].header
    PROVE  [node  |-> {N[n] : n \in regions[r].graph.node},
            edge  |-> {<<N[e[1]], N[e[2]]>> : e \in regions[r].graph.edge},
            entry |-> regions[r].graph.entry] = Hier!LevelGraph(graph, NaturalLoops(graph), L)
<1>1. PICK h, D, S, I : IsRegion(r, h, D, S, I)
  BY RegionFacts
<1> DEFINE s == SurrogatesIn(regions)
           t == SurrogatesOf(graph)
<1>2. /\ h \in HeadsOf(graph) /\ D \subseteq graph.node
      /\ D = LoopOf(graph, h) /\ S = (HeadsOf(graph) \cap D) \ {h}
      /\ S \in SUBSET HeadsOf(graph) /\ S \subseteq Reduced
      /\ h = regions[r].header
      /\ IsFresh(graph, S, s) /\ IsImage(graph, D, S, s, I)
      /\ regions[r].graph.entry = h
      /\ regions[r].graph.node = {I[x] : x \in D}
      /\ regions[r].graph.edge = {<<I[e[1]], I[e[2]]>> : e \in graph.edge \cap (D \X D)}
                                 \ {<<q, q>> : q \in DOMAIN regions}
  BY <1>1 DEF IsRegion
<1>3. /\ IsFlowGraph(graph) /\ IsSearch(graph, Num, End) /\ IsNest(graph) /\ Headers = HeadsOf(graph)
      /\ \A k \in Reduced : s[k] \in DOMAIN regions /\ regions[s[k]].header = k
      /\ \A q \in DOMAIN regions : q \notin graph.node
  BY ReductionSearch
<1>4. h # Hier!Top
  BY <1>2, <1>3 DEF Hier!Top, Top
<1>5. PICK J : IsLevel(graph, h, D, S, J, Hier!LevelGraph(graph, NaturalLoops(graph), L))
  BY <1>2, <1>3, <1>4, LevelIs
<1>6. IsFresh(graph, S, t)
  BY <1>2, <1>3, SurrogatesAreFresh DEF IsFresh
<1> HIDE DEF s, t
<1>7. IsImage(graph, D, S, t, J)
  BY <1>5 DEF IsLevel, t
<1>8. ImagesMatch(D, S, s, t, I, J)
  BY <1>2, <1>3, <1>7, ImagesOfOneNest
<1>9. \A x \in D : N[I[x]] = J[x]
  <2>1. \A k \in S : N[s[k]] = t[k]
    BY <1>2, <1>3 DEF t, SurrogatesOf
  <2> QED  BY <1>2, <1>8, <2>1 DEF ImagesMatch
<1> DEFINE R == DOMAIN regions
           E == graph.edge \cap (D \X D)
<1>10. /\ \A k \in S : s[k] \in R
       /\ \A q \in R : q \notin graph.node
       /\ E \subseteq graph.edge \cap (D \X D)
  BY <1>2, <1>3
<1>11. /\ regions[r].graph.edge = {<<I[e[1]], I[e[2]]>> : e \in E} \ {<<q, q>> : q \in R}
       /\ Hier!LevelGraph(graph, NaturalLoops(graph), L)
            = [node  |-> {J[x] : x \in D},
               edge  |-> {<<J[e[1]], J[e[2]]>> : e \in E}
                         \ {<<n, n>> : n \in {J[x] : x \in D} \ graph.node},
               entry |-> h]
  BY <1>2, <1>5 DEF IsLevel
<1> HIDE DEF R, E
<1>12. /\ {N[n] : n \in {I[x] : x \in D}} = {J[x] : x \in D}
       /\ {<<N[z[1]], N[z[2]]>> : z \in {<<I[e[1]], I[e[2]]>> : e \in E} \ {<<q, q>> : q \in R}}
          = {<<J[e[1]], J[e[2]]>> : e \in E} \ {<<n, n>> : n \in {J[x] : x \in D} \ graph.node}
  <2>1. RenamesEdges(N, I, J, D, E, R, graph.node)
    BY <1>2, <1>6, <1>8, <1>9, <1>10, RenamedQuotient
  <2> QED  BY <1>9, <2>1 DEF RenamesEdges
<1> QED  BY <1>2, <1>11, <1>12

\* The hypothesis on the headers: the closed form calls a level by its header and the flow
\* itself Top.
\* (get_reduced_hierarchy, one_level_refinement: the region of a loop is the flow of one level
\* of the hierarchy, its inner loops are single nodes and only the edges to the header close
\* cycles; the graph that is left has none.)
THEOREM RegionsAreLevelsOfNest ==
    SpecReduction => [](~HasDeepBackEdge(graph) /\ Headers \subseteq Nat \ {Top} => RegionsAreLevels)
<1>1. ASSUME ReductionInvariant, ~HasDeepBackEdge(graph), Headers \subseteq Nat \ {Top}
      PROVE  RegionsAreLevels
  <2>1. CASE stage = "waiting"
    <3>1. DOMAIN regions = {} /\ stage \notin {"assemble", "done"}
      BY <1>1, <2>1 DEF ReductionInvariant, CurrentGraph
    <3> QED  BY <3>1 DEF RegionsAreLevels
  <2>2. CASE stage # "waiting"
    <3> DEFINE Named(n) == IF n \in DOMAIN regions THEN Hier!Surrogate(graph, regions[n].header) ELSE n
               LoopWith(r) == CHOOSE l \in NaturalLoops(graph) : l.head = regions[r].header
               LevelOf(r) == [node  |-> {Named(n) : n \in regions[r].graph.node},
                              edge  |-> {<<Named(e[1]), Named(e[2])>> : e \in regions[r].graph.edge},
                              entry |-> regions[r].graph.entry]
    <3>1. ASSUME NEW r \in DOMAIN regions
          PROVE  LevelOf(r) = Hier!LevelGraph(graph, NaturalLoops(graph), LoopWith(r))
      <4>1. LoopWith(r) \in NaturalLoops(graph) /\ LoopWith(r).head = regions[r].header
        <5>1. regions[r].header \in HeadsOf(graph)
          BY <1>1, <2>2, ReductionFacts
        <5>2. \E l \in NaturalLoops(graph) : l.head = regions[r].header
          <6> DEFINE loop == [head |-> regions[r].header, tails |-> TailsOf(graph, regions[r].header),
                              nodes |-> LoopOf(graph, regions[r].header)]
          <6>1. loop \in NaturalLoops(graph) /\ loop.head = regions[r].header
            BY <5>1, NaturalLoopsAreLoops
          <6> QED  BY <6>1
        <5> QED  BY <5>2
      <4> DEFINE X == graph.node \cup DOMAIN regions \cup regions[r].graph.node
                       \cup UNION {{e[1], e[2]} : e \in regions[r].graph.edge}
                 N == [n \in X |-> Named(n)]
      <4>2. \A q \in DOMAIN regions : q \notin graph.node
        BY <1>1, <2>2, ReductionSearch
      <4>3. /\ \A n \in DOMAIN regions : N[n] = Hier!Surrogate(graph, regions[n].header)
            /\ \A n \in graph.node : N[n] = n
        BY <4>2
      <4>4. \A n \in X : N[n] = Named(n)
        OBVIOUS
      <4>5. regions[r].graph.node \subseteq X /\ \A e \in regions[r].graph.edge : e[1] \in X /\ e[2] \in X
        OBVIOUS
      <4> HIDE DEF N, X, Named
      <4>6. LevelOf(r) = [node  |-> {N[n] : n \in regions[r].graph.node},
                          edge  |-> {<<N[e[1]], N[e[2]]>> : e \in regions[r].graph.edge},
                          entry |-> regions[r].graph.entry]
        <5>1. {Named(n) : n \in regions[r].graph.node} = {N[n] : n \in regions[r].graph.node}
          BY <4>4, <4>5
        <5>2. {<<Named(e[1]), Named(e[2])>> : e \in regions[r].graph.edge}
              = {<<N[e[1]], N[e[2]]>> : e \in regions[r].graph.edge}
          BY <4>4, <4>5
        <5> QED  BY <5>1, <5>2
      <4> HIDE DEF LevelOf, LoopWith
      <4> QED  BY <1>1, <2>2, <4>1, <4>3, <4>6, RegionIsLevel
    <3>2. \A r \in DOMAIN regions :
            Acyclic([regions[r].graph EXCEPT !.edge = {e \in @ : e[2] # regions[r].header}])
      BY <1>1, <2>2, RegionIsAcyclic
    <3>3. stage \in {"assemble", "done"} => Acyclic(curr)
      BY <1>1, CurrentIsAcyclic
    <3> QED  BY <3>1, <3>2, <3>3 DEF RegionsAreLevels
  <2> QED  BY <2>1, <2>2
<1> QED  BY <1>1, ReductionInvariantHolds, PTL
=============================================================================
