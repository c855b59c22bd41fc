----------------------- MODULE ControlDependenceProofs -----------------------
(***************************************************************************)
(* What holds of CommonDominator and ControlDependence for all flows and   *)
(* trees: a query answers with the nearest common dominator, the numbers   *)
(* of the tree decide dominance, and the control dependences are right.    *)
(***************************************************************************)
EXTENDS ControlDependence, FlowGraphTheorems

-----------------------------------------------------------------------------
(* Trees, and the nodes from one of them up to the root.                   *)

LEMMA TreeType ==
    ASSUME NEW t, IsTree(t)
    PROVE  /\ IsFiniteSet(t.node) /\ t.root \in t.node
           /\ \A n \in t.node \ {t.root} : t.parent[n] \in t.node
BY DEF IsTree

\* Parents first: a property of the root that goes from parents to children holds of
\* every node.
LEMMA TreeInduction ==
    ASSUME NEW t, IsTree(t), NEW X, t.root \in X,
           \A n \in t.node \ {t.root} : t.parent[n] \in X => n \in X
    PROVE  t.node \subseteq X
<1>1. SUFFICES ASSUME t.node \ X # {} PROVE FALSE
  OBVIOUS
<1> DEFINE S == t.node \ X
<1>2. S \in SUBSET (t.node \ {t.root}) /\ S # {}
  BY <1>1
<1>3. PICK n \in S : t.parent[n] \notin S
  <2> HIDE DEF S
  <2> QED  BY <1>2 DEF IsTree
<1>4. n \in t.node \ {t.root} /\ t.parent[n] \in t.node
  BY <1>2, <1>3, TreeType
<1> QED  BY <1>3, <1>4

\* X goes up the tree.
GoesUp(t, X) == \A n \in X \cap t.node : n # t.root => t.parent[n] \in X

\* The way up is the least set around n that goes up.
LEMMA PathUpFacts ==
    ASSUME NEW t, IsTree(t), NEW n \in t.node
    PROVE  /\ n \in PathUp(t, n) /\ PathUp(t, n) \subseteq t.node
           /\ GoesUp(t, PathUp(t, n))
           /\ \A X : n \in X /\ GoesUp(t, X) => PathUp(t, n) \subseteq X
<1> DEFINE g == [node |-> t.node, edge |-> {<<m, t.parent[m]>> : m \in t.node \ {t.root}}]
           P == PathUp(t, n)
<1>1. P = ReachedFrom(g, {n}, t.node)
  BY DEF PathUp
<1>2. IsFiniteSet(g.node) /\ t.node \in SUBSET g.node /\ {n} \cap t.node = {n}
  BY TreeType
<1>3. \A X : GoesOn(g, X, t.node) <=> \A m \in t.node \ {t.root} : m \in X => t.parent[m] \in X
  <2>1. \A m \in t.node \ {t.root} : t.parent[m] \in t.node
    BY TreeType
  <2>2. ASSUME NEW X, GoesOn(g, X, t.node), NEW m \in t.node \ {t.root}, m \in X
        PROVE  t.parent[m] \in X
    <3>1. <<m, t.parent[m]>> \in g.edge /\ t.parent[m] \in t.node
      BY <2>1
    <3> QED  BY <2>2, <3>1 DEF GoesOn
  <2>3. ASSUME NEW X, \A m \in t.node \ {t.root} : m \in X => t.parent[m] \in X
        PROVE  GoesOn(g, X, t.node)
    <3>1. ASSUME NEW e \in g.edge PROVE e[1] \in X => e[2] \in X
      BY <2>3
    <3> QED  BY <3>1 DEF GoesOn
  <2> QED  BY <2>2, <2>3
<1>4. /\ {n} \cap t.node \subseteq P /\ P \subseteq t.node /\ GoesOn(g, P, t.node)
      /\ \A X : {n} \cap t.node \subseteq X /\ GoesOn(g, X, t.node) => P \subseteq X
  <2> HIDE DEF g, P
  <2> QED  BY <1>1, <1>2, ReachedFromFacts
<1> HIDE DEF g, P
<1>5. GoesUp(t, P)
  BY <1>3, <1>4 DEF GoesUp
<1>6. ASSUME NEW X, n \in X, GoesUp(t, X) PROVE P \subseteq X
  <2>1. GoesOn(g, X, t.node)
    BY <1>3, <1>6 DEF GoesUp
  <2> QED  BY <1>2, <1>4, <1>6, <2>1
<1> QED  BY <1>2, <1>4, <1>5, <1>6 DEF P

\* What is above something above n is above n.
LEMMA PathUpTransitive ==
    ASSUME NEW t, IsTree(t), NEW n \in t.node, NEW a \in PathUp(t, n)
    PROVE  a \in t.node /\ PathUp(t, a) \subseteq PathUp(t, n)
<1>1. a \in t.node
  BY PathUpFacts
<1> QED  BY <1>1, PathUpFacts

LEMMA PathUpStep ==
    ASSUME NEW t, IsTree(t), NEW n \in t.node \ {t.root}
    PROVE  /\ t.parent[n] \in t.node /\ t.parent[n] \in PathUp(t, n)
           /\ PathUp(t, n) = {n} \cup PathUp(t, t.parent[n])
<1> DEFINE p == t.parent[n]
<1>1. p \in t.node
  BY TreeType
<1>2. p \in PathUp(t, n)
  BY PathUpFacts DEF GoesUp
<1>3. {n} \cup PathUp(t, p) \subseteq PathUp(t, n)
  BY <1>1, <1>2, PathUpFacts, PathUpTransitive
<1>4. GoesUp(t, {n} \cup PathUp(t, p))
  BY <1>1, PathUpFacts DEF GoesUp
<1>5. PathUp(t, n) \subseteq {n} \cup PathUp(t, p)
  <2> DEFINE X == {n} \cup PathUp(t, p)
  <2>1. n \in X /\ GoesUp(t, X)
    BY <1>4
  <2> HIDE DEF X
  <2>2. PathUp(t, n) \subseteq X
    BY <2>1, PathUpFacts
  <2> QED  BY <2>2 DEF X
<1> QED  BY <1>1, <1>2, <1>3, <1>5

LEMMA PathUpRoot ==
    ASSUME NEW t, IsTree(t)
    PROVE  PathUp(t, t.root) = {t.root}
<1>1. t.root \in t.node
  BY TreeType
<1>2. GoesUp(t, {t.root})
  BY DEF GoesUp
<1> QED  BY <1>1, <1>2, PathUpFacts

\* Nothing is above its parent.
LEMMA NotAboveParent ==
    ASSUME NEW t, IsTree(t), NEW n \in t.node \ {t.root}
    PROVE  n \notin PathUp(t, t.parent[n])
<1>1. SUFFICES ASSUME n \in PathUp(t, t.parent[n]) PROVE FALSE
  OBVIOUS
\* All nodes that have n above them, and are above it, would form a cycle.
<1> DEFINE S == {x \in PathUp(t, n) : n \in PathUp(t, x)}
<1>2. n \in S /\ S \subseteq t.node
  BY PathUpFacts
<1>3. t.root \notin S
  BY PathUpRoot
<1>4. ASSUME NEW x \in S PROVE t.parent[x] \in S
  <2>1. x \in t.node \ {t.root} /\ x \in PathUp(t, n) /\ n \in PathUp(t, x)
    BY <1>2, <1>3
  <2>2. t.parent[x] \in PathUp(t, n)
    BY <2>1, PathUpFacts DEF GoesUp
  <2>3. n \in PathUp(t, t.parent[x])
    <3>1. CASE n = x
      BY <1>1, <3>1
    <3>2. CASE n # x
      BY <2>1, <3>2, PathUpStep
    <3> QED  BY <3>1, <3>2
  <2> QED  BY <2>2, <2>3
<1>5. S \in SUBSET (t.node \ {t.root}) /\ S # {}
  BY <1>2, <1>3
<1> HIDE DEF S
<1> QED  BY <1>4, <1>5 DEF IsTree

\* Two nodes that are above each other are the same.
LEMMA PathUpAntisymmetric ==
    ASSUME NEW t, IsTree(t), NEW a \in t.node, NEW b \in t.node,
           a \in PathUp(t, b), b \in PathUp(t, a)
    PROVE  a = b
<1>1. SUFFICES ASSUME a # b PROVE FALSE
  OBVIOUS
<1>2. CASE b = t.root
  BY <1>1, <1>2, PathUpRoot
<1>3. CASE b # t.root
  <2>1. a \in PathUp(t, t.parent[b]) /\ t.parent[b] \in t.node
    BY <1>1, <1>3, PathUpStep
  <2>2. b \in PathUp(t, t.parent[b])
    BY <2>1, PathUpTransitive
  <2> QED  BY <1>3, <2>2, NotAboveParent
<1> QED  BY <1>2, <1>3

\* What is above a node is in a line.
LEMMA PathUpIsALine ==
    ASSUME NEW t, IsTree(t), NEW n \in t.node, NEW a \in PathUp(t, n), NEW b \in PathUp(t, n)
    PROVE  a \in PathUp(t, b) \/ b \in PathUp(t, a)
<1> DEFINE X == {m \in t.node : \A x, y \in PathUp(t, m) : x \in PathUp(t, y) \/ y \in PathUp(t, x)}
<1>1. t.root \in X
  BY TreeType, PathUpRoot
<1>2. ASSUME NEW m \in t.node \ {t.root}, t.parent[m] \in X PROVE m \in X
  <2>1. ASSUME NEW x \in PathUp(t, m), NEW y \in PathUp(t, m)
        PROVE  x \in PathUp(t, y) \/ y \in PathUp(t, x)
    <3>1. x \in {m} \cup PathUp(t, t.parent[m]) /\ y \in {m} \cup PathUp(t, t.parent[m])
      BY PathUpStep
    <3>2. CASE x = m \/ y = m
      BY <2>1, <3>2
    <3>3. CASE x # m /\ y # m
      BY <1>2, <3>1, <3>3
    <3> QED  BY <3>2, <3>3
  <2> QED  BY <2>1
<1>3. t.node \subseteq X
  <2> HIDE DEF X
  <2> QED  BY <1>1, <1>2, TreeInduction
<1> QED  BY <1>3

\* Two children of a node are not above one another.
LEMMA SiblingsApart ==
    ASSUME NEW t, IsTree(t), NEW a \in t.node \ {t.root}, NEW b \in t.node \ {t.root},
           t.parent[a] = t.parent[b], a # b, NEW n \in t.node
    PROVE  ~(a \in PathUp(t, n) /\ b \in PathUp(t, n))
<1>1. SUFFICES ASSUME a \in PathUp(t, n), b \in PathUp(t, n) PROVE FALSE
  OBVIOUS
<1>2. a \in PathUp(t, b) \/ b \in PathUp(t, a)
  BY <1>1, PathUpIsALine
<1>3. a \in PathUp(t, t.parent[b]) \/ b \in PathUp(t, t.parent[a])
  BY <1>2, PathUpStep
<1> QED  BY <1>3, NotAboveParent

-----------------------------------------------------------------------------
(* A query: S is the set of nodes asked about, V the visited and R the     *)
(* re-entered nodes, A the lower ends of the visited arcs.                 *)

\* Arcs lead from visited nodes to visited nodes; where two meet is re-entered.
Marked(t, V, R, A) ==
    /\ V \subseteq t.node /\ R \subseteq V /\ A \subseteq V \ {t.root}
    /\ \A c \in A : t.parent[c] \in V
    /\ \A c, d \in A : c # d /\ t.parent[c] = t.parent[d] => t.parent[c] \in R

IsCommon(t, S, a) == \A s \in S : a \in PathUp(t, s)

\* What is visited is on the way up from a node asked about, and has been come to over an
\* arc unless it was asked about itself; no re-entered node is above all common dominators.
Asked(t, S, V, R, A) ==
    /\ S \subseteq R
    /\ \A v \in V : v \in S \/ \E c \in A : t.parent[c] = v
    /\ \A v \in V : \E s \in S : v \in PathUp(t, s)
    /\ \A a \in t.node : IsCommon(t, S, a) => \A r \in R : a \in PathUp(t, r)

\* A stack goes up from a re-entered node, by visited arcs.
IsClimb(t, V, R, A, st) ==
    /\ st \in Seq(t.node)
    /\ st # << >> =>
        /\ \A i \in 1 .. Len(st) : st[i] \in V
        /\ st[1] \in R
        /\ \A i \in 1 .. Len(st) - 1 : st[i] \in A /\ st[i + 1] = t.parent[st[i]]

\* Where visited arcs end, a stack goes on.
GoesOnAt(sts, v) == \E k \in DOMAIN sts : sts[k] # << >> /\ Last(sts[k]) = v

InRounds(t, S, V, R, A, sts) ==
    /\ S # {} /\ Marked(t, V, R, A) /\ Asked(t, S, V, R, A)
    /\ sts \in Seq(Seq(t.node)) /\ Len(sts) > 0
    /\ \A k \in DOMAIN sts : IsClimb(t, V, R, A, sts[k])
    /\ \A v \in V \ A : GoesOnAt(sts, v)

\* Following the arc above v.
LEMMA MarkedClimb ==
    ASSUME NEW t, IsTree(t), NEW V, NEW R, NEW A, Marked(t, V, R, A),
           NEW v \in V \ A, v # t.root, NEW R2, R \subseteq R2, R2 \subseteq V \cup {t.parent[v]},
           t.parent[v] \in V => t.parent[v] \in R2
    PROVE  Marked(t, V \cup {t.parent[v]}, R2, A \cup {v})
<1> DEFINE u == t.parent[v]
<1>1. u \in t.node /\ v \in t.node
  BY TreeType DEF Marked
<1>2. \A c \in A \cup {v} : t.parent[c] \in V \cup {u}
  BY DEF Marked
<1>3. ASSUME NEW c \in A \cup {v}, NEW d \in A \cup {v}, c # d, t.parent[c] = t.parent[d]
      PROVE  t.parent[c] \in R2
  <2>1. CASE c \in A /\ d \in A
    BY <1>3, <2>1 DEF Marked
  <2>2. CASE c = v \/ d = v
    <3>1. u \in V
      BY <1>3, <2>2 DEF Marked
    <3> QED  BY <1>3, <2>2, <3>1
  <2> QED  BY <2>1, <2>2
<1> QED  BY <1>1, <1>2, <1>3 DEF Marked

LEMMA AskedClimb ==
    ASSUME NEW t, IsTree(t), NEW S \in SUBSET t.node, NEW V, NEW R, NEW A, Marked(t, V, R, A), Asked(t, S, V, R, A),
           NEW v \in V \ A, v # t.root, NEW R2,
           R2 = R \/ (R2 = R \cup {t.parent[v]} /\ t.parent[v] \in V)
    PROVE  Asked(t, S, V \cup {t.parent[v]}, R2, A \cup {v})
<1> DEFINE u == t.parent[v]
<1>1. v \in t.node \ {t.root} /\ u \in t.node
  BY TreeType DEF Marked
<1>2. PICK s \in S : v \in PathUp(t, s)
  BY DEF Asked
<1>3. u \in PathUp(t, s)
  BY <1>1, <1>2, PathUpFacts DEF GoesUp
<1>4. ASSUME NEW a \in t.node, IsCommon(t, S, a), u \in V PROVE a \in PathUp(t, u)
  <2>1. CASE u \in S
    BY <1>4, <2>1 DEF IsCommon
  <2>2. CASE u \notin S
    <3>1. PICK c \in A : t.parent[c] = u
      BY <1>4, <2>2 DEF Asked
    <3>2. c \in t.node \ {t.root} /\ c # v /\ c \in V
      BY <3>1 DEF Marked
    <3>3. PICK z \in S : c \in PathUp(t, z)
      BY <3>2 DEF Asked
    <3>4. s \in t.node /\ z \in t.node /\ a \in PathUp(t, s) /\ a \in PathUp(t, z)
      BY <1>4 DEF IsCommon
    <3>5. v \notin PathUp(t, a)
      <4>1. SUFFICES ASSUME v \in PathUp(t, a) PROVE FALSE
        OBVIOUS
      <4>2. v \in PathUp(t, z)
        BY <3>4, <4>1, PathUpTransitive
      <4> QED  BY <1>1, <3>1, <3>2, <3>3, <3>4, <4>2, SiblingsApart
    <3>6. a \in PathUp(t, v)
      BY <1>2, <3>4, <3>5, PathUpIsALine
    <3>7. a # v
      BY <1>1, <3>5, PathUpFacts
    <3> QED  BY <1>1, <3>6, <3>7, PathUpStep
  <2> QED  BY <2>1, <2>2
<1>5. S \subseteq R2
  BY DEF Asked
<1>6. \A w \in V \cup {u} : w \in S \/ \E c \in A \cup {v} : t.parent[c] = w
  BY DEF Asked
<1>7. \A w \in V \cup {u} : \E z \in S : w \in PathUp(t, z)
  BY <1>3 DEF Asked
<1>8. \A a \in t.node : IsCommon(t, S, a) => \A r \in R2 : a \in PathUp(t, r)
  BY <1>4 DEF Asked
<1> QED  BY <1>5, <1>6, <1>7, <1>8 DEF Asked

LEMMA AppendFacts ==
    ASSUME NEW T, NEW s \in Seq(T), NEW x \in T
    PROVE  LET r == Append(s, x)
           IN  /\ r \in Seq(T) /\ Len(r) = Len(s) + 1 /\ Len(s) \in Nat /\ r # << >>
               /\ Last(r) = x /\ r[Len(r)] = x /\ \A i \in 1 .. Len(s) : r[i] = s[i]
<1> DEFINE r == Append(s, x)
<1>1. r \in Seq(T) /\ Len(r) = Len(s) + 1 /\ Len(s) \in Nat
  OBVIOUS
<1>2. r[Len(s) + 1] = x /\ \A i \in 1 .. Len(s) : r[i] = s[i]
  OBVIOUS
<1>3. r # << >>
  BY <1>1
<1> HIDE DEF r
<1> QED  BY <1>1, <1>2, <1>3 DEF r, Last

LEMMA ReplaceFacts ==
    ASSUME NEW T, NEW s \in Seq(T), NEW k \in DOMAIN s, NEW x \in T
    PROVE  LET r == [s EXCEPT ![k] = x]
           IN  /\ r \in Seq(T) /\ Len(r) = Len(s) /\ DOMAIN r = DOMAIN s
               /\ r[k] = x /\ \A j \in DOMAIN s \ {k} : r[j] = s[j]
<1> DEFINE r == [s EXCEPT ![k] = x]
<1>1. Len(s) \in Nat /\ DOMAIN s = 1 .. Len(s) /\ s \in [1 .. Len(s) -> T]
  OBVIOUS
<1>2. r \in [1 .. Len(s) -> T] /\ r[k] = x /\ \A j \in DOMAIN s \ {k} : r[j] = s[j]
  BY <1>1
<1> HIDE DEF r
<1>3. r \in Seq(T) /\ DOMAIN r = 1 .. Len(s)
  BY <1>1, <1>2
<1>4. Len(r) = Len(s)
  BY <1>1, <1>3
<1> QED  BY <1>1, <1>2, <1>3, <1>4 DEF r

LEMMA OneElement ==
    ASSUME NEW T, NEW x \in T
    PROVE  LET r == <<x>>
           IN  /\ r \in Seq(T) /\ Len(r) = 1 /\ r[1] = x /\ r # << >> /\ Last(r) = x
               /\ DOMAIN r = {1}
<1>1. <<x>> \in Seq(T) /\ Len(<<x>>) = 1 /\ <<x>>[1] = x /\ <<x>> # << >> /\ DOMAIN <<x>> = 1 .. 1
  OBVIOUS
<1> QED  BY <1>1 DEF Last

\* A stack stays one when there are more marks.
LEMMA ClimbGrows ==
    ASSUME NEW t, NEW V, NEW R, NEW A, NEW st, IsClimb(t, V, R, A, st),
           NEW V2, NEW R2, NEW A2, V \subseteq V2, R \subseteq R2, A \subseteq A2
    PROVE  IsClimb(t, V2, R2, A2, st)
BY DEF IsClimb

LEMMA LastIs ==
    ASSUME NEW T, NEW q \in Seq(T), q # << >>
    PROVE  Len(q) \in Nat /\ Len(q) > 0 /\ Last(q) = q[Len(q)]
BY DEF Last

\* A turn that follows an arc to a node not visited before.
LEMMA ClimbOn ==
    ASSUME NEW t, IsTree(t), NEW S \in SUBSET t.node, NEW V, NEW R, NEW A, NEW sts,
           InRounds(t, S, V, R, A, sts), NEW k \in DOMAIN sts, sts[k] # << >>,
           NEW v, v = Last(sts[k]), v \notin A, v # t.root, t.parent[v] \notin V
    PROVE  InRounds(t, S, V \cup {t.parent[v]}, R, A \cup {v},
                    [sts EXCEPT ![k] = Append(sts[k], t.parent[v])])
<1> DEFINE u   == t.parent[v]
           V2  == V \cup {u}
           A2  == A \cup {v}
           st  == sts[k]
           st2 == Append(st, u)
           new == [sts EXCEPT ![k] = st2]
<1>1. /\ st \in Seq(t.node) /\ Len(st) \in Nat /\ Len(st) > 0 /\ v = st[Len(st)]
      /\ IsClimb(t, V, R, A, st)
  <2>1. IsClimb(t, V, R, A, sts[k])
    BY DEF InRounds
  <2>2. sts[k] \in Seq(t.node)
    BY <2>1 DEF IsClimb
  <2>3. Len(sts[k]) \in Nat /\ Len(sts[k]) > 0 /\ Last(sts[k]) = sts[k][Len(sts[k])]
    BY <2>2, LastIs
  <2> QED  BY <2>1, <2>2, <2>3
<1>2. v \in V \ A /\ v \in t.node /\ u \in t.node
  <2>1. v \in V /\ v \in t.node
    BY <1>1 DEF IsClimb, InRounds, Marked
  <2> QED  BY <2>1, TreeType
<1>3. Marked(t, V2, R, A2) /\ Asked(t, S, V2, R, A2)
  <2>1. Marked(t, V, R, A) /\ Asked(t, S, V, R, A) /\ R \subseteq V
    BY DEF InRounds, Marked
  <2> QED  BY <1>2, <2>1, MarkedClimb, AskedClimb
<1>4. st2 \in Seq(t.node) /\ Len(st2) = Len(st) + 1 /\ st2 # << >> /\ Last(st2) = u
      /\ \A i \in 1 .. Len(st) : st2[i] = st[i]
  <2> DEFINE T == t.node
  <2>1. st \in Seq(T) /\ u \in T
    BY <1>1, <1>2
  <2> HIDE DEF T, st, u
  <2>2. st2 \in Seq(T) /\ Len(st2) = Len(st) + 1 /\ st2 # << >> /\ Last(st2) = u
        /\ \A i \in 1 .. Len(st) : st2[i] = st[i]
    BY <2>1, AppendFacts
  <2> QED  BY <2>2 DEF T
<1>5. IsClimb(t, V2, R, A2, st2)
  <2>1. \A i \in 1 .. Len(st2) : st2[i] \in V2
    <3>1. ASSUME NEW i \in 1 .. Len(st2) PROVE st2[i] \in V2
      <4>1. CASE i = Len(st2)
        BY <1>1, <1>4, <4>1
      <4>2. CASE i # Len(st2)
        <5>1. i \in 1 .. Len(st)
          BY <1>1, <1>4, <4>2
        <5> QED  BY <1>1, <1>4, <5>1 DEF IsClimb
      <4> QED  BY <4>1, <4>2
    <3> QED  BY <3>1
  <2>2. st2[1] \in R
    BY <1>1, <1>4 DEF IsClimb
  <2>3. ASSUME NEW i \in 1 .. Len(st2) - 1
        PROVE  st2[i] \in A2 /\ st2[i + 1] = t.parent[st2[i]]
    <3>1. i \in 1 .. Len(st) /\ st2[i] = st[i]
      BY <1>1, <1>4
    <3>2. CASE i = Len(st)
      BY <1>1, <1>4, <3>1, <3>2
    <3>3. CASE i # Len(st)
      <4>1. i \in 1 .. Len(st) - 1 /\ i + 1 \in 1 .. Len(st)
        BY <1>1, <3>1, <3>3
      <4> QED  BY <1>1, <1>4, <3>1, <4>1 DEF IsClimb
    <3> QED  BY <3>2, <3>3
  <2> QED  BY <1>4, <2>1, <2>2, <2>3 DEF IsClimb
<1>6. /\ new \in Seq(Seq(t.node)) /\ Len(new) > 0 /\ DOMAIN new = DOMAIN sts
      /\ new[k] = st2 /\ \A j \in DOMAIN sts \ {k} : new[j] = sts[j]
  <2> DEFINE T == Seq(t.node)
  <2>1. sts \in Seq(T) /\ Len(sts) > 0 /\ st2 \in T
    BY <1>4 DEF InRounds
  <2> HIDE DEF st2, T
  <2>2. new \in Seq(T) /\ Len(new) > 0 /\ DOMAIN new = DOMAIN sts
        /\ new[k] = st2 /\ \A j \in DOMAIN sts \ {k} : new[j] = sts[j]
    BY <2>1, ReplaceFacts
  <2> QED  BY <2>2 DEF T
<1> HIDE DEF new, st2
<1>7. \A j \in DOMAIN new : IsClimb(t, V2, R, A2, new[j])
  <2>1. ASSUME NEW j \in DOMAIN sts PROVE IsClimb(t, V2, R, A2, sts[j])
    BY ClimbGrows DEF InRounds
  <2> QED  BY <1>5, <1>6, <2>1
<1>8. ASSUME NEW w \in V2 \ A2 PROVE GoesOnAt(new, w)
  <2>1. CASE w = u
    BY <1>4, <1>6, <2>1 DEF GoesOnAt
  <2>2. CASE w # u
    <3>1. PICK j \in DOMAIN sts : sts[j] # << >> /\ Last(sts[j]) = w
      BY <2>2 DEF InRounds, GoesOnAt
    <3>2. j # k
      BY <3>1
    <3> QED  BY <1>6, <3>1, <3>2 DEF GoesOnAt
  <2> QED  BY <2>1, <2>2
<1> QED  BY <1>3, <1>6, <1>7, <1>8 DEF InRounds, new, st2

\* A turn that follows an arc to a visited node, which is re-entered.
LEMMA ClimbInto ==
    ASSUME NEW t, IsTree(t), NEW S \in SUBSET t.node, NEW V, NEW R, NEW A, NEW sts,
           InRounds(t, S, V, R, A, sts), NEW k \in DOMAIN sts, sts[k] # << >>,
           NEW v, v = Last(sts[k]), v \notin A, v # t.root, t.parent[v] \in V
    PROVE  InRounds(t, S, V \cup {t.parent[v]}, R \cup {t.parent[v]}, A \cup {v}, sts)
<1> DEFINE u  == t.parent[v]
           R2 == R \cup {u}
           A2 == A \cup {v}
<1>1. v \in V \ A /\ v \in t.node /\ u \in t.node /\ V \cup {u} = V
  <2>1. sts[k] \in Seq(t.node) /\ IsClimb(t, V, R, A, sts[k]) /\ v = sts[k][Len(sts[k])]
    BY DEF InRounds, Last
  <2>2. v \in V /\ v \in t.node
    BY <2>1 DEF IsClimb, InRounds, Marked
  <2> QED  BY <2>2, TreeType
<1>2. Marked(t, V \cup {u}, R2, A2) /\ Asked(t, S, V \cup {u}, R2, A2)
  <2>1. Marked(t, V, R, A) /\ Asked(t, S, V, R, A) /\ R \subseteq V
    BY DEF InRounds, Marked
  <2> QED  BY <1>1, <2>1, MarkedClimb, AskedClimb
<1>3. \A j \in DOMAIN sts : IsClimb(t, V \cup {u}, R2, A2, sts[j])
  BY ClimbGrows DEF InRounds
<1>4. \A w \in (V \cup {u}) \ A2 : GoesOnAt(sts, w)
  BY <1>1 DEF InRounds
<1> QED  BY <1>2, <1>3, <1>4 DEF InRounds

\* A turn that ends a stack that can go no further.
LEMMA ClimbEnds ==
    ASSUME NEW t, NEW S, NEW V, NEW R, NEW A, NEW sts,
           InRounds(t, S, V, R, A, sts), NEW k \in DOMAIN sts, sts[k] # << >>,
           Last(sts[k]) \in A
    PROVE  InRounds(t, S, V, R, A, [sts EXCEPT ![k] = << >>])
<1> DEFINE new == [sts EXCEPT ![k] = << >>]
<1>1. << >> \in Seq(t.node)
  OBVIOUS
<1>2. /\ new \in Seq(Seq(t.node)) /\ Len(new) > 0 /\ DOMAIN new = DOMAIN sts
      /\ new[k] = << >> /\ \A j \in DOMAIN sts \ {k} : new[j] = sts[j]
  <2> DEFINE T == Seq(t.node)
  <2>1. sts \in Seq(T) /\ Len(sts) > 0 /\ << >> \in T
    BY <1>1 DEF InRounds
  <2> HIDE DEF T
  <2>2. new \in Seq(T) /\ Len(new) > 0 /\ DOMAIN new = DOMAIN sts
        /\ new[k] = << >> /\ \A j \in DOMAIN sts \ {k} : new[j] = sts[j]
    BY <2>1, ReplaceFacts
  <2> QED  BY <2>2 DEF T
<1> HIDE DEF new
<1>3. \A j \in DOMAIN new : IsClimb(t, V, R, A, new[j])
  <2>1. IsClimb(t, V, R, A, << >>)
    BY <1>1 DEF IsClimb
  <2>2. \A j \in DOMAIN sts : IsClimb(t, V, R, A, sts[j])
    BY DEF InRounds
  <2> QED  BY <1>2, <2>1, <2>2
<1>4. ASSUME NEW w \in V \ A PROVE GoesOnAt(new, w)
  <2>1. PICK j \in DOMAIN sts : sts[j] # << >> /\ Last(sts[j]) = w
    BY DEF InRounds, GoesOnAt
  <2>2. j # k
    BY <2>1
  <2> QED  BY <1>2, <2>1, <2>2 DEF GoesOnAt
<1> QED  BY <1>2, <1>3, <1>4 DEF InRounds, new

\* On a stack, each node is above those before it, and differs from them.
LEMMA StackGoesUp ==
    ASSUME NEW t, IsTree(t), NEW st \in Seq(t.node),
           \A i \in 1 .. Len(st) - 1 : st[i] \in t.node \ {t.root} /\ st[i + 1] = t.parent[st[i]]
    PROVE  \A j \in 1 .. Len(st) : \A i \in 1 .. j :
               st[j] \in PathUp(t, st[i]) /\ (i < j => st[i] # st[j])
<1>0. Len(st) \in Nat /\ \A i \in 1 .. Len(st) : st[i] \in t.node
  OBVIOUS
<1> DEFINE Is(j) == \A i \in 1 .. j : st[j] \in PathUp(t, st[i]) /\ (i < j => st[i] # st[j])
           N     == {n \in Nat : n + 1 <= Len(st) => Is(n + 1)}
<1>1. 0 \in N
  <2>1. ASSUME 1 <= Len(st) PROVE Is(1)
    <3>1. st[1] \in t.node
      BY <1>0, <2>1
    <3> QED  BY <3>1, PathUpFacts
  <2> QED  BY <2>1
<1>2. ASSUME NEW n \in N PROVE n + 1 \in N
  <2>1. SUFFICES ASSUME (n + 1) + 1 <= Len(st) PROVE Is((n + 1) + 1)
    OBVIOUS
  <2>2. n + 1 \in 1 .. Len(st) - 1 /\ n + 1 \in 1 .. Len(st) /\ (n + 1) + 1 \in 1 .. Len(st)
    BY <1>0, <2>1
  <2> DEFINE last == st[n + 1]
             next == st[(n + 1) + 1]
  <2>3. last \in t.node \ {t.root} /\ next = t.parent[last] /\ next \in t.node
    BY <1>0, <2>2
  <2>4. next \in PathUp(t, last) /\ last \notin PathUp(t, next)
    BY <2>3, PathUpStep, NotAboveParent
  <2>5. Is(n + 1)
    BY <2>2
  <2>6. ASSUME NEW i \in 1 .. (n + 1) + 1
        PROVE  next \in PathUp(t, st[i]) /\ (i < (n + 1) + 1 => st[i] # next)
    <3>1. CASE i = (n + 1) + 1
      BY <2>3, <3>1, PathUpFacts
    <3>2. CASE i # (n + 1) + 1
      <4>1. i \in 1 .. n + 1 /\ i \in 1 .. Len(st)
        BY <2>2, <3>2
      <4>2. last \in PathUp(t, st[i]) /\ st[i] \in t.node
        BY <1>0, <2>5, <4>1
      <4>3. next \in PathUp(t, st[i])
        BY <2>4, <4>2, PathUpTransitive
      <4> QED  BY <2>4, <4>2, <4>3
    <3> QED  BY <3>1, <3>2
  <2> QED  BY <2>6
<1>3. N = Nat
  <2>1. N \in SUBSET Nat
    OBVIOUS
  <2> HIDE DEF N
  <2> QED  BY <1>1, <1>2, <2>1, NaturalsByInduction
<1>4. ASSUME NEW j \in 1 .. Len(st) PROVE Is(j)
  <2>1. j - 1 \in N /\ (j - 1) + 1 = j /\ j <= Len(st)
    BY <1>0, <1>3
  <2> HIDE DEF Is
  <2> QED  BY <2>1
<1> QED  BY <1>4

\* A stack is always left, and has an arc to follow or is at the root.
LEMMA OneLeft ==
    ASSUME NEW t, IsTree(t), NEW S \in SUBSET t.node, NEW V, NEW R, NEW A, NEW sts,
           InRounds(t, S, V, R, A, sts)
    PROVE  \E k \in DOMAIN sts : sts[k] # << >> /\ Last(sts[k]) \in V \ A
<1>1. V # {} /\ V \subseteq t.node /\ A \subseteq V \ {t.root} /\ \A c \in A : t.parent[c] \in V
  BY DEF InRounds, Marked, Asked
<1>2. V \ A # {}
  <2>1. SUFFICES ASSUME V = A PROVE FALSE
    BY <1>1
  <2>2. V \in SUBSET (t.node \ {t.root}) /\ V # {}
    BY <1>1, <2>1
  <2>3. \E n \in V : t.parent[n] \notin V
    BY <2>2 DEF IsTree
  <2> QED  BY <1>1, <2>1, <2>3
<1>3. PICK v \in V \ A : TRUE
  BY <1>2
<1>4. GoesOnAt(sts, v)
  BY DEF InRounds
<1> QED  BY <1>4 DEF GoesOnAt

\* k is the only stack left, and its topmost re-entered node is at top.
IsSole(R, sts, k, top) ==
    /\ k \in DOMAIN sts /\ sts[k] # << >>
    /\ \A j \in DOMAIN sts : j # k => sts[j] = << >>
    /\ top \in 1 .. Len(sts[k]) /\ sts[k][top] \in R
    /\ \A i \in top + 1 .. Len(sts[k]) : sts[k][i] \notin R

LastRound(t, S, V, R, A, sts, k, top) ==
    IsTree(t) /\ S \subseteq t.node /\ InRounds(t, S, V, R, A, sts) /\ IsSole(R, sts, k, top)

LEMMA SoleFacts ==
    ASSUME NEW t, NEW S, NEW V, NEW R, NEW A, NEW sts, NEW k, NEW top,
           LastRound(t, S, V, R, A, sts, k, top)
    PROVE  LET st == sts[k]
           IN  /\ st \in Seq(t.node) /\ Len(st) \in Nat /\ top \in 1 .. Len(st)
               /\ \A i \in 1 .. Len(st) : st[i] \in V
               /\ \A i \in 1 .. Len(st) - 1 : st[i] \in A /\ st[i + 1] = t.parent[st[i]]
               /\ st[Len(st)] \notin A
               /\ \A w \in V \ A : w = st[Len(st)]
<1>0. IsTree(t) /\ S \subseteq t.node /\ InRounds(t, S, V, R, A, sts) /\ IsSole(R, sts, k, top)
  BY DEF LastRound
<1> DEFINE st == sts[k]
<1>1. st \in Seq(t.node) /\ Len(st) \in Nat /\ top \in 1 .. Len(st)
  BY <1>0 DEF InRounds, IsClimb, IsSole
<1>2. /\ \A i \in 1 .. Len(st) : st[i] \in V
      /\ \A i \in 1 .. Len(st) - 1 : st[i] \in A /\ st[i + 1] = t.parent[st[i]]
  <2>1. IsClimb(t, V, R, A, st) /\ st # << >>
    BY <1>0 DEF InRounds, IsSole
  <2> QED  BY <2>1 DEF IsClimb
<1>3. PICK j \in DOMAIN sts : sts[j] # << >> /\ Last(sts[j]) \in V \ A
  BY <1>0, OneLeft
<1>4. j = k /\ st[Len(st)] \notin A
  BY <1>0, <1>3 DEF IsSole, Last
<1>5. \A w \in V \ A : w = st[Len(st)]
  BY <1>0 DEF InRounds, GoesOnAt, IsSole, Last
<1> HIDE DEF st
<1> QED  BY <1>1, <1>2, <1>4, <1>5 DEF st

\* A visited node on the stack above its topmost re-entered node is come to only by the
\* arc the stack took.
LEMMA OnlyFromBelow ==
    ASSUME NEW t, NEW S, NEW V, NEW R, NEW A, NEW sts, NEW k, NEW top,
           LastRound(t, S, V, R, A, sts, k, top),
           NEW c \in A, NEW i \in top + 1 .. Len(sts[k]), t.parent[c] = sts[k][i]
    PROVE  c = sts[k][i - 1] /\ i - 1 \in top .. Len(sts[k]) - 1
<1>0. IsTree(t) /\ S \subseteq t.node /\ InRounds(t, S, V, R, A, sts) /\ IsSole(R, sts, k, top)
  BY DEF LastRound
<1> DEFINE st == sts[k]
           d  == st[i - 1]
<1>1. Len(st) \in Nat /\ top \in 1 .. Len(st) /\ i - 1 \in 1 .. Len(st) - 1
      /\ i - 1 \in top .. Len(st) - 1 /\ (i - 1) + 1 = i
  BY SoleFacts
<1>2. d \in A /\ t.parent[d] = st[i]
  BY <1>1, SoleFacts
<1>3. st[i] \notin R
  BY <1>0 DEF IsSole
<1>4. c = d
  BY <1>0, <1>2, <1>3 DEF InRounds, Marked
<1> QED  BY <1>1, <1>4

\* The topmost re-entered node is above all visited nodes but those above it.
LEMMA TopmostIsAbove ==
    ASSUME NEW t, NEW S, NEW V, NEW R, NEW A, NEW sts, NEW k, NEW top,
           LastRound(t, S, V, R, A, sts, k, top)
    PROVE  \A v \in V : \/ sts[k][top] \in PathUp(t, v)
                        \/ \E i \in top + 1 .. Len(sts[k]) : v = sts[k][i]
<1>0. IsTree(t) /\ S \subseteq t.node /\ InRounds(t, S, V, R, A, sts) /\ IsSole(R, sts, k, top)
  BY DEF LastRound
<1> DEFINE st      == sts[k]
           r       == st[top]
           Is(v)   == r \in PathUp(t, v) \/ \E i \in top + 1 .. Len(st) : v = st[i]
           X       == {v \in t.node : v \in V => Is(v)}
<1>1. /\ Len(st) \in Nat /\ top \in 1 .. Len(st) /\ r \in V
      /\ \A v \in V \ A : v = st[Len(st)]
  BY SoleFacts
<1>2. V \subseteq t.node /\ A \subseteq V \ {t.root} /\ \A c \in A : t.parent[c] \in V
  BY <1>0 DEF InRounds, Marked
<1>3. ASSUME NEW i \in top .. Len(st) PROVE Is(st[i])
  <2>1. CASE i = top
    BY <1>0, <1>1, <1>2, <2>1, PathUpFacts
  <2>2. CASE i # top
    BY <1>1, <2>2
  <2> QED  BY <2>1, <2>2
<1>4. ASSUME NEW v \in V \ A PROVE Is(v)
  <2>1. v = st[Len(st)] /\ Len(st) \in top .. Len(st)
    BY <1>1
  <2> HIDE DEF Is
  <2> QED  BY <1>3, <2>1
<1>5. t.root \in X
  BY <1>0, <1>2, <1>4, TreeType
<1>6. ASSUME NEW n \in t.node \ {t.root}, t.parent[n] \in X, n \in V PROVE Is(n)
  <2>1. CASE n \notin A
    BY <1>4, <1>6, <2>1
  <2>2. CASE n \in A
    <3>1. Is(t.parent[n])
      BY <1>2, <1>6, <2>2
    <3>2. CASE r \in PathUp(t, t.parent[n])
      BY <1>0, <3>2, PathUpStep
    <3>3. CASE \E i \in top + 1 .. Len(st) : t.parent[n] = st[i]
      <4>1. PICK i \in top + 1 .. Len(st) : t.parent[n] = st[i]
        BY <3>3
      <4>2. n = st[i - 1] /\ i - 1 \in top .. Len(st) - 1
        BY <2>2, <4>1, OnlyFromBelow
      <4>3. i - 1 \in top .. Len(st)
        BY <1>1, <4>2
      <4> HIDE DEF Is
      <4> QED  BY <1>3, <4>2, <4>3
    <3> QED  BY <3>1, <3>2, <3>3
  <2> QED  BY <2>1, <2>2
<1>7. t.node \subseteq X
  <2>1. \A n \in t.node \ {t.root} : t.parent[n] \in X => n \in X
    BY <1>6
  <2> HIDE DEF X
  <2> QED  BY <1>0, <1>5, <2>1, TreeInduction
<1> QED  BY <1>2, <1>7

IsNearest(t, S, a) ==
    /\ a \in t.node /\ IsCommon(t, S, a)
    /\ \A b \in t.node : IsCommon(t, S, b) => b \in PathUp(t, a)

\* The topmost re-entered node is the answer.
LEMMA TopmostIsNearest ==
    ASSUME NEW t, NEW S, NEW V, NEW R, NEW A, NEW sts, NEW k, NEW top,
           LastRound(t, S, V, R, A, sts, k, top)
    PROVE  IsNearest(t, S, sts[k][top])
<1>0. IsTree(t) /\ S \subseteq t.node /\ InRounds(t, S, V, R, A, sts) /\ IsSole(R, sts, k, top)
  BY DEF LastRound
<1> DEFINE r == sts[k][top]
<1>1. r \in R /\ r \in t.node /\ S \subseteq R /\ R \subseteq V
  BY <1>0 DEF IsSole, InRounds, Marked, Asked
<1>2. \A s \in S : r \in PathUp(t, s)
  <2>1. ASSUME NEW s \in S PROVE r \in PathUp(t, s)
    <3>1. s \in V /\ s \in R
      BY <1>1
    <3>2. ~ \E i \in top + 1 .. Len(sts[k]) : s = sts[k][i]
      BY <1>0, <3>1 DEF IsSole
    <3> QED  BY <3>1, <3>2, TopmostIsAbove
  <2> QED  BY <2>1
<1>3. \A b \in t.node : IsCommon(t, S, b) => b \in PathUp(t, r)
  BY <1>0, <1>1 DEF InRounds, Asked
<1> QED  BY <1>1, <1>2, <1>3 DEF IsNearest, IsCommon

\* Undoing what is above the topmost re-entered node, and splitting the rest.
LEMMA Examined ==
    ASSUME NEW t, NEW S, NEW V, NEW R, NEW A, NEW sts, NEW k, NEW top,
           LastRound(t, S, V, R, A, sts, k, top)
    PROVE  LET st    == sts[k]
               above == {st[i] : i \in top + 1 .. Len(st)}
               lower == {st[i] : i \in top .. Len(st) - 1}
               kept  == {st[i] : i \in 1 .. top}
           IN  /\ above \cap R = {} /\ 0 \notin lower
               /\ InRounds(t, S, (V \ above) \cup kept, R \cup kept, A \ lower,
                           [i \in 1 .. top |-> <<st[i]>>])
<1>0. IsTree(t) /\ S \subseteq t.node /\ InRounds(t, S, V, R, A, sts) /\ IsSole(R, sts, k, top)
  BY DEF LastRound
<1> DEFINE st    == sts[k]
           above == {st[i] : i \in top + 1 .. Len(st)}
           lower == {st[i] : i \in top .. Len(st) - 1}
           kept  == {st[i] : i \in 1 .. top}
           V2    == (V \ above) \cup kept
           R2    == R \cup kept
           A2    == A \ lower
           new   == [i \in 1 .. top |-> <<st[i]>>]
<1>1. /\ st \in Seq(t.node) /\ Len(st) \in Nat /\ top \in 1 .. Len(st)
      /\ \A i \in 1 .. Len(st) : st[i] \in V
      /\ \A i \in 1 .. Len(st) - 1 : st[i] \in A /\ st[i + 1] = t.parent[st[i]]
      /\ st[Len(st)] \notin A
      /\ \A w \in V \ A : w = st[Len(st)]
  BY SoleFacts
<1>2. /\ V \subseteq t.node /\ R \subseteq V /\ A \subseteq V \ {t.root}
      /\ \A c \in A : t.parent[c] \in V
      /\ \A c, d \in A : c # d /\ t.parent[c] = t.parent[d] => t.parent[c] \in R
  BY <1>0 DEF InRounds, Marked
<1>3. /\ S # {} /\ S \subseteq R
      /\ \A v \in V : v \in S \/ \E c \in A : t.parent[c] = v
      /\ \A v \in V : \E s \in S : v \in PathUp(t, s)
      /\ \A a \in t.node : IsCommon(t, S, a) => \A r \in R : a \in PathUp(t, r)
  BY <1>0 DEF InRounds, Asked
<1>4. above \cap R = {}
  BY <1>0 DEF IsSole
<1>5. lower \subseteq A /\ 0 \notin lower
  <2>1. lower \subseteq A
    BY <1>1
  <2>2. 0 \notin A
    BY <1>0, <1>2 DEF IsTree
  <2> QED  BY <2>1, <2>2
<1>6. kept \subseteq V /\ V2 \subseteq V /\ R2 \subseteq V2 /\ st[top] \in kept
  <2>1. kept \subseteq V /\ st[top] \in kept
    BY <1>1
  <2> HIDE DEF above, kept
  <2> QED  BY <1>2, <1>4, <2>1
<1>7. ASSUME NEW c \in A, t.parent[c] \in above PROVE c \in lower
  <2>1. PICK i \in top + 1 .. Len(st) : t.parent[c] = st[i]
    BY <1>7
  <2>2. c = st[i - 1] /\ i - 1 \in top .. Len(st) - 1
    BY <2>1, OnlyFromBelow
  <2> QED  BY <2>2
<1>8. above \cap A \subseteq lower
  <2>1. ASSUME NEW i \in top + 1 .. Len(st), st[i] \in A PROVE st[i] \in lower
    <3>1. i # Len(st)
      BY <1>1, <2>1
    <3>2. i \in top .. Len(st) - 1
      BY <1>1, <3>1
    <3> QED  BY <3>2
  <2> QED  BY <2>1
<1>9. Marked(t, V2, R2, A2)
  <2>1. A2 \subseteq V2 \ {t.root}
    <3> HIDE DEF above, lower, kept
    <3> QED  BY <1>2, <1>8
  <2>2. \A c \in A2 : t.parent[c] \in V2
    <3> HIDE DEF above, lower, kept
    <3> QED  BY <1>2, <1>7
  <2>3. V2 \subseteq t.node /\ R2 \subseteq V2
    BY <1>2, <1>6
  <2>4. \A c, d \in A2 : c # d /\ t.parent[c] = t.parent[d] => t.parent[c] \in R2
    BY <1>2
  <2> QED  BY <2>1, <2>2, <2>3, <2>4 DEF Marked
<1>10. \A i \in 1 .. top : st[top] \in PathUp(t, st[i])
  <2>1. \A i \in 1 .. Len(st) - 1 : st[i] \in t.node \ {t.root}
    BY <1>1, <1>2
  <2> HIDE DEF st
  <2> QED  BY <1>0, <1>1, <2>1, StackGoesUp
<1>11. kept \cap above = {}
  <2>1. \A i \in 1 .. Len(st) - 1 : st[i] \in t.node \ {t.root}
    BY <1>1, <1>2
  <2>2. ASSUME NEW i \in 1 .. top, NEW j \in top + 1 .. Len(st) PROVE st[i] # st[j]
    <3>1. j \in 1 .. Len(st) /\ i \in 1 .. j /\ i < j
      BY <1>1
    <3> HIDE DEF st
    <3> QED  BY <1>0, <1>1, <2>1, <3>1, StackGoesUp
  <2> QED  BY <2>2
<1>12. ASSUME NEW v \in V2, v \notin S PROVE \E c \in A2 : t.parent[c] = v
  <2>1. v \in V /\ v \notin above
    <3> HIDE DEF above, kept
    <3> QED  BY <1>6, <1>11
  <2>2. PICK c \in A : t.parent[c] = v
    BY <1>3, <1>12, <2>1
  <2>3. ASSUME NEW i \in top .. Len(st) - 1, c = st[i] PROVE FALSE
    <3>1. i \in 1 .. Len(st) - 1 /\ i + 1 \in top + 1 .. Len(st)
      BY <1>1
    <3>2. v = st[i + 1]
      BY <1>1, <2>2, <2>3, <3>1
    <3> QED  BY <2>1, <3>1, <3>2
  <2> QED  BY <2>2, <2>3
<1>13. ASSUME NEW a \in t.node, IsCommon(t, S, a), NEW r \in R2 PROVE a \in PathUp(t, r)
  <2>1. CASE r \in R
    BY <1>3, <1>13, <2>1
  <2>2. CASE r \in kept
    <3>1. PICK i \in 1 .. top : r = st[i]
      BY <2>2
    <3>2. a \in PathUp(t, st[top]) /\ st[top] \in PathUp(t, r) /\ r \in t.node
      <4>1. st[top] \in R
        BY <1>0 DEF IsSole
      <4>2. r \in t.node
        BY <1>1, <1>2, <3>1
      <4> QED  BY <1>3, <1>10, <1>13, <3>1, <4>1, <4>2
    <3> QED  BY <1>0, <3>2, PathUpTransitive
  <2> QED  BY <2>1, <2>2
<1>14. Asked(t, S, V2, R2, A2)
  <2>1. S \subseteq R2 /\ \A v \in V2 : \E s \in S : v \in PathUp(t, s)
    BY <1>3, <1>6
  <2> HIDE DEF V2, R2, A2
  <2> QED  BY <1>12, <1>13, <2>1 DEF Asked
<1>15. new \in Seq(Seq(t.node)) /\ Len(new) = top /\ DOMAIN new = 1 .. top
       /\ \A i \in 1 .. top : new[i] = <<st[i]>>
  <2> DEFINE T == Seq(t.node)
  <2>1. \A i \in 1 .. top : <<st[i]>> \in T
    <3>1. \A i \in 1 .. top : st[i] \in t.node
      BY <1>1
    <3> HIDE DEF st
    <3> QED  BY <3>1, OneElement
  <2>2. top \in Nat
    BY <1>1
  <2> HIDE DEF T, st
  <2>3. new \in [1 .. top -> T]
    BY <2>1
  <2> HIDE DEF new
  <2>4. new \in Seq(T) /\ DOMAIN new = 1 .. top
    BY <2>2, <2>3
  <2>5. Len(new) = top
    BY <2>2, <2>4
  <2> QED  BY <2>4, <2>5 DEF T, new
<1> HIDE DEF new
<1>16. \A j \in DOMAIN new : IsClimb(t, V2, R2, A2, new[j])
  <2>1. ASSUME NEW i \in 1 .. top PROVE IsClimb(t, V2, R2, A2, <<st[i]>>)
    <3>1. st[i] \in kept /\ st[i] \in t.node
      BY <1>1
    <3>2. st[i] \in R2 /\ st[i] \in V2
      BY <3>1
    <3> DEFINE one == <<st[i]>>
    <3> HIDE DEF R2, V2, A2, st
    <3>3. one \in Seq(t.node) /\ Len(one) = 1 /\ one[1] = st[i]
      BY <3>1, OneElement
    <3> HIDE DEF one
    <3>4. 1 .. Len(one) = {1} /\ 1 .. Len(one) - 1 = {}
      BY <3>3
    <3>5. IsClimb(t, V2, R2, A2, one)
      BY <3>2, <3>3, <3>4 DEF IsClimb
    <3> QED  BY <3>5 DEF one
  <2> QED  BY <1>15, <2>1
<1>17. ASSUME NEW w \in V2 \ A2 PROVE GoesOnAt(new, w)
  <2>1. w \in kept
    <3>1. CASE w \notin A
      <4>1. w = st[Len(st)] /\ (Len(st) = top \/ Len(st) \in top + 1 .. Len(st))
        BY <1>1, <1>6, <3>1
      <4>2. w \notin above \/ w \in kept
        OBVIOUS
      <4> QED  BY <1>1, <4>1, <4>2
    <3>2. CASE w \in A
      <4>1. PICK i \in top .. Len(st) - 1 : w = st[i]
        BY <3>2
      <4>2. i = top \/ i \in top + 1 .. Len(st)
        BY <1>1
      <4> QED  BY <1>1, <4>1, <4>2
    <3> QED  BY <3>1, <3>2
  <2>2. PICK i \in 1 .. top : w = st[i]
    BY <2>1
  <2>3. new[i] # << >> /\ Last(new[i]) = w
    <3>1. new[i] = <<w>>
      BY <1>15, <2>2
    <3> QED  BY <3>1, OneElement
  <2> QED  BY <1>15, <2>3 DEF GoesOnAt
<1>18. InRounds(t, S, V2, R2, A2, new)
  <2>1. Len(new) > 0
    BY <1>1, <1>15
  <2> HIDE DEF V2, R2, A2
  <2> QED  BY <1>0, <1>3, <1>9, <1>14, <1>15, <1>16, <1>17, <2>1 DEF InRounds
<1> QED  BY <1>4, <1>5, <1>18 DEF new

-----------------------------------------------------------------------------
(* The stacks that a query begins with.                                    *)

\* V is the nodes that have a stack.
IsStarted(t, S, V, sts) ==
    /\ sts \in Seq(Seq(t.node)) /\ V \subseteq S
    /\ V = {sts[i][1] : i \in DOMAIN sts}
    /\ \A i \in DOMAIN sts : sts[i] = <<sts[i][1]>>
    /\ Cardinality(V) = Len(sts)

LEMMA OneMoreStack ==
    ASSUME NEW t, IsTree(t), NEW S \in SUBSET t.node, NEW V, NEW sts, IsStarted(t, S, V, sts),
           NEW n \in S \ V
    PROVE  IsStarted(t, S, V \cup {n}, Append(sts, <<n>>))
<1> DEFINE T   == Seq(t.node)
           one == <<n>>
           new == Append(sts, one)
<1>1. sts \in Seq(T) /\ one \in T /\ one[1] = n
  BY OneElement DEF IsStarted
<1>2. DOMAIN sts = 1 .. Len(sts) /\ Len(sts) \in Nat
  BY <1>1
<1> HIDE DEF T, one
<1>3. new \in Seq(T) /\ Len(new) = Len(sts) + 1 /\ new[Len(new)] = one
      /\ \A i \in 1 .. Len(sts) : new[i] = sts[i]
  BY <1>1, AppendFacts
<1> HIDE DEF new
<1>4. DOMAIN new = 1 .. Len(sts) + 1
  BY <1>2, <1>3
<1>5. V \cup {n} = {new[i][1] : i \in DOMAIN new}
  <2>1. ASSUME NEW v \in V \cup {n} PROVE \E i \in DOMAIN new : v = new[i][1]
    <3>1. CASE v = n
      <4>1. Len(new) \in DOMAIN new
        BY <1>2, <1>3, <1>4
      <4> QED  BY <1>1, <1>3, <3>1, <4>1
    <3>2. CASE v # n
      <4>1. PICK i \in DOMAIN sts : v = sts[i][1]
        BY <3>2 DEF IsStarted
      <4> QED  BY <1>2, <1>3, <1>4, <4>1
    <3> QED  BY <3>1, <3>2
  <2>2. ASSUME NEW i \in DOMAIN new PROVE new[i][1] \in V \cup {n}
    <3>1. CASE i = Len(new)
      BY <1>1, <1>3, <3>1
    <3>2. CASE i # Len(new)
      <4>1. i \in DOMAIN sts
        BY <1>2, <1>3, <1>4, <3>2
      <4> QED  BY <1>2, <1>3, <4>1 DEF IsStarted
    <3> QED  BY <3>1, <3>2
  <2> QED  BY <2>1, <2>2
<1>6. ASSUME NEW i \in DOMAIN new PROVE new[i] = <<new[i][1]>>
  <2>1. CASE i = Len(new)
    BY <1>1, <1>3, <2>1 DEF one
  <2>2. CASE i # Len(new)
    <3>1. i \in DOMAIN sts
      BY <1>2, <1>3, <1>4, <2>2
    <3> QED  BY <1>2, <1>3, <3>1 DEF IsStarted
  <2> QED  BY <2>1, <2>2
<1>7. Cardinality(V \cup {n}) = Len(new)
  <2>1. IsFiniteSet(V) /\ n \notin V
    BY TreeType, FS_Subset DEF IsStarted
  <2>2. Cardinality(V \cup {n}) = Cardinality(V) + 1
    BY <2>1, FS_AddElement
  <2> QED  BY <1>3, <2>2 DEF IsStarted
<1>8. new \in Seq(Seq(t.node)) /\ V \cup {n} \subseteq S
  BY <1>3 DEF T, IsStarted
<1> QED  BY <1>5, <1>6, <1>7, <1>8 DEF IsStarted, new, one

\* When there is one for each node, the rounds begin.
LEMMA RoundsBegin ==
    ASSUME NEW t, IsTree(t), NEW S \in SUBSET t.node, NEW V, NEW sts, IsStarted(t, S, V, sts),
           Len(sts) = Cardinality(S), V # {}
    PROVE  InRounds(t, S, V, V, {}, sts)
<1>1. V = S
  <2>1. IsFiniteSet(S)
    BY TreeType, FS_Subset
  <2> QED  BY <2>1, FS_Subset DEF IsStarted
<1>2. Marked(t, V, V, {})
  BY <1>1 DEF Marked
<1>3. Asked(t, S, V, V, {})
  <2>1. \A v \in V : \E s \in S : v \in PathUp(t, s)
    BY <1>1, PathUpFacts
  <2>2. \A a \in t.node : IsCommon(t, S, a) => \A r \in V : a \in PathUp(t, r)
    BY <1>1 DEF IsCommon
  <2> QED  BY <1>1, <2>1, <2>2 DEF Asked
<1>4. DOMAIN sts = 1 .. Len(sts) /\ Len(sts) \in Nat /\ \A k \in DOMAIN sts : sts[k] \in Seq(t.node)
  <2> DEFINE T == Seq(t.node)
  <2>1. sts \in Seq(T)
    BY DEF IsStarted
  <2> HIDE DEF T
  <2>2. DOMAIN sts = 1 .. Len(sts) /\ Len(sts) \in Nat /\ \A k \in DOMAIN sts : sts[k] \in T
    BY <2>1
  <2> QED  BY <2>2 DEF T
<1>5. ASSUME NEW k \in DOMAIN sts
      PROVE  IsClimb(t, V, V, {}, sts[k]) /\ sts[k] # << >> /\ Last(sts[k]) = sts[k][1]
  <2> DEFINE one == sts[k]
  <2>1. one = <<one[1]>> /\ one \in Seq(t.node) /\ one[1] \in V
    BY <1>4 DEF IsStarted
  <2> HIDE DEF one
  <2>2. Len(one) = 1 /\ one # << >> /\ Last(one) = one[1]
    BY <2>1, OneElement
  <2>3. 1 .. Len(one) = {1} /\ 1 .. Len(one) - 1 = {}
    BY <2>2
  <2>4. IsClimb(t, V, V, {}, one)
    BY <2>1, <2>3 DEF IsClimb
  <2> QED  BY <2>2, <2>4 DEF one
<1>6. ASSUME NEW w \in V \ {} PROVE GoesOnAt(sts, w)
  <2>1. PICK k \in DOMAIN sts : w = sts[k][1]
    BY DEF IsStarted
  <2> QED  BY <1>5, <2>1 DEF GoesOnAt
<1>7. Len(sts) > 0
  <2>1. PICK k \in DOMAIN sts : TRUE
    BY DEF IsStarted
  <2> QED  BY <1>4, <2>1
<1> QED  BY <1>1, <1>2, <1>3, <1>5, <1>6, <1>7 DEF InRounds, IsStarted

-----------------------------------------------------------------------------
(* The steps of a query.                                                   *)

\* A node that is nearest is the one the property speaks of.
LEMMA NearestIsUnique ==
    ASSUME IsTree(tree), NEW S \in SUBSET tree.node, NEW a, IsNearest(tree, S, a)
    PROVE  a = NearestCommon(S)
<1> DEFINE common  == {b \in tree.node : \A n \in S : b \in PathUp(tree, n)}
           Best(b) == common \subseteq PathUp(tree, b)
<1>1. NearestCommon(S) = CHOOSE b \in common : Best(b)
  BY DEF NearestCommon
<1>2. \A b : b \in common <=> b \in tree.node /\ IsCommon(tree, S, b)
  BY DEF IsCommon
<1>3. a \in common /\ Best(a)
  BY <1>2 DEF IsNearest
<1>4. ASSUME NEW b \in common, Best(b) PROVE b = a
  <2>1. a \in PathUp(tree, b) /\ b \in PathUp(tree, a) /\ a \in tree.node /\ b \in tree.node
    BY <1>2, <1>3, <1>4
  <2> QED  BY <2>1, PathUpAntisymmetric
<1> HIDE DEF common, Best
<1> QED  BY <1>1, <1>3, <1>4

QueryTypes ==
    /\ nodes \subseteq tree.node
    /\ stacks \in Seq(Seq(tree.node)) /\ turn \in 1 .. Len(stacks) + 1
    /\ visited \subseteq tree.node /\ reentered \subseteq visited
    /\ arcs \subseteq tree.node \ {tree.root}

QueryInv ==
    /\ QueryTypes
    /\ pc \in {"idle", "stacks", "rounds"}
    /\ pc = "idle" /\ nodes # {} => IsNearest(tree, nodes, result)
    /\ pc = "stacks" => /\ IsStarted(tree, nodes, visited, stacks)
                        /\ reentered = visited /\ arcs = {} /\ turn = 1
    /\ pc = "rounds" => /\ InRounds(tree, nodes, visited, reentered, arcs, stacks)
                        /\ turn \in DOMAIN stacks

LEMMA AskForOneInvariant ==
    ASSUME IsTree(tree), QueryInv, AskForOne
    PROVE  QueryInv'
<1>1. PICK n \in tree.node : nodes' = {n} /\ result' = n
  BY DEF AskForOne
<1>2. IsNearest(tree, {n}, n)
  BY PathUpFacts DEF IsNearest, IsCommon
<1>3. UNCHANGED <<tree, pc, stacks, turn, visited, reentered, arcs>> /\ pc = "idle"
  BY DEF AskForOne
<1>4. QueryTypes'
  BY <1>1, <1>3 DEF QueryInv, QueryTypes
<1> QED  BY <1>1, <1>2, <1>3, <1>4 DEF QueryInv

\* A query for the nodes S begins.
LEMMA QueryBegins ==
    ASSUME tree' = tree, NEW S \in SUBSET tree.node, nodes' = S, MarksReset,
           pc' = "stacks", stacks' = << >>, turn' = 1
    PROVE  QueryInv'
<1>1. << >> \in Seq(Seq(tree.node)) /\ Len(<< >>) = 0 /\ DOMAIN << >> = {}
  OBVIOUS
<1>2. Cardinality({}) = 0
  BY FS_EmptySet
<1>3. IsStarted(tree, S, {}, << >>)
  BY <1>1, <1>2 DEF IsStarted
<1>4. QueryTypes'
  BY <1>1 DEF QueryTypes, MarksReset
<1> QED  BY <1>3, <1>4 DEF QueryInv, MarksReset

LEMMA AskForManyInvariant ==
    ASSUME QueryInv, AskForMany
    PROVE  QueryInv'
BY QueryBegins DEF AskForMany

LEMMA MakeStackInvariant ==
    ASSUME IsTree(tree), QueryInv, MakeStack
    PROVE  QueryInv'
<1>1. /\ IsStarted(tree, nodes, visited, stacks) /\ reentered = visited /\ arcs = {} /\ turn = 1
      /\ nodes \subseteq tree.node
  BY DEF MakeStack, QueryInv, QueryTypes
<1>2. PICK n \in nodes \ {stacks[i][1] : i \in DOMAIN stacks} :
        /\ stacks' = Append(stacks, <<n>>)
        /\ visited' = visited \cup {n} /\ reentered' = reentered \cup {n}
  BY DEF MakeStack, MarkVisited
<1>3. UNCHANGED <<tree, nodes, turn, arcs, result>>
      /\ pc' = IF Len(stacks') = Cardinality(nodes) THEN "rounds" ELSE "stacks"
  BY DEF MakeStack
<1>4. IsStarted(tree, nodes, visited', stacks')
  <2>1. n \in nodes \ visited
    BY <1>1, <1>2 DEF IsStarted
  <2> QED  BY <1>1, <1>2, <2>1, OneMoreStack
<1>5. Len(stacks') \in Nat /\ stacks' \in Seq(Seq(tree.node))
  <2>1. stacks' \in Seq(Seq(tree.node))
    BY <1>4 DEF IsStarted
  <2> QED  BY <2>1
<1>6. QueryTypes'
  <2>1. visited' \subseteq tree.node /\ turn' \in 1 .. Len(stacks') + 1
    BY <1>1, <1>3, <1>4, <1>5 DEF IsStarted
  <2> QED  BY <1>1, <1>2, <1>3, <1>5, <2>1 DEF QueryTypes
<1>7. ASSUME Len(stacks') = Cardinality(nodes)
      PROVE  InRounds(tree, nodes, visited', visited', {}, stacks') /\ turn \in DOMAIN stacks'
  <2>1. visited' # {}
    BY <1>2
  <2>2. InRounds(tree, nodes, visited', visited', {}, stacks')
    BY <1>1, <1>4, <1>7, <2>1, RoundsBegin
  <2>3. Len(stacks') > 0
    BY <2>2 DEF InRounds
  <2> QED  BY <1>1, <1>5, <2>2, <2>3
<1>8. CASE Len(stacks') = Cardinality(nodes)
  BY <1>1, <1>2, <1>3, <1>6, <1>7, <1>8 DEF QueryInv
<1>9. CASE Len(stacks') # Cardinality(nodes)
  BY <1>1, <1>2, <1>3, <1>4, <1>6, <1>9 DEF QueryInv
<1> QED  BY <1>8, <1>9

\* A stack is used up when the arc above its end has been visited; else it stays.
LEMMA UnfinishedFacts ==
    ASSUME NEW t, t = tree, NEW V, NEW R, NEW st, IsClimb(t, V, R, arcs, st), st # << >>,
           t.root \notin arcs, Last(st) # t.root
    PROVE  Unfinished(st) = IF Last(st) \in arcs THEN << >> ELSE st
<1> DEFINE open == {i \in DOMAIN st : st[i] \notin arcs \cup {t.root}}
           S    == {0} \cup open
<1>1. /\ st \in Seq(t.node) /\ Len(st) \in Nat /\ Len(st) > 0 /\ DOMAIN st = 1 .. Len(st)
      /\ Last(st) = st[Len(st)]
  BY DEF IsClimb, Last
<1>2. S \in SUBSET Nat /\ S # {} /\ \A i \in S : i <= Len(st)
  BY <1>1
<1>3. Max(S) \in S /\ \A i \in S : i <= Max(S)
  <2> HIDE DEF S
  <2> QED  BY <1>1, <1>2, MaxOfNaturals
<1>4. Unfinished(st) = SubSeq(st, 1, Max(S))
  BY DEF Unfinished
<1>5. CASE Last(st) \in arcs
  <2>1. \A i \in DOMAIN st : st[i] \in arcs
    <3>1. ASSUME NEW i \in DOMAIN st PROVE st[i] \in arcs
      <4>1. CASE i = Len(st)
        BY <1>1, <1>5, <4>1
      <4>2. CASE i # Len(st)
        <5>1. i \in 1 .. Len(st) - 1
          BY <1>1, <4>2
        <5> QED  BY <5>1 DEF IsClimb
      <4> QED  BY <4>1, <4>2
    <3> QED  BY <3>1
  <2>2. S = {0}
    BY <2>1
  <2>3. Max(S) = 0
    BY <1>3, <2>2
  <2>4. SubSeq(st, 1, 0) = << >>
    BY <1>1
  <2> QED  BY <1>4, <1>5, <2>3, <2>4
<1>6. CASE Last(st) \notin arcs
  <2>1. Len(st) \in S
    BY <1>1, <1>6
  <2>2. Max(S) = Len(st)
    <3> HIDE DEF S
    <3>1. Max(S) \in Nat /\ Max(S) <= Len(st) /\ Len(st) <= Max(S)
      BY <1>2, <1>3, <2>1
    <3> QED  BY <1>1, <3>1
  <2>3. SubSeq(st, 1, Len(st)) = st
    BY <1>1
  <2> QED  BY <1>4, <1>6, <2>2, <2>3
<1> QED  BY <1>5, <1>6

\* The rounds keep the types.
LEMMA RoundsAreTyped ==
    ASSUME NEW t, NEW S \in SUBSET t.node, NEW V, NEW R, NEW A, NEW sts,
           InRounds(t, S, V, R, A, sts)
    PROVE  /\ sts \in Seq(Seq(t.node)) /\ Len(sts) \in Nat /\ Len(sts) > 0
           /\ DOMAIN sts = 1 .. Len(sts)
           /\ V \subseteq t.node /\ R \subseteq V /\ A \subseteq t.node \ {t.root}
<1>1. sts \in Seq(Seq(t.node)) /\ Len(sts) > 0
  BY DEF InRounds
<1>2. Len(sts) \in Nat /\ DOMAIN sts = 1 .. Len(sts)
  <2> DEFINE T == Seq(t.node)
  <2>1. sts \in Seq(T)
    BY <1>1
  <2> HIDE DEF T
  <2> QED  BY <2>1
<1>3. V \subseteq t.node /\ R \subseteq V /\ A \subseteq t.node \ {t.root}
  BY DEF InRounds, Marked
<1> QED  BY <1>1, <1>2, <1>3

\* One turn.
TurnTaken ==
    IF turn \notin Nonempty \/ ReachesRoot(stacks[turn])
    THEN UNCHANGED <<stacks, visited, reentered, arcs>>
    ELSE LET v == Last(stacks[turn])
             u == tree.parent[v]
         IN  IF v \in arcs
             THEN /\ stacks' = [stacks EXCEPT ![turn] = << >>]
                  /\ UNCHANGED <<visited, reentered, arcs>>
             ELSE /\ arcs' = arcs \cup {v}
                  /\ visited' = visited \cup {u}
                  /\ IF u \notin visited
                     THEN /\ stacks' = [stacks EXCEPT ![turn] = Append(stacks[turn], u)]
                          /\ UNCHANGED reentered
                     ELSE /\ stacks' = stacks
                          /\ reentered' = reentered \cup {u}

LEMMA StepIsATurn ==
    ASSUME IsTree(tree), QueryInv, StepStack
    PROVE  TurnTaken
<1>1. /\ InRounds(tree, nodes, visited, reentered, arcs, stacks) /\ turn \in DOMAIN stacks
      /\ tree.root \notin arcs
  BY DEF StepStack, QueryInv, QueryTypes
<1>2. CASE turn \notin Nonempty \/ ReachesRoot(stacks[turn])
  BY <1>2 DEF StepStack, TurnTaken
<1>3. CASE ~(turn \notin Nonempty \/ ReachesRoot(stacks[turn]))
  <2> DEFINE st == stacks[turn]
             v  == Last(st)
             u  == tree.parent[v]
  <2>1. st # << >> /\ v # tree.root /\ IsClimb(tree, visited, reentered, arcs, st)
    BY <1>1, <1>3 DEF Nonempty, ReachesRoot, InRounds
  <2>2. Unfinished(st) = IF v \in arcs THEN << >> ELSE st
    <3> HIDE DEF st
    <3> QED  BY <1>1, <2>1, UnfinishedFacts
  <2>3. CASE v \in arcs
    BY <1>3, <2>2, <2>3 DEF StepStack, TurnTaken
  <2>4. CASE v \notin arcs
    <3>1. Unfinished(stacks[turn]) = stacks[turn] /\ stacks[turn] # << >>
      BY <2>1, <2>2, <2>4
    <3>2. [stacks EXCEPT ![turn] = stacks[turn]] = stacks
      <4> DEFINE T == Seq(tree.node)
      <4>1. stacks \in Seq(T)
        BY <1>1 DEF InRounds
      <4> HIDE DEF T
      <4> QED  BY <1>1, <4>1
    <3> QED  BY <1>3, <2>4, <3>1, <3>2 DEF StepStack, TurnTaken
  <2> QED  BY <2>3, <2>4
<1> QED  BY <1>2, <1>3

LEMMA StepStackInvariant ==
    ASSUME IsTree(tree), QueryInv, StepStack
    PROVE  QueryInv'
<1>1. /\ InRounds(tree, nodes, visited, reentered, arcs, stacks) /\ turn \in DOMAIN stacks
      /\ nodes \in SUBSET tree.node
  BY DEF StepStack, QueryInv, QueryTypes
<1>2. /\ UNCHANGED <<tree, pc, nodes, result>> /\ pc = "rounds"
      /\ turn' = IF turn = Len(stacks) THEN 1 ELSE turn + 1
  BY DEF StepStack
<1>3. Len(stacks) \in Nat /\ DOMAIN stacks = 1 .. Len(stacks)
  BY <1>1, RoundsAreTyped
<1>4. InRounds(tree, nodes, visited', reentered', arcs', stacks') /\ Len(stacks') = Len(stacks)
  <2> DEFINE v == Last(stacks[turn])
             u == tree.parent[v]
  <2>1. TurnTaken
    BY StepIsATurn
  <2>2. CASE turn \notin Nonempty \/ ReachesRoot(stacks[turn])
    BY <1>1, <2>1, <2>2 DEF TurnTaken
  <2>3. CASE ~(turn \notin Nonempty \/ ReachesRoot(stacks[turn]))
    <3>1. stacks[turn] # << >> /\ v # tree.root
      BY <1>1, <2>3 DEF Nonempty, ReachesRoot
    <3>2. CASE v \in arcs
      <4>1. stacks' = [stacks EXCEPT ![turn] = << >>] /\ UNCHANGED <<visited, reentered, arcs>>
        BY <2>1, <2>3, <3>2 DEF TurnTaken
      <4>2. InRounds(tree, nodes, visited, reentered, arcs, stacks')
        BY <1>1, <3>1, <3>2, <4>1, ClimbEnds
      <4>3. Len(stacks') = Len(stacks)
        BY <1>3, <4>1
      <4> QED  BY <4>1, <4>2, <4>3
    <3>3. CASE v \notin arcs /\ u \notin visited
      <4>1. /\ arcs' = arcs \cup {v} /\ visited' = visited \cup {u} /\ reentered' = reentered
            /\ stacks' = [stacks EXCEPT ![turn] = Append(stacks[turn], u)]
        BY <2>1, <2>3, <3>3 DEF TurnTaken
      <4>2. InRounds(tree, nodes, visited \cup {u}, reentered, arcs \cup {v},
                     [stacks EXCEPT ![turn] = Append(stacks[turn], u)])
        BY <1>1, <3>1, <3>3, ClimbOn
      <4>3. Len(stacks') = Len(stacks)
        BY <1>3, <4>1
      <4> QED  BY <4>1, <4>2, <4>3
    <3>4. CASE v \notin arcs /\ u \in visited
      <4>1. /\ arcs' = arcs \cup {v} /\ visited' = visited \cup {u}
            /\ reentered' = reentered \cup {u} /\ stacks' = stacks
        BY <2>1, <2>3, <3>4 DEF TurnTaken
      <4>2. InRounds(tree, nodes, visited \cup {u}, reentered \cup {u}, arcs \cup {v}, stacks)
        BY <1>1, <3>1, <3>4, ClimbInto
      <4> QED  BY <4>1, <4>2
    <3> QED  BY <3>2, <3>3, <3>4
  <2> QED  BY <2>2, <2>3
<1>5. turn' \in DOMAIN stacks' /\ turn' \in 1 .. Len(stacks') + 1
  <2>1. DOMAIN stacks' = 1 .. Len(stacks')
    BY <1>1, <1>4, RoundsAreTyped
  <2> QED  BY <1>1, <1>2, <1>3, <1>4, <2>1
<1>6. QueryTypes'
  BY <1>1, <1>2, <1>4, <1>5, RoundsAreTyped DEF QueryTypes
<1> QED  BY <1>2, <1>4, <1>5, <1>6 DEF QueryInv

\* The one stack that is left, and its topmost re-entered node.
LEMMA ExamineFindsOne ==
    ASSUME IsTree(tree), QueryInv, ExamineStack
    PROVE  LET k   == CHOOSE i \in Nonempty : TRUE
               top == Topmost(ReenteredIn(stacks[k]))
           IN  /\ LastRound(tree, nodes, visited, reentered, arcs, stacks, k, top)
               /\ Nonempty # {} /\ ReenteredIn(stacks[k]) # {}
<1> DEFINE k   == CHOOSE i \in Nonempty : TRUE
           st  == stacks[k]
           re  == ReenteredIn(st)
           top == Topmost(re)
<1>1. /\ InRounds(tree, nodes, visited, reentered, arcs, stacks)
      /\ nodes \in SUBSET tree.node
  BY DEF ExamineStack, QueryInv, QueryTypes
<1>2. Nonempty # {} /\ DOMAIN stacks = 1 .. Len(stacks) /\ Len(stacks) \in Nat
  BY <1>1, OneLeft, RoundsAreTyped DEF Nonempty
<1>3. \A i, j \in Nonempty : i = j
  <2>1. IsFiniteSet(Nonempty)
    <3>1. IsFiniteSet(1 .. Len(stacks))
      BY <1>2, FS_Interval
    <3> QED  BY <1>2, <3>1, FS_Subset DEF Nonempty
  <2>2. Cardinality(Nonempty) \in Nat /\ Cardinality(Nonempty) <= 1
    BY <2>1, FS_CardinalityType DEF ExamineStack
  <2>3. ASSUME NEW i \in Nonempty, NEW j \in Nonempty, i # j PROVE FALSE
    <3>1. Cardinality({i, j}) = 2
      <4>1. IsFiniteSet({i}) /\ Cardinality({i}) = 1
        BY FS_Singleton
      <4>2. Cardinality({i} \cup {j}) = 1 + 1
        BY <2>3, <4>1, FS_AddElement
      <4>3. {i} \cup {j} = {i, j}
        OBVIOUS
      <4> QED  BY <4>2, <4>3
    <3>2. {i, j} \subseteq Nonempty
      OBVIOUS
    <3>3. Cardinality({i, j}) <= Cardinality(Nonempty)
      BY <2>1, <3>2, FS_Subset
    <3> QED  BY <2>2, <3>1, <3>3
  <2> QED  BY <2>3
<1>4. k \in Nonempty
  BY <1>2
<1> HIDE DEF k
<1>5. IsClimb(tree, visited, reentered, arcs, st) /\ st # << >>
  BY <1>1, <1>4 DEF InRounds, Nonempty
<1>6. st \in Seq(tree.node) /\ Len(st) \in Nat /\ DOMAIN st = 1 .. Len(st) /\ 1 \in re
  BY <1>5 DEF IsClimb, ReenteredIn
<1>7. re \in SUBSET Nat /\ re # {} /\ \A i \in re : i <= Len(st)
  BY <1>6 DEF ReenteredIn
<1>8. top \in re /\ \A i \in re : i <= top
  <2> HIDE DEF re
  <2> QED  BY <1>6, <1>7, MaxOfNaturals DEF Topmost
<1> HIDE DEF top
<1>9. IsSole(reentered, stacks, k, top)
  <2>1. k \in DOMAIN stacks /\ \A j \in DOMAIN stacks : j # k => stacks[j] = << >>
    BY <1>3, <1>4 DEF Nonempty
  <2>2. top \in 1 .. Len(st) /\ st[top] \in reentered
    BY <1>6, <1>8 DEF ReenteredIn
  <2>3. ASSUME NEW i \in top + 1 .. Len(st) PROVE st[i] \notin reentered
    <3>1. top \in Nat /\ i \in DOMAIN st /\ ~(i <= top)
      BY <1>6, <2>2
    <3> QED  BY <1>8, <3>1 DEF ReenteredIn
  <2> QED  BY <1>5, <2>1, <2>2, <2>3 DEF IsSole
<1> QED  BY <1>1, <1>2, <1>7, <1>9 DEF LastRound, k, top

LEMMA ExamineStackInvariant ==
    ASSUME IsTree(tree), QueryInv, ExamineStack
    PROVE  QueryInv'
<1> DEFINE k     == CHOOSE i \in Nonempty : TRUE
           st    == stacks[k]
           top   == Topmost(ReenteredIn(st))
           above == {st[i] : i \in top + 1 .. Len(st)}
           lower == {st[i] : i \in top .. Len(st) - 1}
           kept  == {st[i] : i \in 1 .. top}
           V2    == (visited \ above) \cup kept
           R2    == reentered \cup kept
           A2    == arcs \ lower
           new   == [i \in 1 .. top |-> <<st[i]>>]
<1>1. LastRound(tree, nodes, visited, reentered, arcs, stacks, k, top)
      /\ Nonempty # {} /\ ReenteredIn(st) # {}
  BY ExamineFindsOne
<1>2. above \cap reentered = {} /\ lower \ {0} = lower
  <2>1. above \cap reentered = {}
    BY <1>1 DEF LastRound, IsSole
  <2>2. 0 \notin lower
    <3>1. 0 \notin arcs
      BY DEF IsTree, QueryInv, QueryTypes
    <3>2. top \in 1 .. Len(st) /\ Len(st) \in Nat /\ \A i \in 1 .. Len(st) - 1 : st[i] \in arcs
      <4> HIDE DEF k, top
      <4> QED  BY <1>1, SoleFacts
    <3>3. \A i \in top .. Len(st) - 1 : st[i] \in arcs
      <4> HIDE DEF st, top
      <4> QED  BY <3>2
    <3> HIDE DEF st, top
    <3> QED  BY <3>1, <3>3
  <2> HIDE DEF lower, above
  <2> QED  BY <2>1, <2>2
<1>10. InRounds(tree, nodes, V2, R2, A2, new)
  <2> HIDE DEF k, top
  <2> QED  BY <1>1, Examined
<1>3. IsNearest(tree, nodes, st[top]) /\ top \in 1 .. Len(st) /\ Len(st) \in Nat
  <2> HIDE DEF k, top
  <2> QED  BY <1>1, TopmostIsNearest, SoleFacts
<1>4. /\ arcs' = A2 /\ visited' = V2 /\ reentered' = R2 /\ stacks' = new
      /\ IF top = 1 THEN pc' = "idle" /\ result' = st[1] ELSE pc' = pc /\ result' = result
      /\ UNCHANGED <<tree, nodes, turn>> /\ pc = "rounds" /\ turn = 1
  <2>1. ~(Nonempty = {} \/ ReenteredIn(st) = {} \/ above \cap reentered # {})
    BY <1>1, <1>2
  <2>2. /\ arcs' = arcs \ (lower \ {0}) /\ visited' = V2 /\ reentered' = R2 /\ stacks' = new
        /\ IF top = 1 THEN pc' = "idle" /\ result' = st[1] ELSE UNCHANGED <<pc, result>>
    BY <2>1 DEF ExamineStack
  <2>3. UNCHANGED <<tree, nodes, turn>> /\ pc = "rounds" /\ turn = 1
    BY DEF ExamineStack
  <2> HIDE DEF k, top, above, lower, kept, new
  <2> QED  BY <1>2, <2>2, <2>3
<1>5. nodes \in SUBSET tree.node
  BY DEF QueryInv, QueryTypes
<1> HIDE DEF k, st, top, V2, R2, A2, new
<1>6. Len(new) \in Nat /\ Len(new) > 0 /\ DOMAIN new = 1 .. Len(new)
  BY <1>10, <1>5, RoundsAreTyped
<1>7. QueryTypes'
  <2>1. new \in Seq(Seq(tree.node)) /\ V2 \subseteq tree.node /\ R2 \subseteq V2
        /\ A2 \subseteq tree.node \ {tree.root}
    BY <1>10, <1>5, RoundsAreTyped
  <2>2. 1 \in 1 .. Len(new) + 1
    BY <1>6
  <2> QED  BY <1>4, <1>5, <2>1, <2>2 DEF QueryTypes
<1>8. CASE top = 1
  BY <1>3, <1>4, <1>7, <1>8 DEF QueryInv
<1>9. CASE top # 1
  BY <1>10, <1>4, <1>6, <1>7, <1>9 DEF QueryInv
<1> QED  BY <1>8, <1>9

-----------------------------------------------------------------------------
(* Dominance in any graph all of whose nodes are reached.                  *)

IsReached(g) == IsRooted(g) /\ ReachableNodes(g) = g.node

\* A node has fewer dominators than what it dominates.
LEMMA FewerDominators ==
    ASSUME NEW g, IsReached(g), NEW a \in g.node, NEW b \in g.node, a # b, Dominates(g, a, b)
    PROVE  Cardinality(Dominators(g, a)) < Cardinality(Dominators(g, b))
<1> DEFINE A == Dominators(g, a)
           B == Dominators(g, b)
<1>1. IsRooted(g) /\ IsFiniteSet(g.node) /\ B \subseteq g.node
  BY DEF IsReached, IsRooted, Dominators
<1>2. IsFiniteSet(B)
  BY <1>1, FS_Subset
<1>3. A \subseteq B
  BY <1>1, DominanceTransitive DEF Dominators
<1>4. b \in B
  BY <1>1, DominatesSelf DEF Dominators
<1>5. b \notin A
  BY DominanceAntisymmetric DEF Dominators, IsReached
<1> HIDE DEF A, B
<1>6. /\ Cardinality(A) \in Nat /\ Cardinality(B) \in Nat /\ Cardinality(A) <= Cardinality(B)
      /\ Cardinality(A) # Cardinality(B)
  BY <1>2, <1>3, <1>4, <1>5, FS_Subset, FS_CardinalityType
<1> QED  BY <1>6 DEF A, B

\* How many nodes do not dominate n.
Depth(g, n) == Cardinality(g.node) - Cardinality(Dominators(g, n))

LEMMA DepthFacts ==
    ASSUME NEW g, IsReached(g)
    PROVE  /\ \A n \in g.node : Depth(g, n) \in Nat
           /\ \A a, b \in g.node : a # b /\ Dominates(g, a, b) => Depth(g, b) < Depth(g, a)
<1>1. \A n \in g.node : /\ Cardinality(Dominators(g, n)) \in Nat /\ Cardinality(g.node) \in Nat
                        /\ Cardinality(Dominators(g, n)) <= Cardinality(g.node)
  <2>1. ASSUME NEW n \in g.node
        PROVE /\ Cardinality(Dominators(g, n)) \in Nat /\ Cardinality(g.node) \in Nat
              /\ Cardinality(Dominators(g, n)) <= Cardinality(g.node)
    <3>1. IsFiniteSet(g.node) /\ Dominators(g, n) \subseteq g.node
      BY DEF IsReached, IsRooted, Dominators
    <3> QED  BY <3>1, FS_Subset, FS_CardinalityType
  <2> QED  BY <2>1
<1>2. \A n \in g.node : Depth(g, n) \in Nat
  BY <1>1 DEF Depth
<1>3. ASSUME NEW a \in g.node, NEW b \in g.node, a # b, Dominates(g, a, b)
      PROVE  Depth(g, b) < Depth(g, a)
  <2>1. Cardinality(Dominators(g, a)) < Cardinality(Dominators(g, b))
    BY <1>3, FewerDominators
  <2> QED  BY <1>1, <2>1 DEF Depth
<1> QED  BY <1>2, <1>3

IsNearestDominator(g, n, a) ==
    /\ a \in g.node \ {n} /\ Dominates(g, a, n)
    /\ \A d \in g.node \ {a} : d # n /\ Dominates(g, d, n) => Dominates(g, d, a)

LEMMA NearestDominatorExists ==
    ASSUME NEW g, IsReached(g), NEW n \in g.node \ {g.entry}
    PROVE  \E a \in g.node : IsNearestDominator(g, n, a)
<1> DEFINE D     == {d \in g.node \ {n} : Dominates(g, d, n)}
           value == [d \in D |-> Depth(g, d)]
<1>1. IsRooted(g) /\ ReachableNodes(g) = g.node
  BY DEF IsReached
<1>2. g.entry \in D
  BY <1>1, EntryDominates DEF IsRooted
<1>3. value \in [D -> Nat]
  BY DepthFacts
<1>4. PICK a \in D : \A d \in D : value[a] <= value[d]
  <2> HIDE DEF D, value
  <2> QED  BY <1>2, <1>3, LeastByValue
<1>5. ASSUME NEW d \in g.node \ {a}, d # n, Dominates(g, d, n) PROVE Dominates(g, d, a)
  <2>1. Dominates(g, d, a) \/ Dominates(g, a, d)
    BY <1>1, <1>5, DominatorsAreAChain
  <2>2. ~Dominates(g, a, d)
    <3>1. SUFFICES ASSUME Dominates(g, a, d) PROVE FALSE
      OBVIOUS
    <3>2. Depth(g, d) < Depth(g, a) /\ Depth(g, d) \in Nat /\ Depth(g, a) \in Nat
      BY <3>1, DepthFacts
    <3>3. Depth(g, a) <= Depth(g, d)
      BY <1>4, <1>5
    <3> QED  BY <3>2, <3>3
  <2> QED  BY <2>1, <2>2
<1> QED  BY <1>4, <1>5 DEF IsNearestDominator

-----------------------------------------------------------------------------
(* Post-dominance is dominance in the reversed graph of the nodes that     *)
(* reach the exit.                                                         *)

\* A path backwards.
LEMMA ReversedReached ==
    ASSUME NEW g, IsFiniteSet(g.node), NEW T \in SUBSET g.node,
           NEW h, IsFiniteSet(h.node), NEW U \in SUBSET h.node, T \subseteq U,
           \A e \in g.edge : e[1] \in T /\ e[2] \in T => <<e[2], e[1]>> \in h.edge,
           NEW a, NEW b \in ReachedFrom(g, {a}, T)
    PROVE  a \in ReachedFrom(h, {b}, U)
<1> DEFINE Way(x) == ReachedFrom(h, {x}, U)
           W      == {x \in T : a \in Way(x)}
           R      == ReachedFrom(g, {a}, T)
<1>1. \A x : /\ {x} \cap U \subseteq Way(x) /\ Way(x) \subseteq U /\ GoesOn(h, Way(x), U)
             /\ \A X : {x} \cap U \subseteq X /\ GoesOn(h, X, U) => Way(x) \subseteq X
  BY ReachedFromFacts
<1>2. /\ {a} \cap T \subseteq R /\ R \subseteq T /\ GoesOn(g, R, T)
      /\ \A X : {a} \cap T \subseteq X /\ GoesOn(g, X, T) => R \subseteq X
  BY ReachedFromFacts
<1> HIDE DEF Way, R
<1>3. {a} \cap T \subseteq W
  BY <1>1
<1>4. ASSUME NEW e \in g.edge, e[1] \in W, e[2] \in T PROVE e[2] \in W
  <2>1. <<e[2], e[1]>> \in h.edge /\ e[1] \in U /\ e[2] \in U
    BY <1>4
  <2>2. e[2] \in Way(e[2])
    BY <1>1, <2>1
  <2>3. e[1] \in Way(e[2])
    <3> DEFINE d == <<e[2], e[1]>>
    <3>1. d \in h.edge /\ d[1] = e[2] /\ d[2] = e[1]
      BY <2>1
    <3> HIDE DEF d
    <3> QED  BY <1>1, <2>1, <2>2, <3>1 DEF GoesOn
  <2>4. Way(e[1]) \subseteq Way(e[2])
    BY <1>1, <2>3
  <2> QED  BY <1>4, <2>4
<1>5. GoesOn(g, W, T)
  BY <1>4 DEF GoesOn
<1>6. R \subseteq W
  BY <1>2, <1>3, <1>5
<1> QED  BY <1>6 DEF R, Way

\* The nodes that reach the exit.
Ends(c) == ReachedFrom(Transposed(c), {c.exit}, c.node)

IsEnding(c) == IsFlowGraph(c) /\ c.exit \in c.node

LEMMA EndsFacts ==
    ASSUME NEW c, IsEnding(c)
    PROVE  /\ c.exit \in Ends(c) /\ Ends(c) \subseteq c.node /\ IsFiniteSet(Ends(c))
           /\ \A e \in c.edge : e[2] \in Ends(c) => e[1] \in Ends(c)
           /\ \A X : c.exit \in X /\ (\A e \in c.edge : e[2] \in X => e[1] \in X)
                        => Ends(c) \subseteq X
           /\ \A n \in c.node : n \in Ends(c) <=> c.exit \in ReachedFrom(c, {n}, c.node)
<1> DEFINE h == Transposed(c)
           E == Ends(c)
<1>1. IsFiniteSet(c.node) /\ c.edge \subseteq c.node \X c.node /\ c.exit \in c.node
  BY DEF IsEnding, IsFlowGraph
<1>2. h.node = c.node /\ h.edge = {<<e[2], e[1]>> : e \in c.edge}
  BY DEF Transposed, IsEnding, IsFlowGraph
<1> HIDE DEF h
<1>3. E = ReachedFrom(h, {c.exit}, c.node)
  BY DEF Ends, h
<1>4. /\ {c.exit} \cap c.node \subseteq E /\ E \subseteq c.node /\ GoesOn(h, E, c.node)
      /\ \A X : {c.exit} \cap c.node \subseteq X /\ GoesOn(h, X, c.node) => E \subseteq X
  <2>1. IsFiniteSet(h.node) /\ c.node \in SUBSET h.node
    BY <1>1, <1>2
  <2> HIDE DEF E
  <2> QED  BY <1>3, <2>1, ReachedFromFacts
<1> HIDE DEF E
<1>5. ASSUME NEW e \in c.edge, e[2] \in E PROVE e[1] \in E
  <2> DEFINE d == <<e[2], e[1]>>
  <2>1. d \in h.edge /\ d[1] = e[2] /\ d[2] = e[1] /\ e[1] \in c.node
    BY <1>1, <1>2
  <2> HIDE DEF d
  <2> QED  BY <1>4, <1>5, <2>1 DEF GoesOn
<1>6. ASSUME NEW X, c.exit \in X, \A e \in c.edge : e[2] \in X => e[1] \in X
      PROVE  E \subseteq X
  <2>1. ASSUME NEW d \in h.edge, d[1] \in X PROVE d[2] \in X
    <3>1. PICK e \in c.edge : d = <<e[2], e[1]>>
      BY <1>2
    <3> QED  BY <1>6, <2>1, <3>1
  <2>2. GoesOn(h, X, c.node)
    BY <2>1 DEF GoesOn
  <2> QED  BY <1>4, <1>6, <2>2
<1>7. ASSUME NEW n \in c.node PROVE n \in E <=> c.exit \in ReachedFrom(c, {n}, c.node)
  <2> DEFINE N == c.node
  <2>1. IsFiniteSet(h.node) /\ N \in SUBSET h.node /\ IsFiniteSet(c.node) /\ N \in SUBSET c.node
    BY <1>1, <1>2
  <2>2. \A e \in c.edge : <<e[2], e[1]>> \in h.edge
    BY <1>2
  <2>3. \A d \in h.edge : <<d[2], d[1]>> \in c.edge
    <3>1. ASSUME NEW d \in h.edge PROVE <<d[2], d[1]>> \in c.edge
      <4>1. PICK e \in c.edge : d = <<e[2], e[1]>>
        BY <1>2
      <4>2. e = <<e[1], e[2]>>
        BY <1>1
      <4> QED  BY <4>1, <4>2
    <3> QED  BY <3>1
  <2> HIDE DEF N
  <2>4. n \in ReachedFrom(h, {c.exit}, N) => c.exit \in ReachedFrom(c, {n}, N)
    BY <2>1, <2>3, ReversedReached
  <2>5. c.exit \in ReachedFrom(c, {n}, N) => n \in ReachedFrom(h, {c.exit}, N)
    BY <2>1, <2>2, ReversedReached
  <2> QED  BY <1>3, <2>4, <2>5 DEF N
<1>8. IsFiniteSet(E)
  BY <1>1, <1>4, FS_Subset
<1> QED  BY <1>1, <1>4, <1>5, <1>6, <1>7, <1>8 DEF E

Backwards(c) ==
    [node  |-> Ends(c),
     edge  |-> {<<e[2], e[1]>> : e \in {d \in c.edge : d[1] \in Ends(c) /\ d[2] \in Ends(c)}},
     entry |-> c.exit]

LEMMA BackwardsFacts ==
    ASSUME NEW c, IsEnding(c)
    PROVE  /\ Backwards(c).node = Ends(c) /\ Backwards(c).entry = c.exit
           /\ \A e \in c.edge : e[2] \in Ends(c) => <<e[2], e[1]>> \in Backwards(c).edge
           /\ \A d \in Backwards(c).edge : <<d[2], d[1]>> \in c.edge
           /\ Backwards(c).edge \subseteq Ends(c) \X Ends(c)
<1> DEFINE E == Ends(c)
           B == {<<e[2], e[1]>> : e \in {d \in c.edge : d[1] \in E /\ d[2] \in E}}
<1>1. Backwards(c).node = E /\ Backwards(c).entry = c.exit /\ Backwards(c).edge = B
  BY DEF Backwards
<1>2. c.edge \subseteq c.node \X c.node
  BY DEF IsEnding, IsFlowGraph
<1>3. \A e \in c.edge : e[2] \in E => <<e[2], e[1]>> \in B
  BY EndsFacts
<1> HIDE DEF E
<1>4. ASSUME NEW d \in B PROVE <<d[2], d[1]>> \in c.edge /\ d \in E \X E
  <2>1. PICK e \in c.edge : d = <<e[2], e[1]>> /\ e[1] \in E /\ e[2] \in E
    OBVIOUS
  <2>2. e = <<e[1], e[2]>>
    BY <1>2
  <2> QED  BY <2>1, <2>2
<1> HIDE DEF B
<1> QED  BY <1>1, <1>3, <1>4 DEF E

LEMMA BackwardsIsReached ==
    ASSUME NEW c, IsEnding(c)
    PROVE  IsReached(Backwards(c))
<1> DEFINE g == Backwards(c)
           E == Ends(c)
           R == ReachableNodes(g)
<1>1. /\ g.node = E /\ g.entry = c.exit /\ g.edge \subseteq E \X E
      /\ \A e \in c.edge : e[2] \in E => <<e[2], e[1]>> \in g.edge
  BY BackwardsFacts
<1>2. c.exit \in E /\ IsFiniteSet(E)
  BY EndsFacts
<1> HIDE DEF g
<1>3. IsRooted(g)
  BY <1>1, <1>2 DEF IsRooted
<1>4. g.entry \in R /\ R \subseteq g.node /\ \A d \in g.edge : d[1] \in R => d[2] \in R
  BY <1>3, ReachableFacts
<1> HIDE DEF R
<1>5. ASSUME NEW e \in c.edge, e[2] \in R PROVE e[1] \in R
  <2> DEFINE d == <<e[2], e[1]>>
  <2>1. d \in g.edge /\ d[1] = e[2] /\ d[2] = e[1]
    BY <1>1, <1>4, <1>5
  <2> HIDE DEF d
  <2> QED  BY <1>4, <1>5, <2>1
<1>6. E \subseteq R
  BY <1>1, <1>4, <1>5, EndsFacts
<1> QED  BY <1>1, <1>3, <1>4, <1>6 DEF IsReached, R, g

LEMMA PostDominanceIsDominance ==
    ASSUME NEW c, IsEnding(c), NEW a \in Ends(c), NEW b \in Ends(c)
    PROVE  PostDominates(c, a, b) <=> Dominates(Backwards(c), a, b)
<1> DEFINE g == Backwards(c)
           E == Ends(c)
           T == E \ {a}
           U == c.node \ {a}
           X == ReachedFrom(g, {c.exit}, T)
           Y == ReachedFrom(c, {b}, U)
<1>1. /\ g.node = E /\ g.entry = c.exit
      /\ \A e \in c.edge : e[2] \in E => <<e[2], e[1]>> \in g.edge
      /\ \A d \in g.edge : <<d[2], d[1]>> \in c.edge
  BY BackwardsFacts
<1>2. /\ c.exit \in E /\ IsFiniteSet(E) /\ E \subseteq c.node
      /\ \A e \in c.edge : e[2] \in E => e[1] \in E
  BY EndsFacts
<1>3. IsFiniteSet(c.node) /\ IsFiniteSet(g.node)
  BY <1>1, <1>2 DEF IsEnding, IsFlowGraph
<1>4. (Dominates(g, a, b) <=> b \notin X) /\ (PostDominates(c, a, b) <=> c.exit \notin Y)
  BY <1>1 DEF Dominates, PostDominates
<1> HIDE DEF g
<1>5. ASSUME b \in X PROVE c.exit \in Y
  <2>1. T \in SUBSET g.node /\ U \in SUBSET c.node /\ T \subseteq U
    BY <1>1, <1>2
  <2>2. \A d \in g.edge : d[1] \in T /\ d[2] \in T => <<d[2], d[1]>> \in c.edge
    BY <1>1
  <2> HIDE DEF T, U
  <2> QED  BY <1>3, <1>5, <2>1, <2>2, ReversedReached
<1>6. ASSUME c.exit \in Y, b \notin X PROVE FALSE
  <2> DEFINE N == U \ X
  <2>1. {c.exit} \cap T \subseteq X /\ GoesOn(g, X, T)
    <3>1. T \in SUBSET g.node
      BY <1>1
    <3> HIDE DEF T
    <3> QED  BY <1>3, <3>1, ReachedFromFacts
  <2>2. \A Z : {b} \cap U \subseteq Z /\ GoesOn(c, Z, U) => Y \subseteq Z
    <3>1. U \in SUBSET c.node
      OBVIOUS
    <3> HIDE DEF U
    <3> QED  BY <1>3, <3>1, ReachedFromFacts
  <2> HIDE DEF X, Y
  <2>3. ASSUME NEW e \in c.edge, e[1] \in N, e[2] \in U PROVE e[2] \in N
    <3>1. SUFFICES ASSUME e[2] \in X, e[2] \in T PROVE FALSE
      <4>1. X \subseteq T
        <5>1. T \in SUBSET g.node
          BY <1>1
        <5> HIDE DEF T
        <5> QED  BY <1>3, <5>1, ReachedFromFacts DEF X
      <4> QED  BY <2>3, <3>1, <4>1
    <3> DEFINE d == <<e[2], e[1]>>
    <3>2. d \in g.edge /\ d[1] = e[2] /\ d[2] = e[1] /\ e[1] \in T
      BY <1>1, <1>2, <2>3, <3>1
    <3> HIDE DEF d
    <3>3. e[1] \in X
      BY <2>1, <3>1, <3>2 DEF GoesOn
    <3> QED  BY <2>3, <3>3
  <2>4. GoesOn(c, N, U)
    BY <2>3 DEF GoesOn
  <2>5. Y \subseteq N
    BY <1>6, <2>2, <2>4
  <2>6. c.exit \in T
    BY <1>2, <1>6, <2>5
  <2> QED  BY <1>6, <2>1, <2>5, <2>6
<1> QED  BY <1>4, <1>5, <1>6 DEF g

-----------------------------------------------------------------------------
(* The post-dominator tree.                                                *)

TreeOf(c) ==
    [node   |-> {c.exit} \cup DOMAIN ImmediatePostDominators(c),
     root   |-> c.exit,
     parent |-> ImmediatePostDominators(c)]

\* Each node but the exit goes to its nearest post-dominator.
LEMMA ParentsAreNearest ==
    ASSUME NEW c, IsEnding(c)
    PROVE  /\ TreeOf(c).node = Ends(c) /\ TreeOf(c).root = c.exit
           /\ DOMAIN TreeOf(c).parent = Ends(c) \ {c.exit}
           /\ TreeOf(c).parent = ImmediatePostDominators(c)
           /\ \A n \in Ends(c) \ {c.exit} :
                IsNearestDominator(Backwards(c), n, TreeOf(c).parent[n])
<1> DEFINE E     == Ends(c)
           g     == Backwards(c)
           up    == ImmediatePostDominators(c)
           above == {p \in E \X E : p[1] # p[2] /\ PostDominates(c, p[1], p[2])}
           Best(n, a) == /\ <<a, n>> \in above
                         /\ \A d \in E \ {a} : <<d, n>> \in above => <<d, a>> \in above
<1>1. up = [n \in E \ {c.exit} |-> CHOOSE a \in E : Best(n, a)]
  BY DEF ImmediatePostDominators, Ends
<1>2. c.exit \in E /\ g.node = E /\ g.entry = c.exit /\ IsReached(g)
  BY EndsFacts, BackwardsFacts, BackwardsIsReached
<1>3. \A a, b \in E : <<a, b>> \in above <=> a # b /\ Dominates(g, a, b)
  <2>1. \A a, b \in E : PostDominates(c, a, b) <=> Dominates(g, a, b)
    BY PostDominanceIsDominance
  <2> HIDE DEF E, g
  <2> QED  BY <2>1
<1> HIDE DEF E, g, up, above
<1>4. ASSUME NEW n \in E \ {c.exit} PROVE IsNearestDominator(g, n, up[n])
  <2>1. ASSUME NEW a \in E PROVE Best(n, a) <=> IsNearestDominator(g, n, a)
    <3>1. <<a, n>> \in above <=> a # n /\ Dominates(g, a, n)
      BY <1>3
    <3>2. \A d \in E \ {a} : (<<d, n>> \in above => <<d, a>> \in above)
                              <=> (d # n /\ Dominates(g, d, n) => Dominates(g, d, a))
      BY <1>3
    <3> QED  BY <1>2, <3>1, <3>2 DEF IsNearestDominator
  <2>2. \E a \in E : Best(n, a)
    BY <1>2, <2>1, NearestDominatorExists
  <2>3. up[n] = CHOOSE a \in E : Best(n, a)
    BY <1>1
  <2>4. up[n] \in E /\ Best(n, up[n])
    <3> HIDE DEF Best
    <3> QED  BY <2>2, <2>3
  <2> QED  BY <2>1, <2>4
<1>5. TreeOf(c).parent = up /\ TreeOf(c).root = c.exit /\ TreeOf(c).node = {c.exit} \cup DOMAIN up
  BY DEF TreeOf, up
<1>6. DOMAIN up = E \ {c.exit}
  BY <1>1
<1> QED  BY <1>2, <1>4, <1>5, <1>6 DEF E, g, up

LEMMA TreeOfIsTree ==
    ASSUME NEW c, IsControlFlow(c), c.exit \in c.node
    PROVE  IsEnding(c) /\ IsTree(TreeOf(c))
<1> DEFINE t == TreeOf(c)
           E == Ends(c)
           g == Backwards(c)
<1>1. IsEnding(c) /\ c.node \subseteq Int /\ (0 \in c.node => c.exit = 0)
  BY DEF IsControlFlow, IsEnding, IsFlowGraph
<1>2. /\ t.node = E /\ t.root = c.exit /\ DOMAIN t.parent = E \ {c.exit}
      /\ t.parent = ImmediatePostDominators(c)
      /\ \A n \in E \ {c.exit} : IsNearestDominator(g, n, t.parent[n])
  BY <1>1, ParentsAreNearest
<1>3. c.exit \in E /\ E \subseteq c.node /\ IsFiniteSet(E)
  BY <1>1, EndsFacts
<1>4. g.node = E /\ IsReached(g)
  BY <1>1, BackwardsFacts, BackwardsIsReached
<1>5. t.parent \in [E \ {c.exit} -> E]
  <2>1. \A n \in E \ {c.exit} : t.parent[n] \in E
    BY <1>2, <1>4 DEF IsNearestDominator
  <2>2. t.parent = [n \in DOMAIN t.parent |-> t.parent[n]]
    BY <1>2 DEF ImmediatePostDominators
  <2> HIDE DEF t, E
  <2> QED  BY <1>2, <2>1, <2>2
<1> HIDE DEF t, E, g
<1>6. ASSUME NEW S \in SUBSET (E \ {c.exit}), S # {}
      PROVE  \E n \in S : t.parent[n] \notin S
  <2> DEFINE value == [n \in S |-> Cardinality(Dominators(g, n))]
  <2>1. \A n \in S : value[n] \in Nat
    <3>1. ASSUME NEW n \in S PROVE value[n] \in Nat
      <4>1. IsFiniteSet(Dominators(g, n))
        BY <1>3, <1>4, FS_Subset DEF Dominators
      <4> QED  BY <4>1, FS_CardinalityType
    <3> QED  BY <3>1
  <2>2. value \in [S -> Nat]
    BY <2>1
  <2>3. PICK n \in S : \A m \in S : value[n] <= value[m]
    <3> HIDE DEF value
    <3> QED  BY <1>6, <2>2, LeastByValue
  <2>4. t.parent[n] \in g.node /\ t.parent[n] # n /\ Dominates(g, t.parent[n], n)
    BY <1>2 DEF IsNearestDominator
  <2>5. Cardinality(Dominators(g, t.parent[n])) < Cardinality(Dominators(g, n))
    BY <1>4, <2>4, FewerDominators
  <2>6. ASSUME t.parent[n] \in S PROVE FALSE
    <3>1. value[t.parent[n]] < value[n] /\ value[n] <= value[t.parent[n]]
      BY <2>3, <2>5, <2>6
    <3>2. value[n] \in Nat /\ value[t.parent[n]] \in Nat
      BY <2>1, <2>6
    <3> HIDE DEF value
    <3> QED  BY <3>1, <3>2
  <2> QED  BY <2>6
<1>7. IsTree(t)
  BY <1>1, <1>2, <1>3, <1>5, <1>6 DEF IsTree
<1> QED  BY <1>1, <1>7 DEF t

\* The way up the tree is the post-dominators.
LEMMA WayUpIsPostDominance ==
    ASSUME NEW c, IsControlFlow(c), c.exit \in c.node, NEW a \in Ends(c), NEW b \in Ends(c)
    PROVE  a \in PathUp(TreeOf(c), b) <=> PostDominates(c, a, b)
<1> DEFINE t == TreeOf(c)
           E == Ends(c)
           g == Backwards(c)
<1>1. IsTree(t) /\ IsEnding(c)
  BY TreeOfIsTree
<1>2. /\ t.node = E /\ t.root = c.exit
      /\ \A n \in E \ {c.exit} : IsNearestDominator(g, n, t.parent[n])
  BY <1>1, ParentsAreNearest
<1>3. /\ g.node = E /\ g.entry = c.exit /\ IsReached(g) /\ IsRooted(g)
  BY <1>1, BackwardsFacts, BackwardsIsReached DEF IsReached
<1>4. PostDominates(c, a, b) <=> Dominates(g, a, b)
  BY <1>1, PostDominanceIsDominance
<1> HIDE DEF t, g, E
<1>5. PathUp(t, b) \subseteq {x \in E : Dominates(g, x, b)}
  <2> DEFINE X == {x \in E : Dominates(g, x, b)}
  <2>1. b \in X
    BY <1>3, DominatesSelf DEF E
  <2>2. ASSUME NEW x \in X, x # c.exit PROVE t.parent[x] \in X
    <3>1. t.parent[x] \in E /\ Dominates(g, t.parent[x], x)
      BY <1>2, <1>3, <2>2 DEF IsNearestDominator
    <3>2. Dominates(g, t.parent[x], b)
      BY <1>3, <2>2, <3>1, DominanceTransitive
    <3> QED  BY <3>1, <3>2
  <2>3. GoesUp(t, X)
    BY <1>2, <2>2 DEF GoesUp
  <2>4. b \in t.node
    BY <1>2 DEF E
  <2> HIDE DEF X
  <2>5. PathUp(t, b) \subseteq X
    BY <1>1, <2>1, <2>3, <2>4, PathUpFacts
  <2> QED  BY <2>5 DEF X
<1>6. ASSUME NEW x \in E PROVE \A y \in E : Dominates(g, x, y) => x \in PathUp(t, y)
  <2> DEFINE X == {y \in E : Dominates(g, x, y) => x \in PathUp(t, y)}
  <2>1. t.root \in X
    <3>1. c.exit \in E
      BY <1>1, EndsFacts DEF E
    <3>2. ASSUME Dominates(g, x, c.exit) PROVE x = c.exit
      <4>1. Dominates(g, c.exit, x)
        BY <1>3, EntryDominates
      <4> QED  BY <1>3, <3>1, <3>2, <4>1, DominanceAntisymmetric DEF IsReached
    <3> QED  BY <1>1, <1>2, <3>1, <3>2, PathUpFacts
  <2>2. ASSUME NEW n \in t.node \ {t.root}, t.parent[n] \in X PROVE n \in X
    <3>1. SUFFICES ASSUME Dominates(g, x, n) PROVE x \in PathUp(t, n)
      BY <1>2
    <3>2. CASE x = n
      BY <1>1, <1>2, <3>2, PathUpFacts
    <3>3. CASE x # n
      <4>1. x = t.parent[n] \/ Dominates(g, x, t.parent[n])
        BY <1>2, <1>3, <3>1, <3>3 DEF IsNearestDominator
      <4>2. t.parent[n] \in t.node
        BY <1>1, TreeType
      <4>3. x \in PathUp(t, t.parent[n])
        BY <1>1, <2>2, <4>1, <4>2, PathUpFacts
      <4> QED  BY <1>1, <4>3, PathUpStep
    <3> QED  BY <3>2, <3>3
  <2>3. t.node \subseteq X
    <3>1. \A n \in t.node \ {t.root} : t.parent[n] \in X => n \in X
      BY <2>2
    <3> HIDE DEF X
    <3> QED  BY <1>1, <2>1, <3>1, TreeInduction
  <2> QED  BY <1>2, <2>3
<1>7. a \in PathUp(t, b) <=> Dominates(g, a, b)
  BY <1>5, <1>6 DEF E
<1> QED  BY <1>4, <1>7 DEF t

-----------------------------------------------------------------------------
(* The numbers of the tree: N is num, L is las and P the calls in progress.*)

LEMMA FrontFacts ==
    ASSUME NEW T, NEW s \in Seq(T), s # << >>
    PROVE  /\ Front(s) \in Seq(T) /\ Len(Front(s)) = Len(s) - 1
           /\ Len(s) \in Nat /\ Len(s) > 0 /\ Last(s) = s[Len(s)] /\ Last(s) \in T
           /\ \A i \in 1 .. Len(s) - 1 : Front(s)[i] = s[i]
<1>1. Len(s) \in Nat /\ Len(s) > 0
  OBVIOUS
<1>2. Front(s) = SubSeq(s, 1, Len(s) - 1) /\ Last(s) = s[Len(s)]
  BY DEF Front, Last
<1>3. Last(s) \in T
  <2>1. Len(s) \in 1 .. Len(s)
    BY <1>1
  <2> QED  BY <1>2, <2>1
<1> DEFINE k == Len(s) - 1
           f == SubSeq(s, 1, k)
<1>4. k \in Nat /\ k <= Len(s)
  BY <1>1
<1> HIDE DEF k
<1>5. f \in Seq(T) /\ Len(f) = k /\ \A i \in 1 .. k : f[i] = s[i]
  BY <1>4
<1> HIDE DEF f
<1> QED  BY <1>1, <1>2, <1>3, <1>5 DEF f, k

\* The nodes numbered so far, with all that is above them.
NumbersFit(t, N) ==
    /\ t.root \in DOMAIN N /\ DOMAIN N \subseteq t.node
    /\ \A a \in DOMAIN N : N[a] \in Nat /\ N[a] < Cardinality(DOMAIN N)
    /\ \A n \in DOMAIN N : n # t.root => t.parent[n] \in DOMAIN N

\* The calls go down the tree from the root; other nodes have been left.
PathFits(t, N, L, P) ==
    /\ P \in Seq(t.node)
    /\ DOMAIN N = DOMAIN L \cup {P[i] : i \in 1 .. Len(P)}
    /\ \A i \in 1 .. Len(P) : P[i] \notin DOMAIN L
    /\ \A i, j \in 1 .. Len(P) : P[i] = P[j] => i = j
    /\ Len(P) > 0 => P[1] = t.root
    /\ \A i \in 1 .. Len(P) - 1 : P[i + 1] # t.root /\ t.parent[P[i + 1]] = P[i]

\* The numbers of a node that was left are those of the nodes below it, all numbered.
LeftFits(t, N, L) ==
    /\ \A a \in DOMAIN L : L[a] \in Int /\ L[a] < Cardinality(DOMAIN N)
    /\ \A m \in t.node : m # t.root /\ t.parent[m] \in DOMAIN L => m \in DOMAIN N
    /\ \A a \in DOMAIN L : \A b \in DOMAIN N :
           N[a] <= N[b] /\ N[b] <= L[a] <=> a \in PathUp(t, b)

\* The numbers from that of an open call on are those of the nodes below it.
OpenFits(t, N, P) ==
    \A i \in 1 .. Len(P) : \A b \in DOMAIN N : N[P[i]] <= N[b] <=> P[i] \in PathUp(t, b)

IsNumbering(t, N, L, P) ==
    /\ NumbersFit(t, N) /\ PathFits(t, N, L, P)
    /\ LeftFits(t, N, L) /\ OpenFits(t, N, P)

LEMMA NumberedAbove ==
    ASSUME NEW t, IsTree(t), NEW N, NumbersFit(t, N), NEW b \in DOMAIN N
    PROVE  PathUp(t, b) \subseteq DOMAIN N
<1>1. b \in t.node /\ GoesUp(t, DOMAIN N)
  BY DEF NumbersFit, GoesUp
<1> QED  BY <1>1, PathUpFacts

\* What is above a call in progress are the calls before it.
LEMMA PathGoesDown ==
    ASSUME NEW t, IsTree(t), NEW N, NEW L, NEW P, PathFits(t, N, L, P), NEW i \in 1 .. Len(P)
    PROVE  PathUp(t, P[i]) = {P[j] : j \in 1 .. i}
<1>0. Len(P) \in Nat /\ \A j \in 1 .. Len(P) : P[j] \in t.node
  BY DEF PathFits
<1> DEFINE Is(k) == {P[j] : j \in 1 .. k} = PathUp(t, P[k])
           M     == {n \in Nat : n + 1 <= Len(P) => Is(n + 1)}
<1>1. 0 \in M
  <2>1. ASSUME 1 <= Len(P) PROVE Is(1)
    <3>1. P[1] = t.root /\ 1 .. 1 = {1}
      BY <1>0, <2>1 DEF PathFits
    <3>2. {P[j] : j \in 1 .. 1} = {P[1]}
      BY <3>1
    <3> QED  BY <3>1, <3>2, PathUpRoot
  <2> QED  BY <2>1
<1>2. ASSUME NEW n \in M PROVE n + 1 \in M
  <2>1. SUFFICES ASSUME (n + 1) + 1 <= Len(P) PROVE Is((n + 1) + 1)
    OBVIOUS
  <2> DEFINE last == P[n + 1]
             next == P[(n + 1) + 1]
  <2>2. n + 1 \in 1 .. Len(P) - 1 /\ (n + 1) + 1 \in 1 .. Len(P)
    BY <1>0, <2>1
  <2>3. next \in t.node \ {t.root} /\ t.parent[next] = last
    BY <1>0, <2>2 DEF PathFits
  <2>4. PathUp(t, next) = {next} \cup PathUp(t, last)
    BY <2>3, PathUpStep
  <2>5. Is(n + 1)
    BY <2>2
  <2>6. {P[j] : j \in 1 .. (n + 1) + 1} = {next} \cup {P[j] : j \in 1 .. n + 1}
    <3>1. 1 .. (n + 1) + 1 = (1 .. n + 1) \cup {(n + 1) + 1}
      BY <2>2
    <3> QED  BY <3>1
  <2> QED  BY <2>4, <2>5, <2>6
<1>3. M = Nat
  <2>1. M \in SUBSET Nat
    OBVIOUS
  <2> HIDE DEF M
  <2> QED  BY <1>1, <1>2, <2>1, NaturalsByInduction
<1>4. i - 1 \in M /\ (i - 1) + 1 = i /\ i <= Len(P)
  <2>1. i - 1 \in Nat /\ (i - 1) + 1 = i /\ i <= Len(P)
    BY <1>0
  <2> HIDE DEF M
  <2> QED  BY <1>3, <2>1
<1>5. Is(i)
  <2> HIDE DEF Is
  <2> QED  BY <1>4
<1> QED  BY <1>5

\* The numbering begins at the root.
LEMMA NumberingBegins ==
    ASSUME NEW t, IsTree(t), NEW N, N = [n \in {t.root} |-> 0], NEW L, L = << >>,
           NEW P, P = <<t.root>>
    PROVE  IsNumbering(t, N, L, P)
<1>1. DOMAIN N = {t.root} /\ N[t.root] = 0 /\ DOMAIN L = {} /\ t.root \in t.node
  BY TreeType
<1>2. P \in Seq(t.node) /\ Len(P) = 1 /\ P[1] = t.root
  BY <1>1, OneElement
<1>3. 1 .. Len(P) = {1} /\ 1 .. Len(P) - 1 = {}
  BY <1>2
<1>4. Cardinality(DOMAIN N) = 1
  BY <1>1, FS_Singleton
<1>5. NumbersFit(t, N)
  BY <1>1, <1>4 DEF NumbersFit
<1>6. PathFits(t, N, L, P)
  BY <1>1, <1>2, <1>3 DEF PathFits
<1>7. LeftFits(t, N, L)
  BY <1>1 DEF LeftFits
<1>8. OpenFits(t, N, P)
  BY <1>1, <1>2, <1>3, PathUpRoot DEF OpenFits
<1> QED  BY <1>5, <1>6, <1>7, <1>8 DEF IsNumbering

\* A call for a child c of the last call.
LEMMA ChildNumbered ==
    ASSUME NEW t, IsTree(t), NEW N, NEW L, NEW P, IsNumbering(t, N, L, P), P # << >>,
           NEW c \in t.node \ {t.root}, t.parent[c] = Last(P), c \notin DOMAIN N
    PROVE  IsNumbering(t, With(N, c, Cardinality(DOMAIN N)), L, Append(P, c))
<1> DEFINE k  == Cardinality(DOMAIN N)
           N2 == With(N, c, k)
           P2 == Append(P, c)
           p  == Last(P)
<1>0. NumbersFit(t, N) /\ PathFits(t, N, L, P) /\ LeftFits(t, N, L) /\ OpenFits(t, N, P)
  BY DEF IsNumbering
<1>1. IsFiniteSet(DOMAIN N) /\ k \in Nat
  BY <1>0, TreeType, FS_Subset, FS_CardinalityType DEF NumbersFit
<1>2. /\ DOMAIN N2 = DOMAIN N \cup {c} /\ N2[c] = k
      /\ \A n \in DOMAIN N : N2[n] = N[n]
  <2> HIDE DEF k
  <2>1. DOMAIN N2 = DOMAIN N \cup {c} /\ N2[c] = k /\ \A n \in DOMAIN N : n # c => N2[n] = N[n]
    BY DEF With
  <2> HIDE DEF N2
  <2> QED  BY <2>1
<1>3. Cardinality(DOMAIN N2) = k + 1
  BY <1>1, <1>2, FS_AddElement
<1> HIDE DEF k, N2
<1>4. /\ P \in Seq(t.node) /\ Len(P) \in Nat /\ Len(P) > 0 /\ p = P[Len(P)] /\ Len(P) \in 1 .. Len(P)
      /\ \A i \in 1 .. Len(P) : P[i] \in DOMAIN N
  <2>1. P \in Seq(t.node)
    BY <1>0 DEF PathFits
  <2>2. Len(P) \in Nat /\ Len(P) > 0 /\ p = P[Len(P)]
    BY <2>1, FrontFacts
  <2> QED  BY <1>0, <2>1, <2>2 DEF PathFits
<1>5. /\ P2 \in Seq(t.node) /\ Len(P2) = Len(P) + 1 /\ P2[Len(P) + 1] = c
      /\ \A i \in 1 .. Len(P) : P2[i] = P[i]
  <2> DEFINE T == t.node
  <2>1. P \in Seq(T) /\ c \in T
    BY <1>4
  <2> HIDE DEF T
  <2>2. /\ P2 \in Seq(T) /\ Len(P2) = Len(P) + 1 /\ P2[Len(P2)] = c
        /\ \A i \in 1 .. Len(P) : P2[i] = P[i]
    BY <2>1, AppendFacts
  <2> QED  BY <2>2 DEF T
<1> HIDE DEF P2
<1>6. \A i \in 1 .. Len(P2) : i \in 1 .. Len(P) \/ i = Len(P) + 1
  BY <1>4, <1>5
<1>7. NumbersFit(t, N2)
  <2>1. \A a \in DOMAIN N2 : N2[a] \in Nat /\ N2[a] < k + 1
    <3>1. ASSUME NEW a \in DOMAIN N PROVE N2[a] \in Nat /\ N2[a] < k + 1
      <4>1. N[a] \in Nat /\ N[a] < k
        BY <1>0 DEF NumbersFit, k
      <4> QED  BY <1>1, <1>2, <4>1
    <3>2. N2[c] \in Nat /\ N2[c] < k + 1
      BY <1>1, <1>2
    <3> QED  BY <1>2, <3>1, <3>2
  <2>2. \A n \in DOMAIN N2 : n # t.root => t.parent[n] \in DOMAIN N2
    BY <1>0, <1>2, <1>4 DEF NumbersFit
  <2>3. t.root \in DOMAIN N2 /\ DOMAIN N2 \subseteq t.node
    BY <1>0, <1>2 DEF NumbersFit
  <2> QED  BY <1>3, <2>1, <2>2, <2>3 DEF NumbersFit
<1>8. PathFits(t, N2, L, P2)
  <2>0. /\ DOMAIN N = DOMAIN L \cup {P[i] : i \in 1 .. Len(P)}
        /\ \A i \in 1 .. Len(P) : P[i] \notin DOMAIN L
        /\ \A i, j \in 1 .. Len(P) : P[i] = P[j] => i = j
        /\ P[1] = t.root
        /\ \A i \in 1 .. Len(P) - 1 : P[i + 1] # t.root /\ t.parent[P[i + 1]] = P[i]
    BY <1>0, <1>4 DEF PathFits
  <2>1. DOMAIN N2 = DOMAIN L \cup {P2[i] : i \in 1 .. Len(P2)}
    <3>1. {P2[i] : i \in 1 .. Len(P2)} = {P[i] : i \in 1 .. Len(P)} \cup {c}
      <4>1. ASSUME NEW i \in 1 .. Len(P2) PROVE P2[i] \in {P[j] : j \in 1 .. Len(P)} \cup {c}
        BY <1>5, <1>6
      <4>2. ASSUME NEW i \in 1 .. Len(P) PROVE P[i] \in {P2[j] : j \in 1 .. Len(P2)}
        <5>1. i \in 1 .. Len(P2)
          BY <1>4, <1>5
        <5> QED  BY <1>5, <5>1
      <4>3. c \in {P2[i] : i \in 1 .. Len(P2)}
        <5>1. Len(P) + 1 \in 1 .. Len(P2)
          BY <1>4, <1>5
        <5> QED  BY <1>5, <5>1
      <4> QED  BY <4>1, <4>2, <4>3
    <3> QED  BY <1>2, <2>0, <3>1
  <2>2. \A i \in 1 .. Len(P2) : P2[i] \notin DOMAIN L
    BY <1>5, <1>6, <2>0
  <2>3. \A i, j \in 1 .. Len(P2) : P2[i] = P2[j] => i = j
    BY <1>4, <1>5, <1>6, <2>0
  <2>4. P2[1] = t.root
    BY <1>4, <1>5, <2>0
  <2>5. ASSUME NEW i \in 1 .. Len(P2) - 1
        PROVE  P2[i + 1] # t.root /\ t.parent[P2[i + 1]] = P2[i]
    <3>1. i \in 1 .. Len(P)
      BY <1>4, <1>5
    <3>2. CASE i = Len(P)
      BY <1>4, <1>5, <3>1, <3>2
    <3>3. CASE i # Len(P)
      <4>1. i \in 1 .. Len(P) - 1 /\ i + 1 \in 1 .. Len(P)
        BY <1>4, <3>1, <3>3
      <4> QED  BY <1>5, <2>0, <3>1, <4>1
    <3> QED  BY <3>2, <3>3
  <2> QED  BY <1>5, <2>1, <2>2, <2>3, <2>4, <2>5 DEF PathFits
<1>9. PathUp(t, c) = {c} \cup {P[j] : j \in 1 .. Len(P)}
  <2>1. PathUp(t, p) = {P[j] : j \in 1 .. Len(P)}
    <3> DEFINE i == Len(P)
    <3>1. i \in 1 .. Len(P) /\ p = P[i]
      BY <1>4
    <3> HIDE DEF p, i
    <3>2. PathUp(t, P[i]) = {P[j] : j \in 1 .. i}
      BY <1>0, <3>1, PathGoesDown
    <3> QED  BY <3>1, <3>2 DEF i
  <2> QED  BY <2>1, PathUpStep
<1>10. \A a \in DOMAIN L : a \in DOMAIN N /\ a # c /\ a \notin PathUp(t, c)
  BY <1>0, <1>9 DEF PathFits
<1>11. LeftFits(t, N2, L)
  <2>1. \A a \in DOMAIN L : L[a] \in Int /\ L[a] < k
    BY <1>0 DEF LeftFits, k
  <2>2. \A a \in DOMAIN L : L[a] \in Int /\ L[a] < k + 1
    BY <1>1, <2>1
  <2>3. \A m \in t.node : m # t.root /\ t.parent[m] \in DOMAIN L => m \in DOMAIN N2
    BY <1>0, <1>2 DEF LeftFits
  <2>4. ASSUME NEW a \in DOMAIN L, NEW b \in DOMAIN N2
        PROVE  N2[a] <= N2[b] /\ N2[b] <= L[a] <=> a \in PathUp(t, b)
    <3>1. CASE b = c
      <4>1. ~(k <= L[a])
        BY <1>1, <2>1
      <4> QED  BY <1>2, <1>10, <3>1, <4>1
    <3>2. CASE b # c
      BY <1>0, <1>2, <1>10, <3>2 DEF LeftFits
    <3> QED  BY <3>1, <3>2
  <2> QED  BY <1>3, <2>2, <2>3, <2>4 DEF LeftFits
<1>12. OpenFits(t, N2, P2)
  <2>1. ASSUME NEW i \in 1 .. Len(P), NEW b \in DOMAIN N2
        PROVE  N2[P[i]] <= N2[b] <=> P[i] \in PathUp(t, b)
    <3>1. CASE b = c
      <4>1. N[P[i]] \in Nat /\ N[P[i]] < k /\ N2[P[i]] = N[P[i]]
        BY <1>0, <1>2, <1>4 DEF NumbersFit, k
      <4> QED  BY <1>1, <1>2, <1>9, <3>1, <4>1
    <3>2. CASE b # c
      BY <1>0, <1>2, <1>4, <3>2 DEF OpenFits
    <3> QED  BY <3>1, <3>2
  <2>2. ASSUME NEW b \in DOMAIN N2 PROVE N2[c] <= N2[b] <=> c \in PathUp(t, b)
    <3>1. CASE b = c
      BY <1>1, <1>2, <1>9, <3>1
    <3>2. CASE b # c
      <4>1. b \in DOMAIN N /\ N2[b] = N[b] /\ N[b] \in Nat /\ N[b] < k
        BY <1>0, <1>2, <3>2 DEF NumbersFit, k
      <4>2. c \notin PathUp(t, b)
        BY <1>0, <4>1, NumberedAbove
      <4> QED  BY <1>1, <1>2, <4>1, <4>2
    <3> QED  BY <3>1, <3>2
  <2> QED  BY <1>5, <1>6, <2>1, <2>2 DEF OpenFits
<1> QED  BY <1>7, <1>8, <1>11, <1>12 DEF IsNumbering, N2, P2, k

\* The last call ends.
LEMMA NodeLeft ==
    ASSUME NEW t, IsTree(t), NEW N, NEW L, NEW P, IsNumbering(t, N, L, P), P # << >>,
           \A m \in t.node : m # t.root /\ t.parent[m] = Last(P) => m \in DOMAIN N
    PROVE  IsNumbering(t, N, With(L, Last(P), Cardinality(DOMAIN N) - 1), Front(P))
<1> DEFINE k  == Cardinality(DOMAIN N)
           p  == Last(P)
           L2 == With(L, p, k - 1)
           P2 == Front(P)
<1>0. NumbersFit(t, N) /\ PathFits(t, N, L, P) /\ LeftFits(t, N, L) /\ OpenFits(t, N, P)
  BY DEF IsNumbering
<1>1. IsFiniteSet(DOMAIN N) /\ k \in Nat
  BY <1>0, TreeType, FS_Subset, FS_CardinalityType DEF NumbersFit
<1>2. /\ P \in Seq(t.node) /\ Len(P) \in Nat /\ Len(P) > 0 /\ p = P[Len(P)] /\ Len(P) \in 1 .. Len(P)
      /\ P2 \in Seq(t.node) /\ Len(P2) = Len(P) - 1 /\ \A i \in 1 .. Len(P) - 1 : P2[i] = P[i]
  <2> DEFINE T == t.node
  <2>1. P \in Seq(T)
    BY <1>0 DEF PathFits
  <2> HIDE DEF T
  <2>2. /\ P \in Seq(T) /\ Len(P) \in Nat /\ Len(P) > 0 /\ p = P[Len(P)]
        /\ P2 \in Seq(T) /\ Len(P2) = Len(P) - 1 /\ \A i \in 1 .. Len(P) - 1 : P2[i] = P[i]
    BY <2>1, FrontFacts
  <2> QED  BY <2>2 DEF T
<1>3. p \notin DOMAIN L /\ p \in DOMAIN N
  BY <1>0, <1>2 DEF PathFits
<1>4. DOMAIN L2 = DOMAIN L \cup {p} /\ L2[p] = k - 1 /\ \A n \in DOMAIN L : L2[n] = L[n]
  <2> HIDE DEF k, p
  <2>1. DOMAIN L2 = DOMAIN L \cup {p} /\ L2[p] = k - 1 /\ \A n \in DOMAIN L : n # p => L2[n] = L[n]
    BY DEF With
  <2> HIDE DEF L2
  <2> QED  BY <1>3, <2>1
<1> HIDE DEF k, p, L2, P2
<1>5. 1 .. Len(P2) = 1 .. Len(P) - 1
  BY <1>2
<1>6. \A i \in 1 .. Len(P2) : i \in 1 .. Len(P) /\ P2[i] = P[i] /\ P[i] # p
  <2>0. \A i, j \in 1 .. Len(P) : P[i] = P[j] => i = j
    BY <1>0 DEF PathFits
  <2>1. \A i \in 1 .. Len(P2) : i \in 1 .. Len(P) /\ P2[i] = P[i] /\ i # Len(P)
    BY <1>2, <1>5
  <2> QED  BY <1>2, <2>0, <2>1
<1>7. PathFits(t, N, L2, P2)
  <2>0. /\ DOMAIN N = DOMAIN L \cup {P[i] : i \in 1 .. Len(P)}
        /\ \A i \in 1 .. Len(P) : P[i] \notin DOMAIN L
        /\ \A i, j \in 1 .. Len(P) : P[i] = P[j] => i = j
        /\ P[1] = t.root
        /\ \A i \in 1 .. Len(P) - 1 : P[i + 1] # t.root /\ t.parent[P[i + 1]] = P[i]
    BY <1>0, <1>2 DEF PathFits
  <2>1. DOMAIN N = DOMAIN L2 \cup {P2[i] : i \in 1 .. Len(P2)}
    <3>1. {P[i] : i \in 1 .. Len(P)} = {P2[i] : i \in 1 .. Len(P2)} \cup {p}
      <4>1. \A i \in 1 .. Len(P) : i \in 1 .. Len(P2) \/ i = Len(P)
        BY <1>2, <1>5
      <4> QED  BY <1>2, <1>6, <4>1
    <3> QED  BY <1>4, <2>0, <3>1
  <2>2. \A i \in 1 .. Len(P2) : P2[i] \notin DOMAIN L2
    BY <1>4, <1>6, <2>0
  <2>3. \A i, j \in 1 .. Len(P2) : P2[i] = P2[j] => i = j
    BY <1>6, <2>0
  <2>4. Len(P2) > 0 => P2[1] = t.root
    BY <1>2, <1>5, <1>6, <2>0
  <2>5. ASSUME NEW i \in 1 .. Len(P2) - 1
        PROVE  P2[i + 1] # t.root /\ t.parent[P2[i + 1]] = P2[i]
    <3>1. i \in 1 .. Len(P2) /\ i + 1 \in 1 .. Len(P2) /\ i \in 1 .. Len(P) - 1
      BY <1>2, <1>5
    <3> QED  BY <1>6, <2>0, <3>1
  <2> QED  BY <1>2, <2>1, <2>2, <2>3, <2>4, <2>5 DEF PathFits
<1>8. LeftFits(t, N, L2)
  <2>1. \A a \in DOMAIN L2 : L2[a] \in Int /\ L2[a] < k
    <3>1. \A a \in DOMAIN L : L[a] \in Int /\ L[a] < k
      BY <1>0 DEF LeftFits, k
    <3>2. k - 1 \in Int /\ k - 1 < k
      BY <1>1
    <3> QED  BY <1>4, <3>1, <3>2
  <2>2. \A m \in t.node : m # t.root /\ t.parent[m] \in DOMAIN L2 => m \in DOMAIN N
    BY <1>0, <1>4 DEF LeftFits, p
  <2>3. ASSUME NEW a \in DOMAIN L2, NEW b \in DOMAIN N
        PROVE  N[a] <= N[b] /\ N[b] <= L2[a] <=> a \in PathUp(t, b)
    <3>1. CASE a = p
      <4>1. N[b] \in Nat /\ N[b] < k
        BY <1>0 DEF NumbersFit, k
      <4>2. N[b] <= L2[a]
        BY <1>1, <1>4, <3>1, <4>1
      <4>3. N[p] <= N[b] <=> p \in PathUp(t, b)
        BY <1>0, <1>2 DEF OpenFits
      <4> QED  BY <3>1, <4>2, <4>3
    <3>2. CASE a # p
      BY <1>0, <1>4, <3>2 DEF LeftFits
    <3> QED  BY <3>1, <3>2
  <2> QED  BY <2>1, <2>2, <2>3 DEF LeftFits, k
<1>9. OpenFits(t, N, P2)
  BY <1>0, <1>6 DEF OpenFits
<1> QED  BY <1>0, <1>7, <1>8, <1>9 DEF IsNumbering, L2, P2, k, p

\* By its numbers, a is above b.
NumberedAs(t, N, L) ==
    /\ DOMAIN N = t.node
    /\ \A a, b \in t.node : N[a] <= N[b] /\ N[b] <= L[a] <=> a \in PathUp(t, b)

\* When all calls have ended, all nodes have numbers.
LEMMA NumberingEnds ==
    ASSUME NEW t, IsTree(t), NEW N, NEW L, IsNumbering(t, N, L, << >>)
    PROVE  NumberedAs(t, N, L)
<1>1. NumbersFit(t, N) /\ PathFits(t, N, L, << >>) /\ LeftFits(t, N, L)
  BY DEF IsNumbering
<1>2. 1 .. Len(<< >>) = {}
  OBVIOUS
<1>3. DOMAIN N = DOMAIN L
  BY <1>1, <1>2 DEF PathFits
<1>4. t.root \in DOMAIN N
  BY <1>1 DEF NumbersFit
<1>5. \A n \in t.node \ {t.root} : t.parent[n] \in DOMAIN N => n \in DOMAIN N
  BY <1>1, <1>3 DEF LeftFits
<1>6. t.node \subseteq DOMAIN N
  <2> DEFINE X == DOMAIN N
  <2>1. t.root \in X /\ \A n \in t.node \ {t.root} : t.parent[n] \in X => n \in X
    BY <1>4, <1>5
  <2> HIDE DEF X
  <2>2. t.node \subseteq X
    BY <2>1, TreeInduction
  <2> QED  BY <2>2 DEF X
<1>7. DOMAIN N = t.node
  BY <1>1, <1>6 DEF NumbersFit
<1>8. \A a, b \in t.node : N[a] <= N[b] /\ N[b] <= L[a] <=> a \in PathUp(t, b)
  BY <1>1, <1>3, <1>7 DEF LeftFits
<1> QED  BY <1>7, <1>8 DEF NumberedAs

-----------------------------------------------------------------------------
(* The inductive invariant.                                                *)

\* What an edge decides about, by the tree.
DependsOn(t, e) == {w \in PathUp(t, e[2]) : w = e[1] \/ w \notin PathUp(t, e[1])}

NothingNumbered == num = << >> /\ las = << >> /\ path = << >>

TreeBuilt == digraph.exit \in digraph.node /\ tree = TreeOf(digraph)

AllNumbered == NumberedAs(tree, num, las) /\ DOMAIN las \subseteq DOMAIN num /\ path = << >>

\* Each edge is left, asked about, or done; done are those that decide.
EdgesFit ==
    /\ edge \subseteq digraph.edge /\ left \subseteq digraph.edge /\ edge \cap left = {}
    /\ \A d, e \in edge : d = e
    /\ \A e \in digraph.edge \ left : e[1] \in tree.node /\ e[2] \in tree.node
    /\ DOMAIN ctrldep = {e \in digraph.edge \ (left \cup edge) : e[2] \notin PathUp(tree, e[1])}
    /\ \A e \in DOMAIN ctrldep : ctrldep[e] = DependsOn(tree, e)
    /\ \A e \in edge : nodes = {e[1], e[2]} /\ e[2] \notin PathUp(tree, e[1])
    /\ edge = {} => pc = "idle"

AskedInv ==
    tree \in Trees /\ NothingNumbered /\ edge = {} /\ left = {} /\ ctrldep = << >>

TreeInv ==
    /\ tree = NoTree /\ NothingNumbered /\ edge = {} /\ left = digraph.edge
    /\ nodes = {} /\ stacks = << >> /\ turn = 1 /\ visited = {} /\ reentered = {} /\ arcs = {}

NumberInv ==
    /\ TreeBuilt /\ IsNumbering(tree, num, las, path) /\ path # << >>
    /\ edge = {} /\ left = digraph.edge

AbortedInv ==
    /\ Endless(digraph) # {} /\ edge = {}
    /\ (tree = NoTree /\ NothingNumbered) \/ (TreeBuilt /\ AllNumbered)

DependenceInv ==
    /\ QueryInv
    /\ phase \in {"asked", "tree", "number", "edges", "done", "aborted"}
    /\ phase = "asked" => AskedInv
    /\ phase # "asked" => digraph \in ControlFlows /\ EdgesFit
    /\ phase = "tree" => TreeInv
    /\ phase = "number" => NumberInv
    /\ phase \in {"edges", "done"} => TreeBuilt /\ AllNumbered
    /\ phase = "done" => edge = {} /\ left = {}
    /\ phase = "aborted" => AbortedInv

LEMMA BuiltTreeFacts ==
    ASSUME digraph \in ControlFlows, TreeBuilt
    PROVE  IsTree(tree) /\ tree.node = Ends(digraph) /\ IsEnding(digraph)
<1>1. IsControlFlow(digraph)
  BY ControlFlowsUsable
<1> QED  BY <1>1, TreeOfIsTree, ParentsAreNearest DEF TreeBuilt

\* There is a node that does not reach the exit, if the exit is gone or a node is not in
\* the tree.
LEMMA EndlessIfNoExit ==
    ASSUME NEW c, IsControlFlow(c), c.exit \notin c.node
    PROVE  Endless(c) # {}
<1> DEFINE N == c.node
<1>1. IsFiniteSet(c.node) /\ N \in SUBSET c.node /\ c.entry \in c.node
  BY DEF IsControlFlow, IsFlowGraph
<1> HIDE DEF N
<1>2. ReachedFrom(c, {c.entry}, N) \subseteq N
  BY <1>1, ReachedFromFacts
<1> QED  BY <1>1, <1>2 DEF Endless, N

LEMMA EndlessIfNotInTree ==
    ASSUME NEW c, IsEnding(c), NEW n \in c.node \ Ends(c)
    PROVE  Endless(c) # {}
BY EndsFacts DEF Endless

LEMMA QueryUnchanged ==
    ASSUME QueryInv, UNCHANGED <<tree, queryVars>>
    PROVE  QueryInv'
<1>1. UNCHANGED <<tree, pc, nodes, stacks, turn, visited, reentered, arcs, result>>
  BY DEF queryVars
<1>2. QueryTypes'
  BY <1>1 DEF QueryInv, QueryTypes
<1> QED  BY <1>1, <1>2 DEF QueryInv

LEMMA EdgesUnchanged ==
    ASSUME EdgesFit, UNCHANGED <<tree, digraph, edge, left, ctrldep, nodes, pc>>
    PROVE  EdgesFit'
BY DEF EdgesFit

LEMMA InitDependenceInv ==
    ASSUME InitDependence \/ InitQueries
    PROVE  DependenceInv
<1>0. << >> \in Seq(Seq(tree.node)) /\ Len(<< >>) = 0
  OBVIOUS
<1>1. CASE InitQueries
  <2>1. IsTree(tree) /\ tree \in Trees
    BY <1>1, TreesAreTrees DEF InitQueries, Init
  <2>2. QueryTypes
    BY <1>0, <1>1, <2>1, TreeType DEF QueryTypes, InitQueries, Init
  <2>3. IsNearest(tree, nodes, result)
    <3>1. nodes = {tree.root} /\ result = tree.root /\ tree.root \in tree.node
      BY <1>1, <2>1, TreeType DEF InitQueries, Init
    <3> QED  BY <2>1, <3>1, PathUpFacts DEF IsNearest, IsCommon
  <2>4. QueryInv
    BY <1>1, <2>2, <2>3 DEF QueryInv, InitQueries, Init
  <2> QED  BY <1>1, <2>1, <2>4 DEF DependenceInv, AskedInv, NothingNumbered, InitQueries
<1>2. CASE InitDependence
  <2>1. /\ digraph \in ControlFlows /\ phase = "tree" /\ tree = NoTree /\ num = << >> /\ las = << >>
        /\ path = << >> /\ edge = {} /\ left = digraph.edge /\ ctrldep = << >> /\ pc = "idle"
        /\ nodes = {} /\ stacks = << >> /\ turn = 1 /\ visited = {} /\ reentered = {} /\ arcs = {}
    BY <1>2 DEF InitDependence
  <2>2. QueryTypes
    BY <1>0, <2>1 DEF QueryTypes
  <2>3. QueryInv
    BY <2>1, <2>2 DEF QueryInv
  <2>4. DOMAIN ctrldep = {}
    BY <2>1
  <2>5. EdgesFit
    BY <2>1, <2>4 DEF EdgesFit
  <2> QED  BY <2>1, <2>3, <2>5 DEF DependenceInv, TreeInv, NothingNumbered
<1> QED  BY <1>1, <1>2

LEMMA BuildTreeInv ==
    ASSUME DependenceInv, BuildTree
    PROVE  DependenceInv'
<1>1. /\ phase = "tree" /\ digraph \in ControlFlows /\ EdgesFit /\ TreeInv /\ QueryInv
      /\ IsControlFlow(digraph)
  BY ControlFlowsUsable DEF BuildTree, DependenceInv
<1>2. UNCHANGED queryVars /\ digraph' = digraph /\ edge' = edge /\ left' = left /\ ctrldep' = ctrldep
  BY DEF BuildTree, AbortDependence
<1>3. UNCHANGED <<pc, nodes, stacks, turn, visited, reentered, arcs, result>>
  BY <1>2 DEF queryVars
<1>4. CASE digraph.exit \notin digraph.node
  <2>1. phase' = "aborted" /\ UNCHANGED <<tree, num, las, path>>
    BY <1>4 DEF BuildTree, AbortDependence, treeVars
  <2>2. QueryInv' /\ EdgesFit'
    BY <1>1, <1>2, <1>3, <2>1, QueryUnchanged, EdgesUnchanged
  <2>3. AbortedInv'
    <3>1. Endless(digraph) # {}
      BY <1>1, <1>4, EndlessIfNoExit
    <3> QED  BY <1>1, <1>2, <2>1, <3>1 DEF AbortedInv, TreeInv, NothingNumbered, Endless
  <2> QED  BY <1>1, <1>2, <2>1, <2>2, <2>3 DEF DependenceInv
<1>5. CASE digraph.exit \in digraph.node
  <2>1. /\ tree' = TreeOf(digraph) /\ num' = [n \in {digraph.exit} |-> 0]
        /\ path' = <<digraph.exit>> /\ phase' = "number" /\ las' = las
    BY <1>5 DEF BuildTree, TreeOf
  <2>2. IsTree(tree') /\ tree'.root = digraph.exit
    BY <1>1, <1>5, <2>1, TreeOfIsTree DEF TreeOf
  <2>3. IsNumbering(tree', num', las', path')
    BY <1>1, <2>1, <2>2, NumberingBegins DEF TreeInv, NothingNumbered
  <2>4. path' # << >>
    BY <2>1
  <2>5. QueryInv'
    <3>1. << >> \in Seq(Seq(tree'.node)) /\ Len(<< >>) = 0
      OBVIOUS
    <3>2. QueryTypes'
      BY <1>1, <1>3, <3>1 DEF QueryTypes, TreeInv
    <3> QED  BY <1>1, <1>3, <3>2 DEF QueryInv, TreeInv, EdgesFit
  <2>6. EdgesFit'
    <3>1. DOMAIN ctrldep = {}
      BY <1>1 DEF EdgesFit, TreeInv
    <3> QED  BY <1>1, <1>2, <1>3, <3>1 DEF EdgesFit, TreeInv
  <2> QED  BY <1>1, <1>2, <1>5, <2>1, <2>3, <2>4, <2>5, <2>6 DEF DependenceInv, NumberInv, TreeBuilt, TreeInv
<1> QED  BY <1>4, <1>5

LEMMA NumberChildInv ==
    ASSUME DependenceInv, NumberChild
    PROVE  DependenceInv'
<1>1. phase = "number" /\ digraph \in ControlFlows /\ EdgesFit /\ NumberInv /\ QueryInv
  BY DEF NumberChild, DependenceInv
<1>2. IsTree(tree)
  BY <1>1, BuiltTreeFacts DEF NumberInv
<1>3. PICK c \in Unnumbered(Last(path)) :
        num' = With(num, c, Cardinality(DOMAIN num)) /\ path' = Append(path, c)
  BY DEF NumberChild
<1>4. UNCHANGED <<tree, las, digraph, phase, edge, left, ctrldep, queryVars>>
      /\ UNCHANGED <<pc, nodes>>
  BY DEF NumberChild, depVars, queryVars
<1>5. c \in tree.node \ {tree.root} /\ tree.parent[c] = Last(path) /\ c \notin DOMAIN num
  BY <1>2 DEF Unnumbered, Children, IsTree
<1>6. IsNumbering(tree, num', las, path')
  BY <1>1, <1>2, <1>3, <1>5, ChildNumbered DEF NumberInv
<1>7. path' # << >>
  <2>1. path \in Seq(tree.node)
    BY <1>1 DEF NumberInv, IsNumbering, PathFits
  <2> QED  BY <1>3, <1>5, <2>1, AppendFacts
<1>8. QueryInv' /\ EdgesFit'
  BY <1>1, <1>4, QueryUnchanged, EdgesUnchanged
<1>9. NumberInv'
  BY <1>1, <1>4, <1>6, <1>7 DEF NumberInv, TreeBuilt
<1> QED  BY <1>1, <1>4, <1>8, <1>9 DEF DependenceInv

LEMMA LeaveNodeInv ==
    ASSUME DependenceInv, LeaveNode
    PROVE  DependenceInv'
<1>1. phase = "number" /\ digraph \in ControlFlows /\ EdgesFit /\ NumberInv /\ QueryInv
  BY DEF LeaveNode, DependenceInv
<1>2. IsTree(tree)
  BY <1>1, BuiltTreeFacts DEF NumberInv
<1>3. /\ path # << >> /\ Unnumbered(Last(path)) = {} /\ path' = Front(path)
      /\ las' = With(las, Last(path), Cardinality(DOMAIN num) - 1)
      /\ phase' = IF path' = << >> THEN "edges" ELSE "number"
  BY <1>1 DEF LeaveNode, LastNumber
<1>4. UNCHANGED <<tree, num, digraph, edge, left, ctrldep, queryVars>> /\ UNCHANGED <<pc, nodes>>
  BY DEF LeaveNode, queryVars
<1>5. \A m \in tree.node : m # tree.root /\ tree.parent[m] = Last(path) => m \in DOMAIN num
  BY <1>2, <1>3 DEF Unnumbered, Children, IsTree
<1>6. IsNumbering(tree, num, las', path')
  BY <1>1, <1>2, <1>3, <1>5, NodeLeft DEF NumberInv
<1>7. QueryInv' /\ EdgesFit'
  BY <1>1, <1>4, QueryUnchanged, EdgesUnchanged
<1>8. TreeBuilt'
  BY <1>1, <1>4 DEF NumberInv, TreeBuilt
<1>9. CASE path' = << >>
  <2>1. NumberedAs(tree, num, las')
    BY <1>2, <1>6, <1>9, NumberingEnds
  <2>2. DOMAIN las' \subseteq DOMAIN num
    BY <1>6 DEF IsNumbering, PathFits
  <2> QED  BY <1>1, <1>3, <1>4, <1>7, <1>8, <1>9, <2>1, <2>2 DEF DependenceInv, AllNumbered
<1>10. CASE path' # << >>
  BY <1>1, <1>3, <1>4, <1>6, <1>7, <1>8, <1>10 DEF DependenceInv, NumberInv
<1> QED  BY <1>9, <1>10

LEMMA LookAtEdgeInv ==
    ASSUME DependenceInv, LookAtEdge
    PROVE  DependenceInv'
<1>1. /\ phase = "edges" /\ edge = {} /\ digraph \in ControlFlows /\ EdgesFit /\ QueryInv
      /\ TreeBuilt /\ AllNumbered
  BY DEF LookAtEdge, DependenceInv
<1>2. IsTree(tree) /\ tree.node = Ends(digraph) /\ IsEnding(digraph)
  BY <1>1, BuiltTreeFacts
<1>3. PICK e \in left :
        IF ~({e[1], e[2]} \subseteq tree.node)
        THEN AbortDependence /\ UNCHANGED queryVars
        ELSE /\ left' = left \ {e}
             /\ IF Decides(e[1], e[2])
                THEN /\ edge' = {e} /\ nodes' = {e[1], e[2]}
                     /\ pc' = "stacks" /\ stacks' = << >> /\ turn' = 1
                     /\ MarksReset
                     /\ UNCHANGED result
                ELSE UNCHANGED <<edge, queryVars>>
             /\ UNCHANGED <<digraph, phase, ctrldep>>
  BY DEF LookAtEdge
<1>4. UNCHANGED <<tree, num, las, path>> /\ UNCHANGED digraph
  BY <1>3 DEF LookAtEdge, treeVars, AbortDependence
<1>5. (TreeBuilt /\ AllNumbered)'
  BY <1>1, <1>4 DEF TreeBuilt, AllNumbered
<1>6. e \in digraph.edge /\ e[1] \in digraph.node /\ e[2] \in digraph.node
  BY <1>1, <1>2 DEF EdgesFit, IsEnding, IsFlowGraph
<1>7. CASE ~({e[1], e[2]} \subseteq tree.node)
  <2>1. phase' = "aborted" /\ UNCHANGED <<edge, left, ctrldep, queryVars>> /\ UNCHANGED <<nodes, pc>>
    BY <1>3, <1>7 DEF AbortDependence, queryVars
  <2>2. QueryInv' /\ EdgesFit'
    BY <1>1, <1>4, <2>1, QueryUnchanged, EdgesUnchanged
  <2>3. Endless(digraph) # {}
    BY <1>2, <1>6, <1>7, EndlessIfNotInTree
  <2>4. AbortedInv'
    BY <1>1, <1>4, <1>5, <2>1, <2>3 DEF AbortedInv, Endless
  <2> QED  BY <1>1, <1>4, <2>1, <2>2, <2>4 DEF DependenceInv
<1>8. CASE {e[1], e[2]} \subseteq tree.node
  <2>1. left' = left \ {e} /\ phase' = "edges" /\ ctrldep' = ctrldep
    BY <1>1, <1>3, <1>8
  <2>2. Decides(e[1], e[2]) <=> e[2] \notin PathUp(tree, e[1])
    BY <1>1, <1>8 DEF Decides, TestDominance, AllNumbered, NumberedAs
  <2>3. \A d \in digraph.edge \ left' : d[1] \in tree.node /\ d[2] \in tree.node
    BY <1>1, <1>8, <2>1 DEF EdgesFit
  <2>4. DOMAIN ctrldep = {d \in digraph.edge \ left : d[2] \notin PathUp(tree, d[1])}
    BY <1>1 DEF EdgesFit
  <2>5. CASE Decides(e[1], e[2])
    <3>1. /\ edge' = {e} /\ nodes' = {e[1], e[2]}
          /\ pc' = "stacks" /\ stacks' = << >> /\ turn' = 1 /\ MarksReset
      BY <1>3, <1>8, <2>5
    <3>2. QueryInv'
      <4>1. {e[1], e[2]} \in SUBSET tree.node
        BY <1>8
      <4> DEFINE S == {e[1], e[2]}
      <4> HIDE DEF S
      <4> QED  BY <1>4, <3>1, <4>1, QueryBegins DEF S
    <3>3. EdgesFit'
      <4>1. edge' \subseteq digraph.edge /\ left' \subseteq digraph.edge /\ edge' \cap left' = {}
        BY <1>1, <1>6, <2>1, <3>1 DEF EdgesFit
      <4>2. digraph.edge \ (left' \cup edge') = digraph.edge \ left
        BY <1>6, <2>1, <3>1
      <4>3. \A d \in DOMAIN ctrldep : ctrldep[d] = DependsOn(tree, d)
        BY <1>1 DEF EdgesFit
      <4> QED  BY <1>4, <2>1, <2>2, <2>3, <2>4, <2>5, <3>1, <4>1, <4>2, <4>3 DEF EdgesFit
    <3> QED  BY <1>1, <1>4, <1>5, <2>1, <3>2, <3>3 DEF DependenceInv
  <2>6. CASE ~Decides(e[1], e[2])
    <3>1. UNCHANGED <<edge, queryVars>> /\ UNCHANGED <<nodes, pc>>
      BY <1>3, <1>8, <2>6 DEF queryVars
    <3>2. QueryInv'
      BY <1>1, <1>4, <3>1, QueryUnchanged
    <3>3. EdgesFit'
      <4>1. left' \subseteq digraph.edge /\ pc = "idle"
        BY <1>1, <2>1 DEF EdgesFit
      <4>2. {d \in digraph.edge \ left' : d[2] \notin PathUp(tree, d[1])}
              = {d \in digraph.edge \ left : d[2] \notin PathUp(tree, d[1])}
        BY <2>1, <2>2, <2>6
      <4>3. \A d \in DOMAIN ctrldep : ctrldep[d] = DependsOn(tree, d)
        BY <1>1 DEF EdgesFit
      <4>4. edge' = {} /\ left' \cup edge' = left'
        BY <1>1, <3>1
      <4> QED  BY <1>1, <1>4, <2>1, <2>3, <2>4, <3>1, <4>1, <4>2, <4>3, <4>4 DEF EdgesFit
    <3> QED  BY <1>1, <1>4, <1>5, <2>1, <3>1, <3>2, <3>3 DEF DependenceInv
  <2> QED  BY <2>5, <2>6
<1> QED  BY <1>7, <1>8

\* While a query is on, there is a tree to ask.
LEMMA TreeIsThere ==
    ASSUME DependenceInv, phase = "asked" \/ edge # {}
    PROVE  /\ IsTree(tree)
           /\ phase # "asked" => phase = "edges" /\ digraph \in ControlFlows /\ TreeBuilt /\ EdgesFit
<1>1. CASE phase = "asked"
  BY <1>1, TreesAreTrees DEF DependenceInv, AskedInv
<1>2. CASE phase # "asked"
  <2>1. phase = "edges"
    BY <1>2 DEF DependenceInv, TreeInv, NumberInv, AbortedInv
  <2>2. digraph \in ControlFlows /\ TreeBuilt /\ EdgesFit
    BY <2>1 DEF DependenceInv
  <2> QED  BY <2>1, <2>2, BuiltTreeFacts
<1> QED  BY <1>1, <1>2

LEMMA QueryStepInv ==
    ASSUME DependenceInv, Query
    PROVE  DependenceInv'
<1>1. /\ IsTree(tree) /\ QueryInv
      /\ phase # "asked" => phase = "edges" /\ digraph \in ControlFlows /\ TreeBuilt /\ EdgesFit
  BY TreeIsThere DEF Query, DependenceInv
<1>2. UNCHANGED <<num, las, path, digraph, phase, edge, left, ctrldep>>
  BY DEF Query, depVars
<1>3. QueryInv'
  BY <1>1, MakeStackInvariant, StepStackInvariant, ExamineStackInvariant DEF Query
<1>4. UNCHANGED <<tree, nodes>>
  BY DEF Query, MakeStack, StepStack, ExamineStack
<1>5. CASE phase = "asked"
  <2>1. AskedInv
    BY <1>5 DEF DependenceInv
  <2>2. AskedInv'
    BY <1>2, <1>4, <2>1 DEF AskedInv, NothingNumbered
  <2> QED  BY <1>2, <1>3, <1>5, <2>2 DEF DependenceInv
<1>6. CASE phase # "asked"
  <2>1. edge # {} /\ phase = "edges" /\ AllNumbered
    BY <1>1, <1>6 DEF Query, DependenceInv
  <2>2. EdgesFit'
    BY <1>1, <1>2, <1>4, <1>6, <2>1 DEF EdgesFit
  <2>3. TreeBuilt' /\ AllNumbered'
    BY <1>1, <1>2, <1>4, <1>6, <2>1 DEF TreeBuilt, AllNumbered
  <2> QED  BY <1>1, <1>2, <1>3, <1>6, <2>1, <2>2, <2>3 DEF DependenceInv
<1> QED  BY <1>5, <1>6

LEMMA AskInv ==
    ASSUME DependenceInv, Ask
    PROVE  DependenceInv'
<1>1. phase = "asked" /\ IsTree(tree) /\ QueryInv /\ AskedInv
  BY TreeIsThere DEF Ask, DependenceInv
<1>2. UNCHANGED <<num, las, path, digraph, phase, edge, left, ctrldep>>
  BY DEF Ask, depVars
<1>3. QueryInv' /\ tree' = tree
  BY <1>1, AskForOneInvariant, AskForManyInvariant DEF Ask, AskForOne, AskForMany
<1>4. AskedInv'
  BY <1>1, <1>2, <1>3 DEF AskedInv, NothingNumbered
<1> QED  BY <1>1, <1>2, <1>3, <1>4 DEF DependenceInv

\* With the nearest common dominator of its ends, an edge is noted to decide about what
\* it decides about.
LEMMA ControlledIsDependsOn ==
    ASSUME IsTree(tree), NEW e, e[1] \in tree.node, e[2] \in tree.node,
           NEW a, IsNearest(tree, {e[1], e[2]}, a)
    PROVE  Controlled(e[1], e[2], a) = DependsOn(tree, e)
<1> DEFINE u == e[1]
           v == e[2]
           U == PathUp(tree, u)
           V == PathUp(tree, v)
           A == PathUp(tree, a)
<1>1. /\ a \in tree.node /\ a \in U /\ a \in V
      /\ \A b \in tree.node : b \in U /\ b \in V => b \in A
  BY DEF IsNearest, IsCommon
<1>2. A \subseteq U /\ A \subseteq V /\ V \subseteq tree.node /\ u \in U
  BY <1>1, PathUpFacts, PathUpTransitive
<1>3. u \in V => a = u
  BY <1>1, <1>2, PathUpAntisymmetric
<1>4. Controlled(u, v, a) = (V \ A) \cup (IF a = u THEN {a} ELSE {})
  BY DEF Controlled
<1>5. DependsOn(tree, e) = {w \in V : w = u \/ w \notin U}
  BY DEF DependsOn
<1> HIDE DEF U, V, A, u, v
<1>6. \A w : w \in (V \ A) \cup (IF a = u THEN {a} ELSE {}) <=> w \in {x \in V : x = u \/ x \notin U}
  BY <1>1, <1>2, <1>3
<1> QED  BY <1>4, <1>5, <1>6 DEF u, v

LEMMA NoteDependenceInv ==
    ASSUME DependenceInv, NoteDependence
    PROVE  DependenceInv'
<1>1. phase = "edges" /\ pc = "idle" /\ EdgesFit /\ QueryInv /\ AllNumbered /\ digraph \in ControlFlows
  BY DEF NoteDependence, DependenceInv
<1>2. PICK e \in edge : ctrldep' = With(ctrldep, e, Controlled(e[1], e[2], result))
  BY DEF NoteDependence
<1>3. IsTree(tree) /\ TreeBuilt
  BY <1>1, <1>2, TreeIsThere
<1>4. /\ UNCHANGED <<digraph, phase, left, tree, num, las, path, queryVars>> /\ edge' = {}
      /\ UNCHANGED <<pc, nodes>>
  BY DEF NoteDependence, treeVars, queryVars
<1>5. /\ edge = {e} /\ e \in digraph.edge \ left /\ e[1] \in tree.node /\ e[2] \in tree.node
      /\ nodes = {e[1], e[2]} /\ e[2] \notin PathUp(tree, e[1])
  BY <1>1, <1>2 DEF EdgesFit
<1>6. IsNearest(tree, {e[1], e[2]}, result)
  BY <1>1, <1>5 DEF QueryInv
<1>7. ctrldep' = With(ctrldep, e, DependsOn(tree, e))
  BY <1>2, <1>3, <1>5, <1>6, ControlledIsDependsOn
<1>8. /\ DOMAIN ctrldep' = DOMAIN ctrldep \cup {e} /\ ctrldep'[e] = DependsOn(tree, e)
      /\ \A d \in DOMAIN ctrldep : d # e => ctrldep'[d] = ctrldep[d]
  <2> DEFINE v == DependsOn(tree, e)
             f == ctrldep
             h == With(f, e, v)
  <2> HIDE DEF v, f
  <2>1. /\ DOMAIN h = DOMAIN f \cup {e} /\ h[e] = v
        /\ \A d \in DOMAIN f : d # e => h[d] = f[d]
    BY DEF With
  <2>2. ctrldep' = h
    BY <1>7 DEF v, f
  <2> HIDE DEF h
  <2> QED  BY <2>1, <2>2 DEF v, f
<1>9. /\ DOMAIN ctrldep = {d \in digraph.edge \ (left \cup {e}) : d[2] \notin PathUp(tree, d[1])}
      /\ \A d \in DOMAIN ctrldep : ctrldep[d] = DependsOn(tree, d)
  BY <1>1, <1>5 DEF EdgesFit
<1>10. EdgesFit'
  <2>1. DOMAIN ctrldep' = {d \in digraph.edge \ left : d[2] \notin PathUp(tree, d[1])}
    BY <1>5, <1>8, <1>9
  <2>2. \A d \in DOMAIN ctrldep' : ctrldep'[d] = DependsOn(tree, d)
    BY <1>8, <1>9
  <2>3. left \cup {} = left
    OBVIOUS
  <2> QED  BY <1>1, <1>4, <2>1, <2>2, <2>3 DEF EdgesFit
<1>11. QueryInv'
  BY <1>1, <1>4, QueryUnchanged
<1>12. TreeBuilt' /\ AllNumbered'
  BY <1>1, <1>3, <1>4 DEF TreeBuilt, AllNumbered
<1> QED  BY <1>1, <1>4, <1>10, <1>11, <1>12 DEF DependenceInv

LEMMA FinishInv ==
    ASSUME DependenceInv, Finish
    PROVE  DependenceInv'
<1>1. /\ phase = "edges" /\ edge = {} /\ left = {} /\ QueryInv /\ EdgesFit /\ TreeBuilt /\ AllNumbered
      /\ digraph \in ControlFlows
  BY DEF Finish, DependenceInv
<1>2. /\ phase' = "done" /\ UNCHANGED <<digraph, edge, left, ctrldep, tree, num, las, path, queryVars>>
      /\ UNCHANGED <<pc, nodes>>
  BY DEF Finish, treeVars, queryVars
<1>3. QueryInv' /\ EdgesFit'
  BY <1>1, <1>2, QueryUnchanged, EdgesUnchanged
<1>4. TreeBuilt' /\ AllNumbered'
  BY <1>1, <1>2 DEF TreeBuilt, AllNumbered
<1> QED  BY <1>1, <1>2, <1>3, <1>4 DEF DependenceInv

LEMMA StutterInv ==
    ASSUME DependenceInv, UNCHANGED allVars
    PROVE  DependenceInv'
<1>1. UNCHANGED <<tree, num, las, path, queryVars, digraph, phase, edge, left, ctrldep>>
      /\ UNCHANGED <<pc, nodes, stacks, turn, visited, reentered, arcs>>
  BY DEF allVars, treeVars, depVars, queryVars
<1>2. QueryInv'
  BY <1>1, QueryUnchanged DEF DependenceInv
<1>3. phase # "asked" => EdgesFit'
  BY <1>1, EdgesUnchanged DEF DependenceInv
<1>4. phase = "asked" => AskedInv'
  BY <1>1 DEF DependenceInv, AskedInv, NothingNumbered
<1>5. phase = "tree" => TreeInv'
  BY <1>1 DEF DependenceInv, TreeInv, NothingNumbered
<1>6. phase = "number" => NumberInv'
  BY <1>1 DEF DependenceInv, NumberInv, TreeBuilt
<1>7. phase \in {"edges", "done"} => TreeBuilt' /\ AllNumbered'
  BY <1>1 DEF DependenceInv, TreeBuilt, AllNumbered
<1>8. phase = "aborted" => AbortedInv'
  BY <1>1 DEF DependenceInv, AbortedInv, TreeBuilt, AllNumbered, NothingNumbered, Endless
<1> QED  BY <1>1, <1>2, <1>3, <1>4, <1>5, <1>6, <1>7, <1>8 DEF DependenceInv

\* The invariant of the whole, which relates the numbers to the tree, the tree to the
\* flow, and the marks, the stacks and the nodes of a query to each other.
THEOREM DependenceInvariant == SpecDependence => []DependenceInv
<1>1. InitDependence \/ InitQueries => DependenceInv
  BY InitDependenceInv
<1>2. DependenceInv /\ [NextDependence]_allVars => DependenceInv'
  <2> SUFFICES ASSUME DependenceInv, [NextDependence]_allVars PROVE DependenceInv'
    OBVIOUS
  <2>1. CASE BuildTree  BY <2>1, BuildTreeInv
  <2>2. CASE NumberChild  BY <2>2, NumberChildInv
  <2>3. CASE LeaveNode  BY <2>3, LeaveNodeInv
  <2>4. CASE LookAtEdge  BY <2>4, LookAtEdgeInv
  <2>5. CASE Query  BY <2>5, QueryStepInv
  <2>6. CASE Ask  BY <2>6, AskInv
  <2>7. CASE NoteDependence  BY <2>7, NoteDependenceInv
  <2>8. CASE Finish  BY <2>8, FinishInv
  <2>9. CASE Ended \/ UNCHANGED allVars  BY <2>9, StutterInv DEF Ended
  <2> QED  BY <2>1, <2>2, <2>3, <2>4, <2>5, <2>6, <2>7, <2>8, <2>9 DEF NextDependence
<1> QED  BY <1>1, <1>2, PTL DEF SpecDependence

-----------------------------------------------------------------------------
(* What the property invariants say.                                       *)

\* A query that is answered had a tree to ask.
LEMMA AnsweredOnATree ==
    ASSUME DependenceInv, nodes # {}
    PROVE  IsTree(tree) /\ nodes \in SUBSET tree.node
<1>1. nodes \in SUBSET tree.node /\ tree # NoTree
  BY DEF DependenceInv, QueryInv, QueryTypes, NoTree
<1>2. CASE phase = "asked"
  BY <1>1, <1>2, TreesAreTrees DEF DependenceInv, AskedInv
<1>3. CASE phase # "asked"
  <2>1. digraph \in ControlFlows /\ TreeBuilt
    BY <1>1, <1>3 DEF DependenceInv, TreeInv, NumberInv, AbortedInv
  <2> QED  BY <1>1, <2>1, BuiltTreeFacts
<1> QED  BY <1>2, <1>3

\* nearest_common_dominator answers with the nearest common dominator, on every tree, for
\* any set of nodes, whatever the turns of the stacks and the queries before
\* (dominator.py:195-283).
THEOREM QueriesAnswerNearest == SpecDependence => []AnswersNearest
<1>1. DependenceInv => AnswersNearest
  <2> SUFFICES ASSUME DependenceInv, pc = "idle", nodes # {} PROVE result = NearestCommon(nodes)
    BY DEF AnswersNearest
  <2>1. IsTree(tree) /\ nodes \in SUBSET tree.node
    BY AnsweredOnATree
  <2>2. IsNearest(tree, nodes, result)
    BY DEF DependenceInv, QueryInv
  <2> QED  BY <2>1, <2>2, NearestIsUnique
<1> QED  BY <1>1, DependenceInvariant, PTL

\* What the numbers and the tree say of two nodes of the flow.
LEMMA NumbersDecide ==
    ASSUME digraph \in ControlFlows, TreeBuilt, AllNumbered,
           NEW a \in tree.node, NEW b \in tree.node
    PROVE  /\ TestDominance(a, b) <=> PostDominates(digraph, a, b)
           /\ a \in PathUp(tree, b) <=> PostDominates(digraph, a, b)
<1>1. IsControlFlow(digraph) /\ digraph.exit \in digraph.node /\ tree = TreeOf(digraph)
      /\ a \in Ends(digraph) /\ b \in Ends(digraph)
  BY BuiltTreeFacts, ControlFlowsUsable DEF TreeBuilt
<1>2. a \in PathUp(tree, b) <=> PostDominates(digraph, a, b)
  BY <1>1, WayUpIsPostDominance
<1>3. TestDominance(a, b) <=> a \in PathUp(tree, b)
  BY DEF TestDominance, AllNumbered, NumberedAs
<1> QED  BY <1>2, <1>3

\* test_dominance compares numbers, and that is post-dominance of the flow, in whatever
\* order the children were numbered (dominator.py:142-181).
THEOREM NumbersTestDominance == SpecDependence => []DominanceTested
<1>1. DependenceInv => DominanceTested
  <2> SUFFICES ASSUME DependenceInv, phase \in {"done", "aborted"},
                      NEW a \in tree.node, NEW b \in tree.node
               PROVE  TestDominance(a, b) <=> PostDominates(digraph, a, b)
    BY DEF DominanceTested
  <2>1. digraph \in ControlFlows /\ TreeBuilt /\ AllNumbered
    BY DEF DependenceInv, AbortedInv, NoTree
  <2> QED  BY <2>1, NumbersDecide
<1> QED  BY <1>1, DependenceInvariant, PTL

\* If both ends of every edge reach the exit, every node does.
LEMMA AllEnd ==
    ASSUME NEW c, IsControlFlow(c), IsEnding(c),
           \A e \in c.edge : e[1] \in Ends(c) /\ e[2] \in Ends(c)
    PROVE  Ends(c) = c.node /\ Endless(c) = {}
<1>1. /\ IsRooted(c) /\ ReachableNodes(c) = c.node /\ c.exit \in Ends(c) /\ Ends(c) \subseteq c.node
      /\ c.exit \in c.node /\ c.entry \in c.node
  BY FlowGraphIsRooted, EndsFacts DEF IsControlFlow, IsEnding, IsFlowGraph
<1>2. \A X : c.entry \in X /\ (\A e \in c.edge : e[1] \in X => e[2] \in X) => c.node \subseteq X
  BY <1>1, ReachableFacts
<1>3. c.entry \in Ends(c)
  <2>1. CASE \E e \in c.edge : e[1] = c.entry
    BY <2>1
  <2>2. CASE ~ \E e \in c.edge : e[1] = c.entry
    <3>1. c.node \subseteq {c.entry}
      BY <1>2, <2>2
    <3> QED  BY <1>1, <3>1
  <2> QED  BY <2>1, <2>2
<1>4. c.node \subseteq Ends(c)
  BY <1>2, <1>3
<1> QED  BY <1>1, <1>4, EndsFacts DEF Endless

\* When all edges have been looked at, every node reaches the exit.
LEMMA DoneIfAllEnd ==
    ASSUME DependenceInv, phase = "done"
    PROVE  /\ digraph \in ControlFlows /\ TreeBuilt /\ AllNumbered /\ EdgesFit
           /\ edge = {} /\ left = {}
           /\ tree.node = digraph.node /\ Endless(digraph) = {}
<1>1. /\ digraph \in ControlFlows /\ TreeBuilt /\ AllNumbered /\ EdgesFit /\ edge = {} /\ left = {}
      /\ IsControlFlow(digraph)
  BY ControlFlowsUsable DEF DependenceInv
<1>2. tree.node = Ends(digraph) /\ IsEnding(digraph)
  BY <1>1, BuiltTreeFacts
<1>3. \A e \in digraph.edge : e[1] \in Ends(digraph) /\ e[2] \in Ends(digraph)
  BY <1>1, <1>2 DEF EdgesFit
<1> QED  BY <1>1, <1>2, <1>3, AllEnd

\* No assertion of a query fails, and the whole fails only if, and gives a result only if
\* not, there is a node from which the function does not come to its exit
\* (control_flow.py:181-213, dominator.py:240-283).
THEOREM FailsOnlyIfEndless == SpecDependence => []FailsIfEndless
<1>1. DependenceInv => FailsIfEndless
  <2> SUFFICES ASSUME DependenceInv PROVE FailsIfEndless
    OBVIOUS
  <2>1. pc # "aborted" /\ (phase = "aborted" => Endless(digraph) # {})
    BY DEF DependenceInv, QueryInv, AbortedInv
  <2>2. phase = "done" => Endless(digraph) = {}
    BY DoneIfAllEnd
  <2> QED  BY <2>1, <2>2 DEF FailsIfEndless
<1> QED  BY <1>1, DependenceInvariant, PTL

LEMMA DependenceTypes ==
    ASSUME DependenceInv
    PROVE  TypeOKDependence
<1>1. TypeOK
  <2>1. nodes # {} /\ pc = "idle" => result \in tree.node
    BY DEF DependenceInv, QueryInv, IsNearest
  <2> QED  BY <2>1 DEF TypeOK, DependenceInv, QueryInv, QueryTypes
<1>2. DOMAIN las \subseteq DOMAIN num /\ DOMAIN num \subseteq tree.node
      /\ Range(path) \subseteq DOMAIN num \ DOMAIN las
  <2>1. CASE NothingNumbered
    <3>1. DOMAIN num = {} /\ DOMAIN las = {} /\ DOMAIN path = {}
      BY <2>1 DEF NothingNumbered
    <3> QED  BY <3>1 DEF Range
  <2>2. CASE AllNumbered
    <3>1. DOMAIN path = {}
      BY <2>2 DEF AllNumbered
    <3> QED  BY <2>2, <3>1 DEF AllNumbered, NumberedAs, Range
  <2>3. CASE NumberInv
    <3>1. NumbersFit(tree, num) /\ PathFits(tree, num, las, path)
      BY <2>3 DEF NumberInv, IsNumbering
    <3>2. DOMAIN path = 1 .. Len(path)
      BY <3>1 DEF PathFits
    <3> QED  BY <3>1, <3>2 DEF NumbersFit, PathFits, Range
  <2> QED  BY <2>1, <2>2, <2>3 DEF DependenceInv, AskedInv, TreeInv, AbortedInv
<1>3. (phase # "asked" => edge \cup left \cup DOMAIN ctrldep \subseteq digraph.edge) /\ edge \cap left = {}
  BY DEF DependenceInv, AskedInv, EdgesFit
<1>4. Cardinality(edge) <= 1
  <2>1. \A d, e \in edge : d = e
    BY DEF DependenceInv, AskedInv, EdgesFit
  <2>2. CASE edge = {}
    BY <2>2, FS_EmptySet
  <2>3. CASE edge # {}
    <3>1. PICK e \in edge : TRUE
      BY <2>3
    <3>2. edge = {e}
      BY <2>1, <3>1
    <3>3. Cardinality({e}) = 1
      BY FS_Singleton
    <3> QED  BY <3>2, <3>3
  <2> QED  BY <2>2, <2>3
<1> QED  BY <1>1, <1>2, <1>3, <1>4 DEF TypeOKDependence, DependenceInv

\* The edges noted are those that decide, and each is noted with the nodes it decides
\* about, by post-dominance of the flow (control_flow.py:186-213).
THEOREM DependencesAreRight == SpecDependence => []DependenceCorrect
<1>1. DependenceInv => DependenceCorrect
  <2> SUFFICES ASSUME DependenceInv PROVE DependenceCorrect
    OBVIOUS
  <2>1. ASSUME phase = "done"
        PROVE  /\ DOMAIN ctrldep = {e \in digraph.edge : ~PostDominates(digraph, e[2], e[1])}
               /\ \A e \in DOMAIN ctrldep :
                    ctrldep[e] = {w \in digraph.node :
                            /\ PostDominates(digraph, w, e[2])
                            /\ w = e[1] \/ ~PostDominates(digraph, w, e[1])}
    <3>1. /\ digraph \in ControlFlows /\ TreeBuilt /\ AllNumbered /\ EdgesFit
          /\ edge = {} /\ left = {} /\ tree.node = digraph.node
      BY <2>1, DoneIfAllEnd
    <3>2. IsTree(tree)
      BY <3>1, BuiltTreeFacts
    <3>3. \A e \in digraph.edge : e[1] \in tree.node /\ e[2] \in tree.node
      BY <3>1 DEF EdgesFit
    <3>4. \A a, b \in tree.node : a \in PathUp(tree, b) <=> PostDominates(digraph, a, b)
      BY <3>1, NumbersDecide
    <3>5. /\ DOMAIN ctrldep = {e \in digraph.edge : e[2] \notin PathUp(tree, e[1])}
          /\ \A e \in DOMAIN ctrldep : ctrldep[e] = DependsOn(tree, e)
      BY <3>1 DEF EdgesFit
    <3>6. DOMAIN ctrldep = {e \in digraph.edge : ~PostDominates(digraph, e[2], e[1])}
      BY <3>3, <3>4, <3>5
    <3>7. ASSUME NEW e \in DOMAIN ctrldep
          PROVE  ctrldep[e] = {w \in digraph.node :
                            /\ PostDominates(digraph, w, e[2])
                            /\ w = e[1] \/ ~PostDominates(digraph, w, e[1])}
      <4>1. e[1] \in tree.node /\ e[2] \in tree.node
        BY <3>3, <3>5
      <4>2. PathUp(tree, e[2]) \subseteq tree.node
        BY <3>2, <4>1, PathUpFacts
      <4>3. DependsOn(tree, e) = {w \in tree.node : w \in PathUp(tree, e[2])
                                        /\ (w = e[1] \/ w \notin PathUp(tree, e[1]))}
        BY <4>2 DEF DependsOn
      <4> QED  BY <3>1, <3>4, <3>5, <4>1, <4>3
    <3> QED  BY <3>6, <3>7
  <2> QED  BY <2>1, DependenceTypes DEF DependenceCorrect
<1> QED  BY <1>1, DependenceInvariant, PTL
=============================================================================
