---------------------------- MODULE LoopMatching ----------------------------
(***************************************************************************)
(* match (src/py-mapping/mapping/loop_matcher.py): which binary loop is    *)
(* which source loop, by the lines that debug information gives for the    *)
(* code of a loop.  Several instructions share an entry (a key) of the     *)
(* line table; the innermost loop that has a key takes it.                 *)
(***************************************************************************)
EXTENDS FiniteSetsExt, SequencesExt, Naturals

(* A pair has the loop tree of the source, src, and of the binary, bin,    *)
(* with parent[n] = Root for outermost loops, numbered in the order in     *)
(* which the trees list them.  The header of source loop s begins and ends *)
(* at the lines head[s], its own other blocks are at the lines rest[s].    *)
(* Binary loop b has the keys head[b] in its header and rest[b] in its own *)
(* other blocks, and line gives the line of a key.  Loops in self have no  *)
(* other block, loops in skip have "skip": "True" in the annotations.      *)
CONSTANTS PairsOfTrees, Root, NoLoop

IsForest(t) ==
    /\ IsFiniteSet(DOMAIN t.parent) /\ DOMAIN t.parent \subseteq Nat
    /\ \A n \in DOMAIN t.parent : t.parent[n] \in DOMAIN t.parent \cup {Root} /\ t.parent[n] < n
    /\ DOMAIN t.head = DOMAIN t.parent /\ DOMAIN t.rest = DOMAIN t.parent

IsPair(p) ==
    /\ IsForest(p.src) /\ \A s \in DOMAIN p.src.parent :
           /\ p.src.head[s] \in Nat \X Nat /\ p.src.head[s][1] <= p.src.head[s][2]
           /\ p.src.rest[s] \in SUBSET Nat /\ IsFiniteSet(p.src.rest[s])
    /\ IsForest(p.bin) /\ \A b \in DOMAIN p.bin.parent :
           p.bin.head[b] \cup p.bin.rest[b] \subseteq DOMAIN p.line
    /\ IsFiniteSet(DOMAIN p.line)
    /\ \A b \in p.self : p.bin.rest[b] = {} /\ b \notin Range(p.bin.parent)

ASSUME PairsArePairs == Root = 0 /\ NoLoop \notin Nat /\ \A p \in PairsOfTrees : IsPair(p)

VARIABLES
    pair,
    stage,
    dwUnqMap,           \* binary loop -> the keys it has taken
    map_loop_binary,    \* binary loop -> source loop or NoLoop
    loops_to_match,     \* source loop -> binary loop
    skipped_b_loops

vars == <<pair, stage, dwUnqMap, map_loop_binary, loops_to_match, skipped_b_loops>>

Children(t, n) == {c \in DOMAIN t.parent : t.parent[c] = n}

\* What get_preorder_number returns.
Depth(t, n) ==
    LET depth[m \in DOMAIN t.parent \cup {Root}] == IF m = Root THEN 1 ELSE depth[t.parent[m]] + 1
    IN  depth[n]

Assign(map, b, value) == [n \in DOMAIN map \cup {b} |-> IF n = b THEN value ELSE map[n]]

BinLoops == DOMAIN pair.bin.parent
SrcLoops == DOMAIN pair.src.parent

Init ==
    /\ pair \in PairsOfTrees
    /\ stage = "keys"
    /\ dwUnqMap = <<>> /\ map_loop_binary = <<>> /\ loops_to_match = <<>>
    /\ skipped_b_loops = {}

-----------------------------------------------------------------------------
(* find_unq_dw: the deepest loops first, those of one depth in any order.  *)

\* The keys of its own blocks and of the headers of the loops directly in it.
OwnKeys(b) ==
    pair.bin.head[b] \cup pair.bin.rest[b] \cup
    UNION {pair.bin.head[c] : c \in Children(pair.bin, b)}

\* Mutant: the outermost first.
OutermostOf(S) == {b \in S : \A c \in S : Depth(pair.bin, b) <= Depth(pair.bin, c)}

DeepestOf(S) == {b \in S : \A c \in S : Depth(pair.bin, b) >= Depth(pair.bin, c)}

TakeKeys ==
    /\ stage = "keys"
    /\ \E b \in DeepestOf(BinLoops \ DOMAIN dwUnqMap) :
          dwUnqMap' = Assign(dwUnqMap, b, OwnKeys(b) \ UNION Range(dwUnqMap))
    /\ UNCHANGED <<pair, stage, map_loop_binary, loops_to_match, skipped_b_loops>>

-----------------------------------------------------------------------------
(* get_loop_tree: the lines of the source loops.                           *)

\* get_loop_min_max: of the header itself, only its first line.
LinesOf(s) ==
    {pair.src.head[s][1]} \cup pair.src.rest[s] \cup
    UNION {Range(pair.src.head[c]) : c \in Children(pair.src, s)}

\* "Source loop in single line"
OnOneLine(s) == Children(pair.src, s) # {} /\ Cardinality(LinesOf(s)) = 1

LineMin(s) == Min(LinesOf(s))

LineMax(s) ==
    LET end[n \in SrcLoops] == Max(LinesOf(n) \cup {end[c] : c \in Children(pair.src, n)})
    IN  end[s]

CheckSourceLoops ==
    /\ stage = "keys" /\ DOMAIN dwUnqMap = BinLoops
    /\ stage' = IF \E s \in SrcLoops : OnOneLine(s) THEN "refused" ELSE "match"
    /\ UNCHANGED <<pair, dwUnqMap, map_loop_binary, loops_to_match, skipped_b_loops>>

\* The outermost loops are tried by their first lines, others as the tree lists them.
SourceLoop(line) ==
    LET holding  == {n \in SrcLoops : line \in LineMin(n) .. LineMax(n)}
        outer    == Children(pair.src, Root) \cap holding
        earliest == {n \in outer : \A m \in outer : LineMin(n) <= LineMin(m)}
        found[k \in Nat] ==
            IF k = 0 THEN Min(earliest)
            ELSE LET around == found[k - 1]
                     inner  == Children(pair.src, around) \cap holding
                 IN  IF inner = {} THEN around ELSE Min(inner)
    IN  IF outer = {} THEN NoLoop ELSE found[Cardinality(SrcLoops)]

-----------------------------------------------------------------------------
(* Matching, the outermost binary loops first.                             *)

\* Keys outside of all loops are ignored, and if there are more also those of the
\* loop around.
Telling(b) ==
    LET up == pair.bin.parent[b]
    IN  {k \in dwUnqMap[b] :
            LET s == SourceLoop(pair.line[k])
            IN  /\ s # NoLoop
                /\ up # Root /\ Cardinality(dwUnqMap[b]) > 1 => s # map_loop_binary[up]}

\* The loop at the first line or, if it is not further out, the one at the last.
LoopAt(keys) ==
    LET lines == {pair.line[k] : k \in keys}
        min_sn == SourceLoop(Min(lines))
        max_sn == SourceLoop(Max(lines))
    IN  IF Depth(pair.src, min_sn) < Depth(pair.src, max_sn) THEN min_sn ELSE max_sn

\* "No info for this loop" ends it.
MatchLoop ==
    /\ stage = "match"
    /\ \E b \in BinLoops \ DOMAIN map_loop_binary :
        /\ pair.bin.parent[b] \in DOMAIN map_loop_binary \cup {Root}
        /\ IF dwUnqMap[b] = {}
           THEN stage' = "refused" /\ UNCHANGED map_loop_binary
           ELSE /\ map_loop_binary' = Assign(map_loop_binary, b,
                      IF b \in pair.skip \/ Telling(b) = {} THEN NoLoop
                      ELSE LoopAt(Telling(b)))
                /\ UNCHANGED stage
    /\ UNCHANGED <<pair, dwUnqMap, loops_to_match, skipped_b_loops>>

-----------------------------------------------------------------------------
(* filter_loops and the final assertion.                                   *)

MappedTo(s) == {b \in DOMAIN map_loop_binary : map_loop_binary[b] = s}

\* The loops that could be s: all, if there is one, and else those that are not self
\* loops, which are taken to be additions of the compiler.
Main(s) == IF Cardinality(MappedTo(s)) = 1 THEN MappedTo(s) ELSE MappedTo(s) \ pair.self

\* Mutant: self loops beside the main loop are forgotten.
UnmatchedOnly(main) == MappedTo(NoLoop)

ToSkip(main) ==
    MappedTo(NoLoop) \cup UNION {MappedTo(s) \ main[s] : s \in DOMAIN main}

\* "Unhandled case" and "Not all binary loops were processed"
FilterLoops ==
    /\ stage = "match" /\ DOMAIN map_loop_binary = BinLoops
    /\ LET main    == [s \in SrcLoops |-> Main(s)]
           matched == {s \in SrcLoops : main[s] # {}}
       IN  IF \A s \in matched : Cardinality(main[s]) = 1
           THEN /\ loops_to_match' = [s \in matched |-> CHOOSE b \in main[s] : TRUE]
                /\ skipped_b_loops' = ToSkip(main)
                /\ stage' = IF Cardinality(matched) + Cardinality(skipped_b_loops')
                                  = Cardinality(BinLoops)
                            THEN "done" ELSE "miscounted"
           ELSE stage' = "refused" /\ UNCHANGED <<loops_to_match, skipped_b_loops>>
    /\ UNCHANGED <<pair, dwUnqMap, map_loop_binary>>

Ended ==
    /\ stage \in {"done", "refused", "miscounted"}
    /\ UNCHANGED vars

Next == TakeKeys \/ CheckSourceLoops \/ MatchLoop \/ FilterLoops \/ Ended

Spec == Init /\ [][Next]_vars

-----------------------------------------------------------------------------
TypeOK ==
    /\ stage \in {"keys", "match", "done", "refused", "miscounted"}
    /\ \A b \in DOMAIN dwUnqMap : b \in BinLoops /\ dwUnqMap[b] \subseteq DOMAIN pair.line
    /\ DOMAIN map_loop_binary \subseteq BinLoops
    /\ Range(map_loop_binary) \subseteq SrcLoops \cup {NoLoop}
    /\ DOMAIN loops_to_match \subseteq SrcLoops

\* The assertion "Not all binary loops were processed" never fails: each binary loop
\* is matched with one source loop or skipped, and never both, whatever debug
\* information says.  The mapping relies on this.
EachLoopOnce ==
    /\ TypeOK
    /\ stage # "miscounted"
    /\ stage = "done" =>
          /\ IsInjective(loops_to_match)
          /\ Range(loops_to_match) \cap skipped_b_loops = {}
          /\ Range(loops_to_match) \cup skipped_b_loops = BinLoops

-----------------------------------------------------------------------------
(* What a reader would say of lines and loops.                             *)

Within(s) ==
    LET inside[n \in SrcLoops] == {n} \cup UNION {inside[c] : c \in Children(pair.src, n)}
    IN  inside[s]

Extent(s) ==
    LET all == UNION {Range(pair.src.head[n]) \cup pair.src.rest[n] : n \in Within(s)}
    IN  Min(all) .. Max(all)

\* Loops begin in their headers, which are on one line; lines are those of one loop,
\* or of one loop and the loop around it.
WellFormatted ==
    /\ \A s \in SrcLoops : pair.src.head[s][2] = Min(Extent(s))
    /\ \A s, t \in SrcLoops :
          s # t /\ Extent(s) \cap Extent(t) # {} =>
              \/ t \in Within(s) /\ Min(Extent(s)) < Min(Extent(t))
              \/ s \in Within(t) /\ Min(Extent(t)) < Min(Extent(s))

At(line, s) == line \in Extent(s) /\ \A c \in Children(pair.src, s) : line \notin Extent(c)

\* The binary has the loops of the source.  Each has a key at a line of its own that only
\* the loops around it share; other keys it has are at its own lines, at lines of the
\* loop around it, outside of all loops, or also in a loop directly in it.
Traceable ==
    /\ pair.bin.parent = pair.src.parent
    /\ \A b \in BinLoops :
        /\ \E k \in OwnKeys(b) :
              At(pair.line[k], b) /\ \A c \in BinLoops : k \in OwnKeys(c) => b \in Within(c)
        /\ \A k \in OwnKeys(b) :
              \/ At(pair.line[k], b)
              \/ pair.bin.parent[b] # Root /\ At(pair.line[k], pair.bin.parent[b])
              \/ \A s \in SrcLoops : pair.line[k] \notin Extent(s)
              \/ \E c \in Children(pair.bin, b) : k \in OwnKeys(c)

\* Where debug information is that good, every loop is matched with its own, whatever
\* order the loops of one depth are taken in, and the function is not refused.
TraceableIsMatched ==
    WellFormatted /\ Traceable /\ pair.skip = {} =>
        /\ stage # "refused"
        /\ stage = "done" => loops_to_match = [s \in SrcLoops |-> s]
=============================================================================
