-------------------------------- MODULE Flow --------------------------------
(***************************************************************************)
(* The Flow class of libbincfg (src/libbincfg/src/flow/Flow.cpp) and the   *)
(* BasicBlock class it stores: the control flow graph of one function as   *)
(* the generator edits it.  The operators are pure: each takes a flow and  *)
(* returns the flow after the member function of the same name.            *)
(*                                                                         *)
(* A flow is a record                                                      *)
(*   blocks     m_bBlocks: entry address -> basic block                    *)
(*   edges      m_outEdges, and its mirror m_inEdges: pairs <<from, to>>   *)
(*              (addEdge drops duplicates, so a set stands for the         *)
(*              multimap)                                                  *)
(*   postEntry  m_postEntryBlock: the block control enters first           *)
(*   preExit    m_preExitBlocks: the blocks control leaves from            *)
(*   callLocs   m_funcCallLocations: addresses of call instructions        *)
(* A basic block is its sequence of address ranges <<first, last>> (the    *)
(* addresses of the first and the last instruction of a contiguous run),   *)
(* its type and the callees of its calls.  Block numbers (m_ID) only serve *)
(* the log and are left out.                                               *)
(***************************************************************************)
EXTENDS Sequences, FiniteSetsExt

AddrRange == Nat \X Nat

Block == [ranges  : Seq(AddrRange),
          type    : {"NORMAL", "CALL"},
          callees : SUBSET Nat]

\* The shape and the type of a flow.
IsFlow(f) ==
    /\ f \in [blocks : {f.blocks}, edges : SUBSET (Nat \X Nat), postEntry : Nat,
              preExit : SUBSET Nat, callLocs : SUBSET Nat]
    /\ f.blocks \in [DOMAIN f.blocks -> Block]
    /\ DOMAIN f.blocks \subseteq Nat

NewBlock(ranges, type) == [ranges |-> ranges, type |-> type, callees |-> {}]

\* What Flow::Flow leaves behind, with the entry marker already set.
EmptyFlow(entry) ==
    [blocks |-> << >>, edges |-> {}, postEntry |-> entry,
     preExit |-> {}, callLocs |-> {}]

Starts(f) == DOMAIN f.blocks

LastAddr(blk) == blk.ranges[Len(blk.ranges)][2]

Successors(f, b) == {e[2] : e \in {d \in f.edges : d[1] = b}}

Predecessors(f, b) == {e[1] : e \in {d \in f.edges : d[2] = b}}

-----------------------------------------------------------------------------
(* Blocks and edges.                                                       *)

PutBlock(f, b, blk) ==
    [f EXCEPT !.blocks =
        [x \in DOMAIN f.blocks \cup {b} |-> IF x = b THEN blk ELSE f.blocks[x]]]

\* Mutant: only the out-edges of a removed block go.
OutEdgesAvoiding(f, b) == {e \in f.edges : e[1] # b}

EdgesAvoiding(f, b) == {e \in f.edges : e[1] # b /\ e[2] # b}

\* An existing block is left alone; every other block starts as NORMAL.
AddNewContiguousBlock(f, first, last) ==
    IF first \in Starts(f) THEN f
    ELSE PutBlock(f, first, NewBlock(<< <<first, last>> >>, "NORMAL"))

AddEdges(f, new) == [f EXCEPT !.edges = @ \cup new]

\* removeBlock asserts that the entry marker has exactly one place to go.
MayRemove(f, b) == b = f.postEntry => Cardinality(Successors(f, b)) = 1

\* Mutant: the exit marker of a removed block stays.
RemoveBlockNotExit(f, b) ==
    [blocks    |-> [x \in Starts(f) \ {b} |-> f.blocks[x]],
     edges     |-> EdgesAvoiding(f, b),
     postEntry |-> f.postEntry,
     preExit   |-> f.preExit,
     callLocs  |-> f.callLocs]

\* Mutant: an entry marker on b moves whether the caller asks for it or not.
RemoveBlockMovingEntry(f, b) ==
    [blocks    |-> [x \in Starts(f) \ {b} |-> f.blocks[x]],
     edges     |-> EdgesAvoiding(f, b),
     postEntry |-> IF b = f.postEntry /\ Successors(f, b) # {}
                  THEN CHOOSE s \in Successors(f, b) : TRUE ELSE f.postEntry,
     preExit   |-> f.preExit \ {b},
     callLocs  |-> f.callLocs]

\* removeBlock without updateEntryMarker: the edges of b go with it.
RemoveBlock(f, b) ==
    [blocks    |-> [x \in Starts(f) \ {b} |-> f.blocks[x]],
     edges     |-> EdgesAvoiding(f, b),
     postEntry |-> f.postEntry,
     preExit   |-> f.preExit \ {b},
     callLocs  |-> f.callLocs]

\* removeBlock with updateEntryMarker: a marker on b moves to its successor.
RemoveBlockUpdatingEntry(f, b) ==
    [RemoveBlock(f, b) EXCEPT !.postEntry =
        IF b = f.postEntry THEN CHOOSE s \in Successors(f, b) : TRUE ELSE f.postEntry]

InsertBlockAddrRanges(f, b, ranges) ==
    [f EXCEPT !.blocks[b].ranges = @ \o ranges]

SetType(f, b, type) == [f EXCEPT !.blocks[b].type = type]

-----------------------------------------------------------------------------
(* Splitting.  trimBlock cuts a block in front of the instruction at t:    *)
(* the range that holds t is divided, and every later range is cut off     *)
(* with it.  The range hint only speeds the search up.                     *)

Holding(ranges, t) == {i \in DOMAIN ranges : ranges[i][1] <= t /\ t <= ranges[i][2]}

\* Mutant: the later ranges are lost.
CutOffOneRange(ranges, t) == << <<t, ranges[Min(Holding(ranges, t))][2]>> >>

CutOff(ranges, t) ==
    LET i == Min(Holding(ranges, t))
    IN  << <<t, ranges[i][2]>> >> \o SubSeq(ranges, i + 1, Len(ranges))

KeptRanges(ranges, t, insnSize) ==
    LET i == Min(Holding(ranges, t))
    IN  SubSeq(ranges, 1, i - 1)
        \o (IF ranges[i][1] < t THEN << <<ranges[i][1], t - insnSize>> >> ELSE << >>)

\* The early returns of splitBlock: a block already starts behind the
\* instruction, the instruction ends the block, nothing would be cut off.
MaySplit(f, b, insnAddr, insnSize) ==
    /\ insnAddr + insnSize \notin Starts(f)
    /\ insnAddr # LastAddr(f.blocks[b])
    /\ Holding(f.blocks[b].ranges, insnAddr + insnSize) # {}

\* The new block inherits the type, the exit marker and the out-edges of b,
\* and b falls through to it.  The entry address of b cannot change: the cut
\* is not at an existing block.
SplitBlock(f, b, insnAddr, insnSize) ==
    LET t    == insnAddr + insnSize
        old  == f.blocks[b].ranges
        kept == PutBlock([f EXCEPT !.blocks[b].ranges = KeptRanges(old, t, insnSize)],
                         t, NewBlock(CutOff(old, t), f.blocks[b].type))
    IN  [kept EXCEPT
            !.preExit = IF b \in @ THEN (@ \ {b}) \cup {t} ELSE @,
            !.edges   = {e \in @ : e[1] # b}
                        \cup {<<t, s>> : s \in Successors(f, b)}
                        \cup {<<b, t>>}]

\* Mutant: the first range instead of the last.
HasCallsInFirstRange(f, b) ==
    LET first == f.blocks[b].ranges[1]
    IN  \E c \in f.callLocs : first[1] <= c /\ c <= first[2]

\* hasCalls returns from its first iteration: it looks at the last range only.
HasCalls(f, b) ==
    LET ranges == f.blocks[b].ranges
        last   == ranges[Len(ranges)]
    IN  \E c \in f.callLocs : last[1] <= c /\ c <= last[2]
=============================================================================
