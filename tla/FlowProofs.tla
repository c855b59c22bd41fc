----------------------------- MODULE FlowProofs -----------------------------
(***************************************************************************)
(* The theorems of FlowGenerator and of BinaryControlFlow, for every set   *)
(* of well-formed programs.                                                *)
(*                                                                         *)
(* The inductive invariant of the generator comes in parts that rest on    *)
(* one another: what a pass is about to use exists; the blocks show the    *)
(* instructions they are made of; calls come to end their blocks; the      *)
(* function entry keeps its block, and no assertion fails.  With the       *)
(* invariant complete, FlowGenerator is shown to implement InsnGraph, at   *)
(* the start and step by step: tracing a block that is not covered         *)
(* explores a run, leaving the worklist finishes, and every other step is  *)
(* invisible.  At last, a finished flow is exported to a control flow that *)
(* shows the same program, and goes on showing it while straight paths are *)
(* contracted and useless nodes are pruned.                                *)
(*                                                                         *)
(* Before the parts come the lemmas: what the operators of Flow do to the  *)
(* type, the block set and the edges of a flow; instructions of well-      *)
(* formed programs; what can be reached from the entry of a function; and  *)
(* the flows whose blocks show the instructions they are made of, however  *)
(* they are cut.                                                           *)
(***************************************************************************)
EXTENDS BinaryControlFlowInvariants, FlowGraphTheorems, SequenceTheorems

-----------------------------------------------------------------------------
(* Blocks and edges.                                                       *)

\* A record with the five well-typed fields of a flow is a flow.
LEMMA RecordIsFlow ==
    ASSUME NEW blocks, blocks \in [DOMAIN blocks -> Block], DOMAIN blocks \subseteq Nat,
           NEW edges \in SUBSET (Nat \X Nat), NEW postEntry \in Nat,
           NEW preExit \in SUBSET Nat, NEW callLocs \in SUBSET Nat
    PROVE  IsFlow([blocks |-> blocks, edges |-> edges, postEntry |-> postEntry,
                   preExit |-> preExit, callLocs |-> callLocs])
BY DEF IsFlow

\* The fields of a flow have their types.
LEMMA FlowFields ==
    ASSUME NEW f, IsFlow(f)
    PROVE  /\ \A b \in Starts(f) : f.blocks[b] \in Block
           /\ Starts(f) \in SUBSET Nat
           /\ f.edges \in SUBSET (Nat \X Nat)
           /\ f.postEntry \in Nat
           /\ f.preExit \in SUBSET Nat
           /\ f.callLocs \in SUBSET Nat
BY DEF IsFlow, Starts

\* PutBlock adds or replaces one block and touches nothing else of the flow.
LEMMA PutBlockFlow ==
    ASSUME NEW f, IsFlow(f), NEW b \in Nat, NEW blk \in Block
    PROVE  LET g == PutBlock(f, b, blk)
           IN  /\ IsFlow(g)
               /\ Starts(g) = Starts(f) \cup {b}
               /\ g.blocks[b] = blk
               /\ \A x \in Starts(f) \ {b} : g.blocks[x] = f.blocks[x]
               /\ g.edges = f.edges
               /\ g.postEntry = f.postEntry
               /\ g.preExit = f.preExit
               /\ g.callLocs = f.callLocs
BY DEF IsFlow, PutBlock, Starts

\* A new block is a block (the constructor of BasicBlock).
LEMMA NewBlockType ==
    ASSUME NEW ranges \in Seq(AddrRange), NEW type \in {"NORMAL", "CALL"}
    PROVE  NewBlock(ranges, type) \in Block
BY DEF NewBlock, Block

\* addNewContiguousBlock leaves a flow whose blocks are the old ones and the new one.
LEMMA AddNewContiguousBlockFlow ==
    ASSUME NEW f, IsFlow(f), NEW first \in Nat, NEW last \in Nat
    PROVE  LET g == AddNewContiguousBlock(f, first, last)
           IN  /\ IsFlow(g)
               /\ Starts(g) = Starts(f) \cup {first}
               /\ g.edges = f.edges
               /\ g.postEntry = f.postEntry
               /\ g.preExit = f.preExit
               /\ g.callLocs = f.callLocs
<1>1. NewBlock(<< <<first, last>> >>, "NORMAL") \in Block
  <2>1. << <<first, last>> >> \in Seq(AddrRange)
    BY DEF AddrRange
  <2> QED  BY <2>1, NewBlockType
<1> QED  BY <1>1, PutBlockFlow DEF AddNewContiguousBlock

\* addNewContiguousBlock gives a new block its one range and leaves the others alone.
LEMMA AddNewContiguousBlockContent ==
    ASSUME NEW f, IsFlow(f), NEW first \in Nat, NEW last \in Nat, first \notin Starts(f)
    PROVE  LET g == AddNewContiguousBlock(f, first, last)
           IN  /\ g.blocks[first] = NewBlock(<< <<first, last>> >>, "NORMAL")
               /\ \A x \in Starts(f) : g.blocks[x] = f.blocks[x]
<1> DEFINE blk == NewBlock(<< <<first, last>> >>, "NORMAL")
<1>1. AddNewContiguousBlock(f, first, last) = PutBlock(f, first, blk)
  BY DEF AddNewContiguousBlock
<1> HIDE DEF blk
<1> QED  BY <1>1 DEF PutBlock, IsFlow, Starts, blk

\* addEdge leaves a flow with the same blocks and the edges united.
LEMMA AddEdgesFlow ==
    ASSUME NEW f, IsFlow(f), NEW new \in SUBSET (Nat \X Nat)
    PROVE  LET g == AddEdges(f, new)
           IN  /\ IsFlow(g)
               /\ Starts(g) = Starts(f)
               /\ g.blocks = f.blocks
               /\ g.edges = f.edges \cup new
               /\ g.postEntry = f.postEntry
               /\ g.preExit = f.preExit
               /\ g.callLocs = f.callLocs
BY DEF IsFlow, AddEdges, Starts

\* Successors and predecessors of a block are addresses.
LEMMA SuccessorsType ==
    ASSUME NEW f, IsFlow(f), NEW b
    PROVE  /\ Successors(f, b) \subseteq Nat
           /\ Predecessors(f, b) \subseteq Nat
           /\ \A s : s \in Successors(f, b) <=> <<b, s>> \in f.edges
           /\ \A s : s \in Predecessors(f, b) <=> <<s, b>> \in f.edges
BY DEF IsFlow, Successors, Predecessors

\* What removing a block leaves of the edges is a set of edges.
LEMMA EdgesAvoidingType ==
    ASSUME NEW f, IsFlow(f), NEW b
    PROVE  EdgesAvoiding(f, b) \in SUBSET (Nat \X Nat)
BY DEF IsFlow, EdgesAvoiding

\* The entry marker stays, possibly on no block.
LEMMA RemoveBlockFlow ==
    ASSUME NEW f, IsFlow(f), NEW b \in Nat
    PROVE  LET g == RemoveBlock(f, b)
           IN  /\ IsFlow(g)
               /\ Starts(g) = Starts(f) \ {b}
               /\ \A x \in Starts(g) : g.blocks[x] = f.blocks[x]
               /\ g.edges = EdgesAvoiding(f, b)
               /\ g.postEntry = f.postEntry
               /\ g.preExit = f.preExit \ {b}
               /\ g.callLocs = f.callLocs
<1> DEFINE blocks == [x \in Starts(f) \ {b} |-> f.blocks[x]]
<1>1. RemoveBlock(f, b) =
        [blocks |-> blocks, edges |-> EdgesAvoiding(f, b), postEntry |-> f.postEntry,
         preExit |-> f.preExit \ {b}, callLocs |-> f.callLocs]
  BY DEF RemoveBlock
<1>2. /\ blocks \in [DOMAIN blocks -> Block]
      /\ DOMAIN blocks = Starts(f) \ {b}
      /\ \A x \in DOMAIN blocks : blocks[x] = f.blocks[x]
  BY FlowFields
<1> HIDE DEF blocks
<1>3. IsFlow(RemoveBlock(f, b))
  BY <1>1, <1>2, EdgesAvoidingType, FlowFields, RecordIsFlow
<1> QED  BY <1>1, <1>2, <1>3 DEF Starts

\* The entry marker moves from the removed block to its successor.
LEMMA RemoveBlockUpdatingEntryFlow ==
    ASSUME NEW f, IsFlow(f), NEW b \in Nat, MayRemove(f, b)
    PROVE  LET g == RemoveBlockUpdatingEntry(f, b)
           IN  /\ IsFlow(g)
               /\ Starts(g) = Starts(f) \ {b}
               /\ \A x \in Starts(g) : g.blocks[x] = f.blocks[x]
               /\ g.edges = EdgesAvoiding(f, b)
               /\ b # f.postEntry => g.postEntry = f.postEntry
               /\ b = f.postEntry => g.postEntry \in Successors(f, b)
               /\ g.preExit = f.preExit \ {b}
               /\ g.callLocs = f.callLocs
<1>1. b = f.postEntry => Successors(f, b) # {}
  BY FS_EmptySet DEF MayRemove
<1>2. Successors(f, b) \subseteq Nat
  BY SuccessorsType
<1> DEFINE s == CHOOSE x \in Successors(f, b) : TRUE
<1>3. b = f.postEntry => s \in Successors(f, b)
  BY <1>1
<1> HIDE DEF s
<1>4. RemoveBlockUpdatingEntry(f, b) =
        [RemoveBlock(f, b) EXCEPT !.postEntry = IF b = f.postEntry THEN s ELSE f.postEntry]
  BY DEF RemoveBlockUpdatingEntry, s
<1>5. (IF b = f.postEntry THEN s ELSE f.postEntry) \in Nat
  BY <1>2, <1>3, FlowFields
<1> QED  BY <1>3, <1>4, <1>5, RemoveBlockFlow DEF IsFlow, Starts

\* insertBlockAddrRanges leaves a flow with the same blocks and markers.
LEMMA InsertBlockAddrRangesFlow ==
    ASSUME NEW f, IsFlow(f), NEW b \in Starts(f), NEW ranges \in Seq(AddrRange)
    PROVE  LET g == InsertBlockAddrRanges(f, b, ranges)
           IN  /\ IsFlow(g)
               /\ Starts(g) = Starts(f)
               /\ g.edges = f.edges
               /\ g.postEntry = f.postEntry
               /\ g.preExit = f.preExit
               /\ g.callLocs = f.callLocs
<1>1. f.blocks[b] \in Block
  BY DEF IsFlow, Starts
<1>2. f.blocks[b].ranges \o ranges \in Seq(AddrRange)
  BY <1>1, ConcatProperties DEF Block
<1>3. [f.blocks[b] EXCEPT !.ranges = @ \o ranges] \in Block
  BY <1>1, <1>2 DEF Block
<1> DEFINE blocks == [f.blocks EXCEPT ![b].ranges = @ \o ranges]
<1>4. /\ blocks \in [DOMAIN blocks -> Block]
      /\ DOMAIN blocks = DOMAIN f.blocks
  BY <1>3 DEF IsFlow, Starts
<1>5. InsertBlockAddrRanges(f, b, ranges) = [f EXCEPT !.blocks = blocks]
  BY DEF InsertBlockAddrRanges
<1> HIDE DEF blocks
<1> QED  BY <1>4, <1>5 DEF IsFlow, Starts

\* insertBlockAddrRanges appends to the ranges of one block and does nothing else.
LEMMA InsertBlockAddrRangesContent ==
    ASSUME NEW f, IsFlow(f), NEW b \in Starts(f), NEW ranges
    PROVE  LET g == InsertBlockAddrRanges(f, b, ranges)
           IN  /\ g.blocks[b] = [f.blocks[b] EXCEPT !.ranges = @ \o ranges]
               /\ \A x \in Starts(f) \ {b} : g.blocks[x] = f.blocks[x]
BY DEF InsertBlockAddrRanges, IsFlow, Starts

\* Setting the type of a block leaves a flow with the same blocks, ranges and markers.
LEMMA SetTypeFlow ==
    ASSUME NEW f, IsFlow(f), NEW b \in Starts(f), NEW type \in {"NORMAL", "CALL"}
    PROVE  LET g == SetType(f, b, type)
           IN  /\ IsFlow(g)
               /\ Starts(g) = Starts(f)
               /\ \A x \in Starts(f) : g.blocks[x].ranges = f.blocks[x].ranges
               /\ g.edges = f.edges
               /\ g.postEntry = f.postEntry
               /\ g.preExit = f.preExit
               /\ g.callLocs = f.callLocs
<1>1. f.blocks[b] \in Block
  BY DEF IsFlow, Starts
<1>2. [f.blocks[b] EXCEPT !.type = type] \in Block
  BY <1>1 DEF Block
<1>3. [f.blocks[b] EXCEPT !.type = type].ranges = f.blocks[b].ranges
  BY <1>1 DEF Block
<1> QED  BY <1>2, <1>3 DEF IsFlow, SetType, Starts

\* Setting the type of a block does nothing else.
LEMMA SetTypeContent ==
    ASSUME NEW f, IsFlow(f), NEW b \in Starts(f), NEW type
    PROVE  LET g == SetType(f, b, type)
           IN  /\ g.blocks[b] = [f.blocks[b] EXCEPT !.type = type]
               /\ \A x \in Starts(f) \ {b} : g.blocks[x] = f.blocks[x]
BY DEF SetType, IsFlow, Starts

-----------------------------------------------------------------------------
(* Splitting.                                                              *)

\* Both parts trimBlock makes of the ranges of a block are sequences of ranges.
LEMMA TrimType ==
    ASSUME NEW ranges \in Seq(AddrRange), NEW t \in Nat, NEW insnSize \in Nat,
           t - insnSize \in Nat, Holding(ranges, t) # {}
    PROVE  /\ CutOff(ranges, t) \in Seq(AddrRange)
           /\ KeptRanges(ranges, t, insnSize) \in Seq(AddrRange)
<1> DEFINE i == Min(Holding(ranges, t))
<1>1. i \in 1 .. Len(ranges)
  <2>1. Holding(ranges, t) \subseteq 1 .. Len(ranges)
    BY DEF Holding
  <2>2. Holding(ranges, t) \in SUBSET Nat
    BY <2>1
  <2> QED  BY <2>1, <2>2, MinOfNaturals
<1> HIDE DEF i
<1>2. ranges[i][1] \in Nat /\ ranges[i][2] \in Nat
  BY <1>1 DEF AddrRange
<1>3. SubSeq(ranges, i + 1, Len(ranges)) \in Seq(AddrRange)
  <2>1. \A k \in i + 1 .. Len(ranges) : ranges[k] \in AddrRange
    BY <1>1
  <2> QED  BY <1>1, <2>1, SubSeqProperties
<1>4. SubSeq(ranges, 1, i - 1) \in Seq(AddrRange)
  <2>1. \A k \in 1 .. i - 1 : ranges[k] \in AddrRange
    BY <1>1
  <2> QED  BY <1>1, <2>1, SubSeqProperties
<1>5. << <<t, ranges[i][2]>> >> \in Seq(AddrRange)
  BY <1>2 DEF AddrRange
<1>6. (IF ranges[i][1] < t THEN << <<ranges[i][1], t - insnSize>> >> ELSE << >>)
        \in Seq(AddrRange)
  <2>1. <<ranges[i][1], t - insnSize>> \in AddrRange
    BY <1>2 DEF AddrRange
  <2> QED  BY <2>1
<1>7. CutOff(ranges, t) \in Seq(AddrRange)
  BY <1>3, <1>5, ConcatProperties DEF CutOff, i
<1>8. KeptRanges(ranges, t, insnSize) \in Seq(AddrRange)
  BY <1>4, <1>6, ConcatProperties DEF KeptRanges, i
<1> QED  BY <1>7, <1>8

\* splitBlock returns a flow with one more block, behind the split; the new block takes
\* over the out-edges, the entry marker stays, and an exit marker appears nowhere but
\* on the new block.
LEMMA SplitBlockFlow ==
    ASSUME NEW f, IsFlow(f), NEW b \in Starts(f),
           NEW insnAddr \in Nat, NEW insnSize \in Nat, MaySplit(f, b, insnAddr, insnSize)
    PROVE  LET g == SplitBlock(f, b, insnAddr, insnSize)
               t == insnAddr + insnSize
           IN  /\ IsFlow(g)
               /\ t \notin Starts(f)
               /\ Starts(g) = Starts(f) \cup {t}
               /\ g.edges = {e \in f.edges : e[1] # b}
                            \cup {<<t, s>> : s \in Successors(f, b)} \cup {<<b, t>>}
               /\ g.postEntry = f.postEntry
               /\ g.preExit \subseteq f.preExit \cup {t}
               /\ g.callLocs = f.callLocs
<1> DEFINE t    == insnAddr + insnSize
           old  == f.blocks[b].ranges
           Kept == KeptRanges(old, t, insnSize)
           Rear == NewBlock(CutOff(old, t), f.blocks[b].type)
           half == [f EXCEPT !.blocks[b].ranges = Kept]
           kept == PutBlock(half, t, Rear)
           New  == {e \in f.edges : e[1] # b}
                   \cup {<<t, s>> : s \in Successors(f, b)} \cup {<<b, t>>}
           exit == IF b \in f.preExit THEN (f.preExit \ {b}) \cup {t} ELSE f.preExit
<1>1. /\ f.blocks[b] \in Block /\ b \in Nat /\ t \in Nat
      /\ old \in Seq(AddrRange) /\ f.blocks[b].type \in {"NORMAL", "CALL"}
  BY FlowFields DEF Block
<1>2. t \notin Starts(f) /\ Holding(old, t) # {}
  BY DEF MaySplit
<1>3. Kept \in Seq(AddrRange) /\ Rear \in Block
  BY <1>1, <1>2, TrimType, NewBlockType
<1>4. New \in SUBSET (Nat \X Nat)
  BY <1>1, FlowFields, SuccessorsType
<1>5. exit \in SUBSET Nat
  BY <1>1, FlowFields
<1> HIDE DEF Kept, Rear, New, exit
<1>6. /\ IsFlow(half) /\ Starts(half) = Starts(f)
      /\ half.edges = f.edges /\ half.preExit = f.preExit
      /\ half.postEntry = f.postEntry /\ half.callLocs = f.callLocs
  <2>1. [f.blocks[b] EXCEPT !.ranges = Kept] \in Block
    BY <1>1, <1>3 DEF Block
  <2> DEFINE blocks == [f.blocks EXCEPT ![b].ranges = Kept]
  <2>2. blocks \in [DOMAIN blocks -> Block] /\ DOMAIN blocks = DOMAIN f.blocks
    BY <2>1 DEF IsFlow, Starts
  <2>3. half = [f EXCEPT !.blocks = blocks]
    OBVIOUS
  <2> HIDE DEF blocks, half
  <2> QED  BY <2>2, <2>3 DEF IsFlow, Starts
<1> HIDE DEF half
<1>7. /\ IsFlow(kept) /\ Starts(kept) = Starts(f) \cup {t}
      /\ kept.edges = f.edges /\ kept.preExit = f.preExit
      /\ kept.postEntry = f.postEntry /\ kept.callLocs = f.callLocs
  <2>1. IsFlow(half) /\ t \in Nat /\ Rear \in Block
    BY <1>1, <1>3, <1>6
  <2> HIDE DEF t
  <2>2. /\ IsFlow(kept) /\ Starts(kept) = Starts(half) \cup {t}
        /\ kept.edges = half.edges /\ kept.preExit = half.preExit
        /\ kept.postEntry = half.postEntry /\ kept.callLocs = half.callLocs
    BY <2>1, PutBlockFlow
  <2> HIDE DEF kept
  <2> QED  BY <2>2, <1>6
<1> HIDE DEF kept
<1>8. SplitBlock(f, b, insnAddr, insnSize) =
        [kept EXCEPT !.preExit = exit, !.edges = New]
  BY <1>7 DEF SplitBlock, kept, half, Kept, Rear, New, exit
<1>9. exit \subseteq f.preExit \cup {t}
  BY DEF exit
<1> QED  BY <1>2, <1>4, <1>5, <1>7, <1>8, <1>9 DEF IsFlow, Starts, New

\* The new block of splitBlock takes over what is cut off, the type and the exit marker;
\* the old one keeps the rest; the other blocks are left alone.
SplitsContent(f, g, b, t, size) ==
    /\ g.blocks[b].ranges = KeptRanges(f.blocks[b].ranges, t, size)
    /\ g.blocks[b].type = f.blocks[b].type
    /\ g.blocks[b].callees = f.blocks[b].callees
    /\ g.blocks[t] = NewBlock(CutOff(f.blocks[b].ranges, t), f.blocks[b].type)
    /\ \A x \in Starts(f) \ {b} : g.blocks[x] = f.blocks[x]
    /\ \A x : x \in g.preExit <=> \/ x \in f.preExit /\ x # b
                                  \/ x = t /\ b \in f.preExit

LEMMA SplitBlockContent ==
    ASSUME NEW f, IsFlow(f), NEW b \in Starts(f),
           NEW insnAddr \in Nat, NEW insnSize \in Nat, insnAddr + insnSize \notin Starts(f)
    PROVE  SplitsContent(f, SplitBlock(f, b, insnAddr, insnSize), b, insnAddr + insnSize, insnSize)
<1> DEFINE t     == insnAddr + insnSize
           Kept  == KeptRanges(f.blocks[b].ranges, t, insnSize)
           Front == [f.blocks[b] EXCEPT !.ranges = Kept]
           Rear  == NewBlock(CutOff(f.blocks[b].ranges, t), f.blocks[b].type)
           half  == [f EXCEPT !.blocks[b].ranges = Kept]
           kept  == PutBlock(half, t, Rear)
           exit  == IF b \in f.preExit THEN (f.preExit \ {b}) \cup {t} ELSE f.preExit
           New   == {e \in f.edges : e[1] # b}
                    \cup {<<t, s>> : s \in Successors(f, b)} \cup {<<b, t>>}
           g     == SplitBlock(f, b, insnAddr, insnSize)
<1> HIDE DEF Kept, Rear, New
<1>1. half = [f EXCEPT !.blocks = [f.blocks EXCEPT ![b] = Front]]
  BY DEF IsFlow
<1>2. /\ half.blocks = [f.blocks EXCEPT ![b] = Front] /\ half.preExit = f.preExit
      /\ half.edges = f.edges
      /\ half = [blocks |-> half.blocks, edges |-> f.edges, postEntry |-> f.postEntry,
                 preExit |-> f.preExit, callLocs |-> f.callLocs]
  BY <1>1 DEF IsFlow
<1>11. Front.ranges = Kept /\ Front.type = f.blocks[b].type /\ Front.callees = f.blocks[b].callees
  <2>1. f.blocks[b] \in Block
    BY FlowFields
  <2> QED  BY <2>1 DEF Block
<1> HIDE DEF Front
<1>3. DOMAIN half.blocks = Starts(f)
  BY <1>2 DEF IsFlow, Starts
<1>4. /\ half.blocks[b] = Front
      /\ \A x \in Starts(f) \ {b} : half.blocks[x] = f.blocks[x]
  BY <1>2 DEF IsFlow, Starts
<1> HIDE DEF half
<1>5. kept = [half EXCEPT !.blocks = [x \in Starts(f) \cup {t} |->
                                        IF x = t THEN Rear ELSE half.blocks[x]]]
  BY <1>3 DEF PutBlock
<1>6. /\ kept.blocks = [x \in Starts(f) \cup {t} |-> IF x = t THEN Rear ELSE half.blocks[x]]
      /\ kept.preExit = f.preExit /\ kept.edges = f.edges
      /\ kept = [blocks |-> kept.blocks, edges |-> f.edges, postEntry |-> f.postEntry,
                 preExit |-> f.preExit, callLocs |-> f.callLocs]
  BY <1>2, <1>5
<1>7. /\ kept.blocks[t] = Rear
      /\ \A x \in Starts(f) : kept.blocks[x] = half.blocks[x]
  BY <1>6
<1> HIDE DEF kept, exit
<1>8. g = [kept EXCEPT !.preExit = exit, !.edges = New]
  BY <1>6 DEF SplitBlock, kept, half, Kept, Rear, New, exit
<1>9. g.blocks = kept.blocks /\ g.preExit = exit
  BY <1>6, <1>8
<1> HIDE DEF g
<1>10. /\ g.blocks[b] = Front /\ g.blocks[t] = Rear
       /\ \A x \in Starts(f) \ {b} : g.blocks[x] = f.blocks[x]
  BY <1>4, <1>7, <1>9
<1>12. /\ g.blocks[b].ranges = Kept /\ g.blocks[b].type = f.blocks[b].type
       /\ g.blocks[b].callees = f.blocks[b].callees
  BY <1>10, <1>11
<1>13. \A x : x \in g.preExit <=> \/ x \in f.preExit /\ x # b
                                  \/ x = t /\ b \in f.preExit
  BY <1>9 DEF exit
<1> QED  BY <1>10, <1>12, <1>13 DEF g, Rear, Kept, SplitsContent, t

-----------------------------------------------------------------------------
(* Facts about well-formed programs.                                       *)

\* The assumption on Programs, conjunct by conjunct.
LEMMA ProgramFacts ==
    ASSUME NEW p \in Programs
    PROVE  /\ Addresses(p) \in SUBSET Nat
           /\ IsFiniteSet(Addresses(p))
           /\ p.insn \in [Addresses(p) -> Instruction]
           /\ \A a, b \in Addresses(p) : a < b => Following(p, a) <= b
           /\ \A a \in Addresses(p) : Cardinality(Addresses(p)) < a
BY ProgramsWellFormed DEF WellFormed

\* The chosen set of block starts is closed: the entry is in it, and so are all targets.
LEMMA CodeFacts ==
    ASSUME NEW p \in Programs
    PROVE  Code(p) \in SUBSET Addresses(p) /\ ClosedCode(p, Code(p))
<1>1. \E starts \in SUBSET Addresses(p) : ClosedCode(p, starts)
  BY ProgramsWellFormed DEF WellFormed
<1> QED  BY <1>1 DEF Code

\* The instruction at a decoded address has its type.
LEMMA InstructionFacts ==
    ASSUME NEW p \in Programs, NEW a \in Addresses(p)
    PROVE  /\ p.insn[a].kind \in Kinds
           /\ p.insn[a].size \in Nat \ {0}
           /\ p.insn[a].target \in Nat
           /\ Following(p, a) \in Nat
BY ProgramFacts DEF Instruction, Following

\* The end of a block that starts at a candidate is decoded, and everything it
\* pushes is a candidate again.
LEMMA BlockEndFacts ==
    ASSUME NEW p \in Programs, NEW a \in Code(p)
    PROVE  LET last == Min(BlockEnds(p, a))
           IN  /\ last \in Addresses(p)
               /\ a <= last
               /\ TargetSet(p, last) \subseteq Code(p)
               /\ Targets(p, last) \in Seq(Code(p))
<1> DEFINE last == Min(BlockEnds(p, a))
<1>1. BlockEnds(p, a) # {} /\ TargetSet(p, last) \subseteq Code(p)
  BY CodeFacts DEF ClosedCode
<1>2. BlockEnds(p, a) \in SUBSET Nat /\ BlockEnds(p, a) \subseteq Addresses(p)
  BY ProgramFacts DEF BlockEnds
<1>3. last \in BlockEnds(p, a)
  BY <1>1, <1>2, MinOfNaturals
<1> HIDE DEF last
<1>4. last \in Addresses(p) /\ a <= last
  BY <1>3 DEF BlockEnds
<1>5. Targets(p, last) \in Seq(Code(p))
  <2> DEFINE ts == Targets(p, last)
  <2>1. \A i \in DOMAIN ts : ts[i] \in Code(p)
    BY <1>1 DEF TargetSet
  <2>2. \/ ts = <<Following(p, last), Following(p, Following(p, last))>>
        \/ ts = <<p.insn[last].target, Following(p, last)>>
        \/ ts = <<p.insn[last].target>>
        \/ ts = << >>
    BY DEF Targets
  <2> HIDE DEF ts
  <2>3. \E x, y : ts = <<x, y>> \/ ts = <<x>> \/ ts = << >>
    BY <2>2
  <2>4. PICK x, y : ts = <<x, y>> \/ ts = <<x>> \/ ts = << >>
    BY <2>3
  <2>5. CASE ts = <<x, y>>
    <3>1. DOMAIN ts = 1 .. 2 /\ ts[1] = x /\ ts[2] = y
      BY <2>5
    <3>2. x \in Code(p) /\ y \in Code(p)
      BY <2>1, <3>1
    <3> QED  BY <2>5, <3>2 DEF ts
  <2>6. CASE ts = <<x>>
    <3>1. DOMAIN ts = 1 .. 1 /\ ts[1] = x
      BY <2>6
    <3>2. x \in Code(p)
      BY <2>1, <3>1
    <3> QED  BY <2>6, <3>2 DEF ts
  <2>7. CASE ts = << >>
    BY <2>7 DEF ts
  <2> QED  BY <2>4, <2>5, <2>6, <2>7
<1> QED  BY <1>1, <1>4, <1>5 DEF last

-----------------------------------------------------------------------------
(* Straight runs of instructions.                                          *)

\* An instruction that is not the last of a straight run leads to the next one, which
\* is in the run.
LEMMA StraightStep ==
    ASSUME NEW p \in Programs, NEW range, Straight(p, range),
           NEW a \in InsnsIn(p, range), a # range[2]
    PROVE  /\ a \in Nat /\ Following(p, a) \in InsnsIn(p, range) /\ a < Following(p, a)
           /\ GoesTo(p, a) = {Following(p, a)}
           /\ ~EndsBlock(p, a)
           /\ \A x \in Addresses(p) : a < x => Following(p, a) <= x
<1>1. /\ a \in Addresses(p) /\ a \in Nat /\ range[1] \in Nat /\ range[2] \in Nat
      /\ range[1] <= a /\ a <= range[2] /\ range[2] \in Addresses(p)
  BY ProgramFacts DEF Straight, InsnsIn
<1>2. ~EndsBlock(p, a) /\ Following(p, a) \in Addresses(p)
  BY DEF Straight
<1>3. \A x \in Addresses(p) : a < x => Following(p, a) <= x
  BY <1>1, ProgramFacts
<1>4. a < Following(p, a) /\ Following(p, a) \in Nat
  <2>1. p.insn[a].size \in Nat \ {0}
    BY <1>1, InstructionFacts
  <2> QED  BY <1>1, <2>1 DEF Following
<1>5. Following(p, a) <= range[2]
  BY <1>1, <1>3
<1> QED  BY <1>1, <1>2, <1>3, <1>4, <1>5 DEF InsnsIn, GoesTo

\* The flow along a straight run is what its instructions but the last do.
LEMMA StraightArrows ==
    ASSUME NEW p \in Programs, NEW range, Straight(p, range)
    PROVE  Along(p, range) = ProgramArrows(p, InsnsIn(p, range) \ {range[2]})
<1>1. InsnsIn(p, range) \subseteq Nat /\ range[2] \in Nat
  BY ProgramFacts DEF InsnsIn, Straight
<1>2. ASSUME NEW e \in Along(p, range)
      PROVE  e \in ProgramArrows(p, InsnsIn(p, range) \ {range[2]})
  <2>1. /\ e \in InsnsIn(p, range) \X InsnsIn(p, range) /\ e[1] < e[2]
        /\ \A a \in InsnsIn(p, range) : ~(e[1] < a /\ a < e[2])
    BY DEF Along
  <2>2. e[1] \in InsnsIn(p, range) /\ e[2] \in InsnsIn(p, range) /\ e = <<e[1], e[2]>>
    BY <2>1
  <2>3. e[1] # range[2]
    BY <1>1, <2>1, <2>2 DEF InsnsIn
  <2>4. e[2] = Following(p, e[1])
    <3>1. Following(p, e[1]) <= e[2]
      BY <2>1, <2>2, <2>3, StraightStep DEF InsnsIn
    <3>2. Following(p, e[1]) \in InsnsIn(p, range) /\ e[1] < Following(p, e[1])
      BY <2>2, <2>3, StraightStep
    <3> QED  BY <1>1, <2>1, <2>2, <3>1, <3>2
  <2>5. e[2] \in GoesTo(p, e[1])
    BY <2>2, <2>3, <2>4, StraightStep
  <2> QED  BY <2>2, <2>3, <2>5 DEF ProgramArrows
<1>3. ASSUME NEW a \in InsnsIn(p, range) \ {range[2]}, NEW s \in GoesTo(p, a)
      PROVE  <<a, s>> \in Along(p, range)
  <2>1. /\ s = Following(p, a) /\ a < s /\ s \in InsnsIn(p, range)
        /\ \A x \in InsnsIn(p, range) : ~(a < x /\ x < s)
    BY <1>1, StraightStep DEF InsnsIn
  <2> DEFINE e == <<a, s>>
  <2>2. e \in InsnsIn(p, range) \X InsnsIn(p, range) /\ e[1] = a /\ e[2] = s
    BY <2>1
  <2> HIDE DEF e
  <2>3. e \in Along(p, range)
    BY <2>1, <2>2 DEF Along
  <2> QED  BY <2>3 DEF e
<1>4. ProgramArrows(p, InsnsIn(p, range) \ {range[2]}) \subseteq Along(p, range)
  BY <1>3 DEF ProgramArrows
<1> QED  BY <1>2, <1>4

\* A straight run can be cut in front of every instruction but its first.
LEMMA StraightCut ==
    ASSUME NEW p \in Programs, NEW first, NEW last, Straight(p, <<first, last>>),
           NEW a \in InsnsIn(p, <<first, last>>), a # last
    PROVE  LET next == Following(p, a)
           IN  /\ Straight(p, <<first, a>>) /\ Straight(p, <<next, last>>)
               /\ InsnsIn(p, <<first, last>>)
                    = InsnsIn(p, <<first, a>>) \cup InsnsIn(p, <<next, last>>)
<1> DEFINE next == Following(p, a)
           range == <<first, last>>
           left == <<first, a>>
           right == <<next, last>>
<1>1. /\ range[1] = first /\ range[2] = last /\ left[1] = first /\ left[2] = a
      /\ right[1] = next /\ right[2] = last
  OBVIOUS
<1>2. /\ first \in Addresses(p) /\ last \in Addresses(p)
      /\ first <= last /\ a \in Addresses(p) /\ first <= a /\ a <= last
      /\ \A x \in Addresses(p) : x \in Nat
  BY <1>1, ProgramFacts DEF Straight, InsnsIn
<1>3. /\ next \in Addresses(p) /\ first <= next /\ next <= last /\ a < next
      /\ \A x \in Addresses(p) : a < x => next <= x
  BY <1>1, <1>2, StraightStep DEF InsnsIn
<1>4. \A x \in Addresses(p) : first <= x /\ x <= last /\ x # last =>
         ~EndsBlock(p, x) /\ Following(p, x) \in Addresses(p)
  BY <1>1 DEF Straight, InsnsIn
<1> HIDE DEF next, range, left, right
<1>5. \A x : /\ x \in InsnsIn(p, range) <=> x \in Addresses(p) /\ first <= x /\ x <= last
             /\ x \in InsnsIn(p, left) <=> x \in Addresses(p) /\ first <= x /\ x <= a
             /\ x \in InsnsIn(p, right) <=> x \in Addresses(p) /\ next <= x /\ x <= last
  BY <1>1 DEF InsnsIn
<1>6. InsnsIn(p, range) = InsnsIn(p, left) \cup InsnsIn(p, right)
  BY <1>2, <1>3, <1>5
<1>7. \A x : /\ x \in InsnsIn(p, left) \ {a} =>
                  x \in Addresses(p) /\ first <= x /\ x <= last /\ x # last
             /\ x \in InsnsIn(p, right) \ {last} =>
                  x \in Addresses(p) /\ first <= x /\ x <= last /\ x # last
  BY <1>2, <1>3, <1>5
<1>8. Straight(p, left)
  BY <1>1, <1>2, <1>4, <1>7 DEF Straight
<1>9. Straight(p, right)
  BY <1>1, <1>2, <1>3, <1>4, <1>7 DEF Straight
<1> QED  BY <1>6, <1>8, <1>9 DEF next, range, left, right

\* Every instruction of a straight run but the first has a last one in front of it,
\* which leads to it.
LEMMA StraightBefore ==
    ASSUME NEW p \in Programs, NEW range, Straight(p, range),
           NEW next \in InsnsIn(p, range), next # range[1]
    PROVE  LET m == Max({a \in Addresses(p) : a < next})
           IN  m \in InsnsIn(p, range) /\ m < next /\ Following(p, m) = next
<1> DEFINE before == {a \in Addresses(p) : a < next}
           m == Max(before)
<1>1. /\ next \in Addresses(p) /\ range[1] \in Addresses(p) /\ range[2] \in Addresses(p)
      /\ range[1] < next /\ next <= range[2]
      /\ \A x \in Addresses(p) : x \in Nat
  BY ProgramFacts DEF Straight, InsnsIn
<1>2. /\ before \in SUBSET Nat /\ before # {} /\ next \in Nat /\ \A x \in before : x <= next
      /\ range[1] \in before
  BY <1>1
<1>3. m \in before /\ \A x \in before : x <= m
  BY <1>2, MaxOfNaturals
<1>4. m \in Addresses(p) /\ m < next /\ range[1] <= m
  BY <1>2, <1>3
<1> HIDE DEF m
<1>5. m \in InsnsIn(p, range) /\ m # range[2]
  BY <1>1, <1>4 DEF InsnsIn
<1>6. /\ Following(p, m) \in Addresses(p) /\ m < Following(p, m) /\ Following(p, m) <= next
  BY <1>1, <1>4, <1>5, StraightStep DEF InsnsIn
<1>7. ~(Following(p, m) < next)
  BY <1>1, <1>3, <1>4, <1>6
<1> QED  BY <1>1, <1>4, <1>5, <1>6, <1>7 DEF m

-----------------------------------------------------------------------------
(* What can be reached from the function entry.                            *)

\* The straight run a candidate is traced to.
RunFrom(p, a) == <<a, Min(BlockEnds(p, a))>>

\* All the instructions in the runs of the candidates.
Territory(p) == UNION {InsnsIn(p, RunFrom(p, a)) : a \in Code(p)}

\* A candidate is traced to a straight run that ends where a block ends.
LEMMA RunIsStraight ==
    ASSUME NEW p \in Programs, NEW a \in Code(p)
    PROVE  LET last == Min(BlockEnds(p, a))
           IN  /\ Straight(p, <<a, last>>)
               /\ EndsBlock(p, last) /\ GoesTo(p, last) \subseteq Code(p)
               /\ a \in InsnsIn(p, <<a, last>>) /\ last \in InsnsIn(p, <<a, last>>)
<1> DEFINE last == Min(BlockEnds(p, a))
           range == <<a, last>>
<1>1. BlockEnds(p, a) \in SUBSET Nat /\ BlockEnds(p, a) # {}
  BY CodeFacts, ProgramFacts DEF BlockEnds, ClosedCode
<1>2. last \in BlockEnds(p, a) /\ \A x \in BlockEnds(p, a) : last <= x
  BY <1>1, MinOfNaturals
<1>3. /\ \A i \in Addresses(p) : a <= i /\ i < last => Following(p, i) \in Addresses(p)
      /\ TargetSet(p, last) \subseteq Code(p)
  BY CodeFacts DEF ClosedCode
<1> HIDE DEF last
<1>4. /\ a \in Addresses(p) /\ last \in Addresses(p) /\ a <= last /\ EndsBlock(p, last)
      /\ \A x \in Addresses(p) : x \in Nat
  BY <1>2, CodeFacts, ProgramFacts DEF BlockEnds
<1>5. range[1] = a /\ range[2] = last
  OBVIOUS
<1> HIDE DEF range
<1>6. ASSUME NEW x \in InsnsIn(p, range) \ {range[2]}
      PROVE  ~EndsBlock(p, x) /\ Following(p, x) \in Addresses(p)
  <2>1. x \in Addresses(p) /\ a <= x /\ x < last
    BY <1>4, <1>5 DEF InsnsIn
  <2>2. x \notin BlockEnds(p, a)
    BY <1>2, <1>4, <2>1
  <2> QED  BY <1>3, <2>1, <2>2 DEF BlockEnds
<1>7. Straight(p, range)
  BY <1>4, <1>5, <1>6 DEF Straight
<1>8. a \in InsnsIn(p, range) /\ last \in InsnsIn(p, range)
  BY <1>4, <1>5 DEF InsnsIn
<1>9. GoesTo(p, last) \subseteq Code(p)
  BY <1>3, <1>4 DEF GoesTo
<1> QED  BY <1>4, <1>7, <1>8, <1>9 DEF range, last

\* Control never leaves the runs of the candidates.
LEMMA TerritoryFacts ==
    ASSUME NEW p \in Programs
    PROVE  /\ Territory(p) \subseteq Addresses(p)
           /\ p.entry \in Territory(p)
           /\ \A a \in Territory(p) : GoesTo(p, a) \subseteq Territory(p)
<1>1. Code(p) \subseteq Territory(p) /\ p.entry \in Code(p)
  BY RunIsStraight, CodeFacts DEF Territory, RunFrom, ClosedCode
<1>2. ASSUME NEW a \in Territory(p) PROVE GoesTo(p, a) \subseteq Territory(p)
  <2>1. PICK c \in Code(p) : a \in InsnsIn(p, RunFrom(p, c))
    BY DEF Territory
  <2> DEFINE range == RunFrom(p, c)
  <2>2. /\ Straight(p, range) /\ GoesTo(p, range[2]) \subseteq Code(p)
    BY RunIsStraight DEF RunFrom
  <2>3. CASE a = range[2]
    BY <1>1, <2>2, <2>3
  <2>4. CASE a # range[2]
    <3> HIDE DEF range
    <3>1. a \in InsnsIn(p, range)
      BY <2>1 DEF range
    <3>2. GoesTo(p, a) = {Following(p, a)} /\ Following(p, a) \in InsnsIn(p, range)
      BY <2>2, <2>4, <3>1, StraightStep
    <3> QED  BY <3>2 DEF Territory, range
  <2> QED  BY <2>3, <2>4
<1>3. Territory(p) \subseteq Addresses(p)
  BY DEF Territory, InsnsIn
<1> QED  BY <1>1, <1>2, <1>3

\* What can be reached is the least set of instructions that holds the entry and
\* everything control goes to from its members.
LEMMA ReachableCodeFacts ==
    ASSUME NEW p \in Programs
    PROVE  /\ Reachable(p) \subseteq Addresses(p)
           /\ p.entry \in Reachable(p)
           /\ \A a \in Reachable(p) : GoesTo(p, a) \subseteq Reachable(p)
           /\ \A T : /\ p.entry \in T
                     /\ \A a \in T : GoesTo(p, a) \subseteq T
                     => Reachable(p) \subseteq T
<1> DEFINE All == Territory(p)
           Grown(S) == S \cup UNION {GoesTo(p, a) : a \in S}
           add == [S \in SUBSET All |-> Grown(S)]
           within[n \in Nat] ==
              IF n = 0 THEN {p.entry}
              ELSE LET less == within[n - 1]
                   IN  less \cup UNION {GoesTo(p, a) : a \in less}
           count == Cardinality(Addresses(p))
<1>1. Reachable(p) = within[count]
  BY DEF Reachable
<1>2. /\ All \subseteq Addresses(p) /\ p.entry \in All /\ IsFiniteSet(All)
      /\ count \in Nat /\ Cardinality(All) <= count
  BY TerritoryFacts, ProgramFacts, FS_Subset, FS_CardinalityType
<1>3. OnlyAdds(add, All)
  <2>1. ASSUME NEW S \in SUBSET All PROVE Grown(S) \subseteq All
    BY TerritoryFacts
  <2> QED  BY <2>1 DEF OnlyAdds, IsMap
<1>4. PICK g : IsIteration(g, {p.entry}, add, SUBSET All)
  <2>1. {p.entry} \in SUBSET All /\ IsMap(add, SUBSET All)
    BY <1>2, <1>3 DEF OnlyAdds
  <2> HIDE DEF add, All, within
  <2> QED  BY <2>1, IterationExists
<1> DEFINE MainPart(h) == [n \in Nat |->
              IF n = 0 THEN {p.entry}
              ELSE LET less == h[n - 1]
                   IN  less \cup UNION {GoesTo(p, a) : a \in less}]
<1>5. g = MainPart(g)
  <2>1. ASSUME NEW n \in Nat \ {0} PROVE g[n] = Grown(g[n - 1])
    <3>1. n - 1 \in Nat /\ (n - 1) + 1 = n
      OBVIOUS
    <3>2. g[n] = add[g[n - 1]] /\ g[n - 1] \in SUBSET All
      BY <1>4, <3>1 DEF IsIteration
    <3> QED  BY <3>2
  <2> HIDE DEF All
  <2> QED  BY <1>4, <2>1 DEF IsIteration
<1>6. within = MainPart(within)
  BY <1>5
<1> HIDE DEF within
<1>7. within[0] = {p.entry} /\ \A n \in Nat : within[n + 1] = Grown(within[n])
  <2>1. within[0] = {p.entry}
    BY <1>6
  <2>2. ASSUME NEW n \in Nat PROVE within[n + 1] = Grown(within[n])
    <3>1. n + 1 \in Nat /\ n + 1 # 0 /\ (n + 1) - 1 = n
      OBVIOUS
    <3> QED  BY <1>6, <3>1
  <2> QED  BY <2>1, <2>2
<1>8. \A n \in Nat : within[n] \in SUBSET All
  <2> DEFINE S == {n \in Nat : within[n] \in SUBSET All}
  <2>1. 0 \in S
    BY <1>2, <1>7
  <2>2. ASSUME NEW n \in S PROVE n + 1 \in S
    <3>1. Grown(within[n]) = add[within[n]] /\ add[within[n]] \in SUBSET All
      BY <1>3 DEF OnlyAdds, IsMap
    <3> HIDE DEF Grown, add
    <3> QED  BY <1>7, <3>1
  <2>3. S \in SUBSET Nat
    OBVIOUS
  <2> HIDE DEF S
  <2>4. S = Nat
    BY <2>1, <2>2, <2>3, NaturalsByInduction
  <2> QED  BY <2>4 DEF S
<1>9. IsIteration(within, {p.entry}, add, SUBSET All)
  <2>1. within \in [Nat -> SUBSET All]
    BY <1>6, <1>8
  <2>2. \A n \in Nat : within[n + 1] = add[within[n]]
    BY <1>7, <1>8
  <2> QED  BY <1>7, <2>1, <2>2 DEF IsIteration
<1>10. IsClosure(within[count], {p.entry}, add, All)
  <2>1. IsFiniteSet(All) /\ count \in Nat /\ Cardinality(All) <= count
    BY <1>2
  <2> HIDE DEF add, All, count
  <2> QED  BY <1>3, <1>9, <2>1, IterationCloses
<1>11. /\ Reachable(p) \subseteq Addresses(p) /\ p.entry \in Reachable(p)
       /\ Grown(Reachable(p)) = Reachable(p)
  BY <1>1, <1>2, <1>10 DEF IsClosure
<1>12. ASSUME NEW T, p.entry \in T, \A a \in T : GoesTo(p, a) \subseteq T
       PROVE  Reachable(p) \subseteq T
  <2>1. T \cap All \in SUBSET All /\ {p.entry} \subseteq T \cap All
    BY <1>2, <1>12
  <2>2. ASSUME NEW S \in SUBSET (T \cap All) PROVE add[S] \subseteq T \cap All
    <3>1. add[S] = Grown(S) /\ add[S] \subseteq All
      BY <1>3 DEF OnlyAdds, IsMap
    <3>2. Grown(S) \subseteq T
      BY <1>12
    <3> QED  BY <3>1, <3>2
  <2>3. within[count] \subseteq T \cap All
    BY <1>10, <2>1, <2>2 DEF IsClosure
  <2> QED  BY <1>1, <2>3
<1>13. \A a \in Reachable(p) : GoesTo(p, a) \subseteq Reachable(p)
  BY <1>11
<1> QED  BY <1>11, <1>12, <1>13

\* From the first instruction of a straight run all of them are reached.
LEMMA ReachedAlong ==
    ASSUME NEW p \in Programs, NEW range, Straight(p, range), range[1] \in Reachable(p)
    PROVE  InsnsIn(p, range) \subseteq Reachable(p)
<1> DEFINE Missed == InsnsIn(p, range) \ Reachable(p)
           m == Min(Missed)
           before == Max({a \in Addresses(p) : a < m})
<1>1. SUFFICES ASSUME Missed # {} PROVE FALSE
  OBVIOUS
<1>2. Missed \in SUBSET Nat
  BY ProgramFacts DEF InsnsIn
<1>3. m \in Missed /\ \A x \in Missed : m <= x
  BY <1>1, <1>2, MinOfNaturals
<1> HIDE DEF m
<1>4. before \in InsnsIn(p, range) /\ before < m /\ Following(p, before) = m
  BY <1>3, StraightBefore
<1> HIDE DEF before
<1>5. before \in Reachable(p)
  BY <1>2, <1>3, <1>4, ProgramFacts DEF InsnsIn
<1>6. before # range[2]
  BY <1>2, <1>3, <1>4, ProgramFacts DEF InsnsIn
<1>7. m \in GoesTo(p, before)
  BY <1>4, <1>6, StraightStep
<1> QED  BY <1>3, <1>5, <1>7, ReachableCodeFacts

-----------------------------------------------------------------------------
(* Flows whose blocks show the instructions they are made of.              *)

\* Every block of f fits its instructions, and every edge leaves a block.
Fits(p, f) ==
    /\ IsFlow(f)
    /\ \A b \in Starts(f) : BlockFits(p, f, b)
    /\ \A e \in f.edges : e[1] \in Starts(f)

\* An instruction is covered if it is in a range of a block.
LEMMA CoveredFacts ==
    ASSUME NEW p, NEW f
    PROVE  \A a : a \in Covered(p, f) <=>
              \E b \in Starts(f) : \E i \in DOMAIN f.blocks[b].ranges :
                 a \in InsnsIn(p, f.blocks[b].ranges[i])
BY DEF Covered

\* The last range of a fitting block, and its first.
LEMMA BlockFacts ==
    ASSUME NEW p \in Programs, NEW f, Fits(p, f), NEW b \in Starts(f)
    PROVE  LET r == f.blocks[b].ranges
           IN  /\ r \in Seq(AddrRange) /\ Len(r) \in DOMAIN r /\ 1 \in DOMAIN r
               /\ DOMAIN r = 1 .. Len(r) /\ Len(r) \in Nat \ {0}
               /\ \A i \in DOMAIN r : Straight(p, r[i])
               /\ r[1][1] = b /\ LastAddr(f.blocks[b]) = r[Len(r)][2]
               /\ b \in Covered(p, f) /\ LastAddr(f.blocks[b]) \in Addresses(p)
               /\ b \in Addresses(p)
               /\ \A s : <<b, s>> \in f.edges <=> s \in GoesTo(p, LastAddr(f.blocks[b]))
<1> DEFINE r == f.blocks[b].ranges
<1>1. /\ f.blocks[b] \in Block /\ BlockFits(p, f, b)
  BY FlowFields DEF Fits
<1>2. r \in Seq(AddrRange) /\ Joined(p, r) /\ r[1][1] = b
  BY <1>1 DEF Block, BlockFits
<1> HIDE DEF r
<1>3. r # << >> /\ \A i \in DOMAIN r : Straight(p, r[i])
  BY <1>2 DEF Joined
<1>4. Len(r) \in DOMAIN r /\ 1 \in DOMAIN r /\ DOMAIN r = 1 .. Len(r) /\ Len(r) \in Nat \ {0}
  BY <1>2, <1>3
<1>5. b \in InsnsIn(p, r[1])
  BY <1>2, <1>3, <1>4, ProgramFacts DEF Straight, InsnsIn
<1>6. b \in Covered(p, f) /\ b \in Addresses(p)
  BY <1>4, <1>5, CoveredFacts DEF r, InsnsIn
<1>7. LastAddr(f.blocks[b]) = r[Len(r)][2]
  BY DEF LastAddr, r
<1>8. LastAddr(f.blocks[b]) \in Addresses(p)
  BY <1>3, <1>4, <1>7 DEF Straight
<1>9. \A s : <<b, s>> \in f.edges <=> s \in GoesTo(p, LastAddr(f.blocks[b]))
  BY <1>1, SuccessorsType DEF Fits, BlockFits
<1> QED  BY <1>2, <1>3, <1>4, <1>6, <1>7, <1>8, <1>9 DEF r

\* However a fitting flow is cut into blocks, it shows the control flow of the
\* instructions it covers.
LEMMA FittingArrows ==
    ASSUME NEW p \in Programs, NEW f, Fits(p, f)
    PROVE  Arrows(p, f) = ProgramArrows(p, Covered(p, f))
<1> DEFINE r(b)     == f.blocks[b].ranges
           Inner(b) == UNION {Along(p, r(b)[i]) : i \in DOMAIN r(b)}
           Links(b) == {<<r(b)[i][2], r(b)[i + 1][1]>> : i \in 1 .. Len(r(b)) - 1}
           Outer    == {<<LastAddr(f.blocks[e[1]]), e[2]>> : e \in f.edges}
<1>1. Arrows(p, f) = (UNION {Inner(b) \cup Links(b) : b \in Starts(f)}) \cup Outer
  BY DEF Arrows
<1>2. \A x : x \in ProgramArrows(p, Covered(p, f)) <=>
               \E a \in Covered(p, f) : \E s \in GoesTo(p, a) : x = <<a, s>>
  BY DEF ProgramArrows
<1>3. ASSUME NEW b \in Starts(f), NEW i \in DOMAIN r(b), NEW x \in Along(p, r(b)[i])
      PROVE  x \in ProgramArrows(p, Covered(p, f))
  <2>1. x \in ProgramArrows(p, InsnsIn(p, r(b)[i]) \ {r(b)[i][2]})
    BY BlockFacts, StraightArrows
  <2>2. PICK a \in InsnsIn(p, r(b)[i]) : \E s \in GoesTo(p, a) : x = <<a, s>>
    BY <2>1 DEF ProgramArrows
  <2>3. a \in Covered(p, f)
    BY CoveredFacts
  <2> QED  BY <1>2, <2>2, <2>3
<1>4. ASSUME NEW b \in Starts(f), NEW i \in DOMAIN r(b)
      PROVE  /\ r(b)[i][2] \in Covered(p, f)
             /\ i + 1 \in DOMAIN r(b) => GoesTo(p, r(b)[i][2]) = {r(b)[i + 1][1]}
  <2>1. Straight(p, r(b)[i]) /\ Joined(p, r(b))
    BY BlockFacts DEF Fits, BlockFits
  <2>2. r(b)[i][2] \in InsnsIn(p, r(b)[i])
    BY <2>1, ProgramFacts DEF Straight, InsnsIn
  <2>3. r(b)[i][2] \in Covered(p, f)
    BY <2>2, CoveredFacts
  <2>4. ASSUME i + 1 \in DOMAIN r(b) PROVE GoesTo(p, r(b)[i][2]) = {r(b)[i + 1][1]}
    <3> DEFINE a == r(b)[i][2]
    <3>1. p.insn[a].kind = "jump" /\ p.insn[a].target = r(b)[i + 1][1]
      BY <2>1, <2>4 DEF Joined
    <3> HIDE DEF a
    <3>2. Targets(p, a) = <<p.insn[a].target>> /\ GoesTo(p, a) = TargetSet(p, a)
      BY <3>1 DEF Targets, GoesTo, EndsBlock
    <3>3. TargetSet(p, a) = {p.insn[a].target}
      BY <3>2 DEF TargetSet
    <3> QED  BY <3>1, <3>2, <3>3 DEF a
  <2> QED  BY <2>3, <2>4
<1>5. ASSUME NEW b \in Starts(f), NEW x \in Links(b)
      PROVE  x \in ProgramArrows(p, Covered(p, f))
  <2>1. PICK i \in 1 .. Len(r(b)) - 1 : x = <<r(b)[i][2], r(b)[i + 1][1]>>
    OBVIOUS
  <2>2. i \in DOMAIN r(b) /\ i + 1 \in DOMAIN r(b)
    BY BlockFacts
  <2> QED  BY <1>2, <1>4, <2>1, <2>2
<1>6. ASSUME NEW x \in Outer PROVE x \in ProgramArrows(p, Covered(p, f))
  <2>1. PICK e \in f.edges : x = <<LastAddr(f.blocks[e[1]]), e[2]>>
    OBVIOUS
  <2>2. e[1] \in Starts(f) /\ e = <<e[1], e[2]>>
    BY FlowFields DEF Fits
  <2>3. e[2] \in GoesTo(p, LastAddr(f.blocks[e[1]]))
    BY <2>2, BlockFacts
  <2>4. LastAddr(f.blocks[e[1]]) \in Covered(p, f)
    BY <1>4, <2>2, BlockFacts
  <2> QED  BY <1>2, <2>1, <2>3, <2>4
<1>7. ASSUME NEW a \in Covered(p, f), NEW s \in GoesTo(p, a)
      PROVE  <<a, s>> \in (UNION {Inner(b) \cup Links(b) : b \in Starts(f)}) \cup Outer
  <2>1. PICK b \in Starts(f) : \E i \in DOMAIN r(b) : a \in InsnsIn(p, r(b)[i])
    BY CoveredFacts
  <2>2. PICK i \in DOMAIN r(b) : a \in InsnsIn(p, r(b)[i])
    BY <2>1
  <2>3. CASE a # r(b)[i][2]
    <3>1. <<a, s>> \in ProgramArrows(p, InsnsIn(p, r(b)[i]) \ {r(b)[i][2]})
      BY <2>2, <2>3 DEF ProgramArrows
    <3>2. <<a, s>> \in Along(p, r(b)[i])
      BY <3>1, BlockFacts, StraightArrows
    <3> QED  BY <3>2
  <2>4. CASE a = r(b)[i][2] /\ i # Len(r(b))
    <3>1. i \in 1 .. Len(r(b)) - 1 /\ i + 1 \in DOMAIN r(b)
      BY <2>4, BlockFacts
    <3>2. s = r(b)[i + 1][1]
      BY <1>4, <2>4, <3>1
    <3>3. <<a, s>> \in Links(b)
      BY <2>4, <3>1, <3>2
    <3> QED  BY <3>3
  <2>5. CASE a = r(b)[i][2] /\ i = Len(r(b))
    <3> DEFINE e == <<b, s>>
    <3>1. a = LastAddr(f.blocks[b]) /\ e \in f.edges
      BY <2>5, BlockFacts
    <3>2. e[1] = b /\ e[2] = s
      OBVIOUS
    <3> HIDE DEF e
    <3>3. <<a, s>> \in Outer
      BY <3>1, <3>2
    <3> QED  BY <3>3
  <2> QED  BY <2>3, <2>4, <2>5
<1> HIDE DEF Outer, Links
<1>8. Arrows(p, f) \subseteq ProgramArrows(p, Covered(p, f))
  BY <1>1, <1>3, <1>5, <1>6
<1>9. ProgramArrows(p, Covered(p, f)) \subseteq Arrows(p, f)
  BY <1>1, <1>2, <1>7
<1> QED  BY <1>8, <1>9

\* What it takes for a flow to fit, with the out-edges of a block one by one.
LEMMA FitsFromParts ==
    ASSUME NEW p, NEW f, IsFlow(f), \A e \in f.edges : e[1] \in Starts(f),
           \A b \in Starts(f) :
              /\ Joined(p, f.blocks[b].ranges)
              /\ f.blocks[b].ranges[1][1] = b
              /\ \A s : <<b, s>> \in f.edges <=> s \in GoesTo(p, LastAddr(f.blocks[b]))
              /\ b \in f.preExit <=> p.insn[LastAddr(f.blocks[b])].kind = "ret"
    PROVE  Fits(p, f)
<1>1. ASSUME NEW b \in Starts(f) PROVE BlockFits(p, f, b)
  <2>1. \A s : s \in Successors(f, b) <=> s \in GoesTo(p, LastAddr(f.blocks[b]))
    BY SuccessorsType
  <2>2. Successors(f, b) = GoesTo(p, LastAddr(f.blocks[b]))
    BY <2>1
  <2> QED  BY <2>2 DEF BlockFits
<1> QED  BY <1>1 DEF Fits

\* Neither types nor callees, neither call locations nor the entry marker matter.
LEMMA SameShape ==
    ASSUME NEW p, NEW f, NEW g, IsFlow(f), IsFlow(g), Starts(g) = Starts(f),
           \A b \in Starts(f) : g.blocks[b].ranges = f.blocks[b].ranges,
           g.edges = f.edges, g.preExit = f.preExit
    PROVE  /\ Fits(p, f) => Fits(p, g)
           /\ Covered(p, g) = Covered(p, f)
           /\ Disjoint(f) => Disjoint(g)
           /\ \A b \in Starts(f) : LastAddr(g.blocks[b]) = LastAddr(f.blocks[b])
<1>1. \A b \in Starts(f) : LastAddr(g.blocks[b]) = LastAddr(f.blocks[b])
  BY DEF LastAddr
<1>2. \A b \in Starts(f) : BlockFits(p, f, b) => BlockFits(p, g, b)
  BY <1>1 DEF BlockFits, Successors
<1>3. Fits(p, f) => Fits(p, g)
  BY <1>2 DEF Fits
<1>4. Covered(p, g) = Covered(p, f)
  BY DEF Covered
<1>5. Disjoint(f) => Disjoint(g)
  BY DEF Disjoint
<1> QED  BY <1>1, <1>3, <1>4, <1>5

\* GoesTo is empty behind a return only.
LEMMA NowhereFromReturns ==
    ASSUME NEW p \in Programs, NEW a \in Addresses(p)
    PROVE  GoesTo(p, a) = {} <=> p.insn[a].kind = "ret"
<1>1. p.insn[a].kind \in Kinds
  BY InstructionFacts
<1>2. CASE p.insn[a].kind = "ret"
  BY <1>2 DEF GoesTo, EndsBlock, TargetSet, Targets
<1>3. CASE p.insn[a].kind \in {"plain", "call"}
  BY <1>3 DEF GoesTo, EndsBlock
<1>4. CASE p.insn[a].kind \in {"skip", "branch", "jump"}
  <2> DEFINE ts == Targets(p, a)
  <2>1. \/ ts = <<Following(p, a), Following(p, Following(p, a))>>
        \/ ts = <<p.insn[a].target, Following(p, a)>>
        \/ ts = <<p.insn[a].target>>
    BY <1>4 DEF Targets
  <2> HIDE DEF ts
  <2>2. 1 \in DOMAIN ts
    BY <2>1
  <2>3. ts[1] \in TargetSet(p, a)
    BY <2>2 DEF TargetSet, ts
  <2> QED  BY <1>4, <2>3 DEF GoesTo, EndsBlock
<1> QED  BY <1>1, <1>2, <1>3, <1>4 DEF Kinds

\* One straight range is joined.
LEMMA OneRange ==
    ASSUME NEW p, NEW first, NEW last, Straight(p, <<first, last>>)
    PROVE  LET r == << <<first, last>> >>
           IN  Joined(p, r) /\ r[1][1] = first /\ r[Len(r)][2] = last /\ DOMAIN r = {1}
                 /\ r[1] = <<first, last>>
<1> DEFINE r == << <<first, last>> >>
<1>1. Len(r) = 1 /\ DOMAIN r = {1} /\ r[1] = <<first, last>> /\ r # << >>
  OBVIOUS
<1>2. r[1][1] = first /\ r[1][2] = last
  BY <1>1
<1> HIDE DEF r
<1>3. Joined(p, r)
  BY <1>1 DEF Joined
<1> QED  BY <1>1, <1>2, <1>3 DEF r

-----------------------------------------------------------------------------
(* Editing flows that fit.                                                 *)

\* A block that is traced fits, and its run is covered.
LEMMA TraceFits ==
    ASSUME NEW p \in Programs, NEW f, NEW g, Fits(p, f), IsFlow(g),
           NEW start, NEW last, start \notin Starts(f), Straight(p, <<start, last>>),
           EndsBlock(p, last), f.preExit \subseteq Starts(f),
           Starts(g) = Starts(f) \cup {start},
           g.blocks[start].ranges = << <<start, last>> >>,
           \A b \in Starts(f) : g.blocks[b].ranges = f.blocks[b].ranges,
           g.edges = f.edges \cup {<<start, t>> : t \in TargetSet(p, last)},
           g.preExit = IF p.insn[last].kind = "ret" THEN f.preExit \cup {start} ELSE f.preExit
    PROVE  Fits(p, g) /\ Covered(p, g) = Covered(p, f) \cup InsnsIn(p, <<start, last>>)
<1>1. \A e \in f.edges : e[1] \in Starts(f)
  BY DEF Fits
<1>2. \A b, s : <<b, s>> \in g.edges <=>
                   <<b, s>> \in f.edges \/ (b = start /\ s \in TargetSet(p, last))
  OBVIOUS
<1>3. \A s : <<start, s>> \notin f.edges
  <2>1. ASSUME NEW s, <<start, s>> \in f.edges PROVE FALSE
    <3> DEFINE e == <<start, s>>
    <3>1. e[1] = start
      OBVIOUS
    <3> HIDE DEF e
    <3>2. e \in f.edges
      BY <2>1 DEF e
    <3> QED  BY <1>1, <3>1, <3>2
  <2> QED  BY <2>1
<1>4. GoesTo(p, last) = TargetSet(p, last)
  BY DEF GoesTo
<1>5. LET r == g.blocks[start].ranges
      IN  Joined(p, r) /\ r[1][1] = start /\ r[Len(r)][2] = last /\ DOMAIN r = {1}
            /\ r[1] = <<start, last>>
  BY OneRange
<1>6. LastAddr(g.blocks[start]) = last
  BY <1>5 DEF LastAddr
<1>7. ASSUME NEW b \in Starts(f)
      PROVE  /\ Joined(p, g.blocks[b].ranges) /\ g.blocks[b].ranges[1][1] = b
             /\ \A s : <<b, s>> \in g.edges <=> s \in GoesTo(p, LastAddr(g.blocks[b]))
             /\ b \in g.preExit <=> p.insn[LastAddr(g.blocks[b])].kind = "ret"
  <2>1. LastAddr(g.blocks[b]) = LastAddr(f.blocks[b]) /\ b # start
    BY DEF LastAddr
  <2>2. Joined(p, f.blocks[b].ranges) /\ f.blocks[b].ranges[1][1] = b
        /\ (b \in f.preExit <=> p.insn[LastAddr(f.blocks[b])].kind = "ret")
    BY DEF Fits, BlockFits
  <2>3. \A s : <<b, s>> \in f.edges <=> s \in GoesTo(p, LastAddr(f.blocks[b]))
    BY BlockFacts
  <2> QED  BY <1>2, <2>1, <2>2, <2>3
<1>8. /\ \A s : <<start, s>> \in g.edges <=> s \in GoesTo(p, LastAddr(g.blocks[start]))
      /\ start \in g.preExit <=> p.insn[LastAddr(g.blocks[start])].kind = "ret"
  BY <1>2, <1>3, <1>4, <1>6
<1>9. \A e \in g.edges : e[1] \in Starts(g)
  BY <1>1
<1>10. Fits(p, g)
  BY <1>5, <1>7, <1>8, <1>9, FitsFromParts
<1>11. \A a : a \in Covered(p, g) <=> a \in Covered(p, f) \/ a \in InsnsIn(p, <<start, last>>)
  BY <1>5, CoveredFacts
<1> QED  BY <1>10, <1>11

\* A block that is trimmed to what is in front of another one, which covers the rest,
\* fits.
LEMMA TrimFits ==
    ASSUME NEW p \in Programs, NEW f, NEW g, Fits(p, f), IsFlow(g),
           NEW b \in Starts(f), NEW next \in Starts(f), b # next,
           NEW last, NEW m \in InsnsIn(p, <<b, last>>), m # last, Following(p, m) = next,
           f.blocks[b].ranges = << <<b, last>> >>,
           f.blocks[next].ranges = << <<next, last>> >>,
           Starts(g) = Starts(f),
           g.blocks[b].ranges = << <<b, m>> >>,
           \A x \in Starts(f) \ {b} : g.blocks[x].ranges = f.blocks[x].ranges,
           \A x, s : <<x, s>> \in g.edges <=>
                        IF x = b THEN s = next ELSE <<x, s>> \in f.edges,
           g.preExit = f.preExit \ {b}
    PROVE  Fits(p, g) /\ Covered(p, g) = Covered(p, f)
<1> DEFINE whole == f.blocks[b].ranges
           rest == f.blocks[next].ranges
           kept == g.blocks[b].ranges
<1>1. /\ Straight(p, whole[1]) /\ Straight(p, rest[1])
      /\ DOMAIN whole = {1} /\ whole[1] = <<b, last>>
      /\ DOMAIN rest = {1} /\ rest[1] = <<next, last>>
  <2>1. 1 \in DOMAIN whole /\ 1 \in DOMAIN rest
    OBVIOUS
  <2>2. Straight(p, whole[1]) /\ Straight(p, rest[1])
    BY <2>1, BlockFacts
  <2> QED  BY <2>2
<1> HIDE DEF whole, rest
<1>2. /\ Straight(p, <<b, m>>)
      /\ InsnsIn(p, <<b, last>>) = InsnsIn(p, <<b, m>>) \cup InsnsIn(p, <<next, last>>)
  BY <1>1, StraightCut
<1>3. Joined(p, kept) /\ kept[1][1] = b /\ kept[Len(kept)][2] = m /\ DOMAIN kept = {1}
        /\ kept[1] = <<b, m>>
  BY <1>2, OneRange
<1> HIDE DEF kept
<1>4. LastAddr(g.blocks[b]) = m
  BY <1>3 DEF LastAddr, kept
<1>5. GoesTo(p, m) = {next} /\ p.insn[m].kind # "ret"
  <2>1. Straight(p, <<b, last>>) /\ <<b, last>>[2] = last
    BY <1>1
  <2>2. GoesTo(p, m) = {Following(p, m)} /\ ~EndsBlock(p, m)
    BY <2>1, StraightStep
  <2> QED  BY <2>2 DEF EndsBlock
<1>6. ASSUME NEW x \in Starts(f) \ {b}
      PROVE  /\ Joined(p, g.blocks[x].ranges) /\ g.blocks[x].ranges[1][1] = x
             /\ \A s : <<x, s>> \in g.edges <=> s \in GoesTo(p, LastAddr(g.blocks[x]))
             /\ x \in g.preExit <=> p.insn[LastAddr(g.blocks[x])].kind = "ret"
  <2>1. LastAddr(g.blocks[x]) = LastAddr(f.blocks[x])
    BY DEF LastAddr
  <2>2. Joined(p, f.blocks[x].ranges) /\ f.blocks[x].ranges[1][1] = x
        /\ (x \in f.preExit <=> p.insn[LastAddr(f.blocks[x])].kind = "ret")
    BY DEF Fits, BlockFits
  <2>3. \A s : <<x, s>> \in f.edges <=> s \in GoesTo(p, LastAddr(f.blocks[x]))
    BY BlockFacts
  <2> QED  BY <2>1, <2>2, <2>3
<1>7. /\ Joined(p, g.blocks[b].ranges) /\ g.blocks[b].ranges[1][1] = b
      /\ \A s : <<b, s>> \in g.edges <=> s \in GoesTo(p, LastAddr(g.blocks[b]))
      /\ b \in g.preExit <=> p.insn[LastAddr(g.blocks[b])].kind = "ret"
  BY <1>3, <1>4, <1>5 DEF kept
<1>8. \A e \in g.edges : e[1] \in Starts(g)
  <2>1. ASSUME NEW e \in g.edges PROVE e[1] \in Starts(f)
    <3>1. e = <<e[1], e[2]>>
      BY FlowFields
    <3>2. CASE e[1] = b
      BY <3>2
    <3>3. CASE e[1] # b
      <4>1. <<e[1], e[2]>> \in f.edges
        BY <3>1, <3>3
      <4> QED  BY <3>1, <4>1 DEF Fits
    <3> QED  BY <3>2, <3>3
  <2> QED  BY <2>1
<1>9. Fits(p, g)
  BY <1>6, <1>7, <1>8, FitsFromParts
<1>10. ASSUME NEW a \in Covered(p, g) PROVE a \in Covered(p, f)
  <2>1. PICK x \in Starts(f) :
            \E i \in DOMAIN g.blocks[x].ranges : a \in InsnsIn(p, g.blocks[x].ranges[i])
    BY CoveredFacts
  <2>2. CASE x = b
    <3>1. a \in InsnsIn(p, whole[1]) /\ 1 \in DOMAIN whole
      BY <1>1, <1>2, <1>3, <2>1, <2>2 DEF kept
    <3> QED  BY <3>1, CoveredFacts DEF whole
  <2>3. CASE x # b
    BY <2>1, <2>3, CoveredFacts
  <2> QED  BY <2>2, <2>3
<1>11. ASSUME NEW a \in Covered(p, f) PROVE a \in Covered(p, g)
  <2>1. PICK x \in Starts(f) :
            \E i \in DOMAIN f.blocks[x].ranges : a \in InsnsIn(p, f.blocks[x].ranges[i])
    BY CoveredFacts
  <2>2. CASE x = b
    <3>1. a \in InsnsIn(p, <<b, last>>)
      BY <1>1, <2>1, <2>2 DEF whole
    <3>2. CASE a \in InsnsIn(p, <<b, m>>)
      <4>1. 1 \in DOMAIN kept /\ a \in InsnsIn(p, kept[1])
        BY <1>3, <3>2
      <4> QED  BY <4>1, CoveredFacts DEF kept
    <3>3. CASE a \in InsnsIn(p, <<next, last>>)
      <4>1. 1 \in DOMAIN rest /\ a \in InsnsIn(p, rest[1])
        BY <1>1, <3>3
      <4> QED  BY <4>1, CoveredFacts DEF rest
    <3> QED  BY <1>2, <3>1, <3>2, <3>3
  <2>3. CASE x # b
    BY <2>1, <2>3, CoveredFacts
  <2> QED  BY <2>2, <2>3
<1> QED  BY <1>9, <1>10, <1>11

\* g is f with the block at B, where only the jump at the end of A leads, taken into A.
IsMerge(p, f, g, A, B) ==
    /\ Fits(p, f) /\ IsFlow(g) /\ A \in Starts(f) /\ B \in Starts(f) /\ A # B
    /\ p.insn[LastAddr(f.blocks[A])].kind = "jump"
    /\ \A x : <<x, B>> \in f.edges <=> x = A
    /\ Starts(g) = Starts(f) \ {B}
    /\ g.blocks[A].ranges = f.blocks[A].ranges \o f.blocks[B].ranges
    /\ \A x \in Starts(f) \ {A, B} : g.blocks[x].ranges = f.blocks[x].ranges
    /\ \A x, s : <<x, s>> \in g.edges <=>
                    \/ <<x, s>> \in f.edges /\ x # B /\ s # B
                    \/ x = A /\ <<B, s>> \in f.edges
    /\ \A x : x \in g.preExit <=>
                    \/ x \in f.preExit /\ x # B
                    \/ x = A /\ \A s : <<B, s>> \notin f.edges

\* A block that takes in the only block its jump leads to, and that nothing else leads
\* to, fits.
LEMMA MergeFits ==
    ASSUME NEW p \in Programs, NEW f, NEW g, NEW A, NEW B, IsMerge(p, f, g, A, B)
    PROVE  /\ Fits(p, g) /\ Covered(p, g) = Covered(p, f)
           /\ LastAddr(g.blocks[A]) = LastAddr(f.blocks[B])
           /\ \A s : <<A, s>> \in f.edges <=> s = B
           /\ Disjoint(f) => Disjoint(g)
<1>0. /\ Fits(p, f) /\ IsFlow(g) /\ A \in Starts(f) /\ B \in Starts(f) /\ A # B
      /\ p.insn[LastAddr(f.blocks[A])].kind = "jump"
      /\ \A x : <<x, B>> \in f.edges <=> x = A
      /\ Starts(g) = Starts(f) \ {B}
      /\ g.blocks[A].ranges = f.blocks[A].ranges \o f.blocks[B].ranges
      /\ \A x \in Starts(f) \ {A, B} : g.blocks[x].ranges = f.blocks[x].ranges
      /\ \A x, s : <<x, s>> \in g.edges <=>
                      \/ <<x, s>> \in f.edges /\ x # B /\ s # B
                      \/ x = A /\ <<B, s>> \in f.edges
      /\ \A x : x \in g.preExit <=>
                      \/ x \in f.preExit /\ x # B
                      \/ x = A /\ \A s : <<B, s>> \notin f.edges
  BY DEF IsMerge
<1> USE <1>0
<1> DEFINE rA == f.blocks[A].ranges
           rB == f.blocks[B].ranges
           r  == g.blocks[A].ranges
           n  == Len(rA)
           k  == Len(rB)
           end == LastAddr(f.blocks[A])
<1>1. /\ rA \in Seq(AddrRange) /\ rB \in Seq(AddrRange)
      /\ n \in Nat \ {0} /\ k \in Nat \ {0} /\ DOMAIN rA = 1 .. n /\ DOMAIN rB = 1 .. k
      /\ rA[1][1] = A /\ rB[1][1] = B /\ end = rA[n][2]
      /\ LastAddr(f.blocks[B]) = rB[k][2]
      /\ end \in Addresses(p) /\ rB[k][2] \in Addresses(p)
  BY BlockFacts
<1>2. /\ Joined(p, rA) /\ Joined(p, rB)
      /\ A \in f.preExit <=> p.insn[end].kind = "ret"
      /\ B \in f.preExit <=> p.insn[rB[k][2]].kind = "ret"
  BY <1>1 DEF Fits, BlockFits
<1>3. /\ \A s : <<A, s>> \in f.edges <=> s \in GoesTo(p, end)
      /\ \A s : <<B, s>> \in f.edges <=> s \in GoesTo(p, rB[k][2])
  BY <1>1, BlockFacts
<1> HIDE DEF end
<1>4. GoesTo(p, end) = {B} /\ p.insn[end].target = B
  <2>1. Targets(p, end) = <<p.insn[end].target>> /\ GoesTo(p, end) = TargetSet(p, end)
    BY DEF Targets, GoesTo, EndsBlock, end
  <2>2. TargetSet(p, end) = {p.insn[end].target}
    BY <2>1 DEF TargetSet
  <2>3. B \in GoesTo(p, end)
    BY <1>3
  <2> QED  BY <2>1, <2>2, <2>3
<1>5. r = rA \o rB
  OBVIOUS
<1> HIDE DEF rA, rB, r
<1>6. /\ Len(r) = n + k /\ r # << >> /\ DOMAIN r = 1 .. n + k
      /\ \A i \in 1 .. n : r[i] = rA[i]
      /\ \A i \in n + 1 .. n + k : r[i] = rB[i - n]
  BY <1>1, <1>5
<1> HIDE DEF n, k
<1>7. /\ r[1][1] = A /\ r[Len(r)] = rB[k]
      /\ \A j \in 1 .. k : n + j \in DOMAIN r /\ r[n + j] = rB[j]
  <2>1. ASSUME NEW j \in 1 .. k PROVE n + j \in DOMAIN r /\ r[n + j] = rB[j]
    <3>1. n + j \in n + 1 .. n + k /\ n + j \in 1 .. n + k /\ (n + j) - n = j
      BY <1>1
    <3> QED  BY <1>6, <3>1
  <2>2. k \in 1 .. k
    BY <1>1
  <2> QED  BY <1>1, <1>6, <2>1, <2>2
<1>8. LastAddr(g.blocks[A]) = rB[k][2]
  BY <1>7 DEF LastAddr, r
<1>9. Joined(p, r)
  <2>1. ASSUME NEW i \in DOMAIN r
        PROVE  /\ Straight(p, r[i])
               /\ i + 1 \in DOMAIN r =>
                    p.insn[r[i][2]].kind = "jump" /\ p.insn[r[i][2]].target = r[i + 1][1]
    <3>1. CASE i \in 1 .. n - 1
      <4>1. i \in 1 .. n /\ i + 1 \in 1 .. n /\ i \in DOMAIN rA /\ i + 1 \in DOMAIN rA
        BY <1>1, <3>1
      <4> QED  BY <1>2, <1>6, <4>1 DEF Joined
    <3>2. CASE i = n
      <4>1. r[i] = rA[n] /\ n \in DOMAIN rA /\ 1 \in 1 .. k
        BY <1>1, <1>6, <3>2
      <4>2. r[i + 1][1] = B
        BY <1>1, <1>7, <3>2, <4>1
      <4> QED  BY <1>1, <1>2, <1>4, <4>1, <4>2 DEF Joined, end
    <3>3. CASE i \in n + 1 .. n + k
      <4>1. i - n \in DOMAIN rB /\ r[i] = rB[i - n]
        BY <1>1, <1>6, <3>3
      <4>2. ASSUME i + 1 \in DOMAIN r
            PROVE  (i - n) + 1 \in DOMAIN rB /\ r[i + 1] = rB[(i - n) + 1]
        BY <1>1, <1>6, <3>3, <4>2
      <4> QED  BY <1>2, <4>1, <4>2 DEF Joined
    <3> QED  BY <1>1, <1>6, <3>1, <3>2, <3>3
  <2> QED  BY <1>6, <2>1 DEF Joined
<1>10. /\ \A s : <<A, s>> \in f.edges <=> s = B
       /\ \A s : <<A, s>> \in g.edges <=> <<B, s>> \in f.edges
  BY <1>3, <1>4
<1>11. /\ Joined(p, g.blocks[A].ranges) /\ g.blocks[A].ranges[1][1] = A
       /\ \A s : <<A, s>> \in g.edges <=> s \in GoesTo(p, LastAddr(g.blocks[A]))
       /\ A \in g.preExit <=> p.insn[LastAddr(g.blocks[A])].kind = "ret"
  <2>1. A \notin f.preExit
    BY <1>2 DEF end
  <2>2. (\A s : <<B, s>> \notin f.edges) <=> p.insn[rB[k][2]].kind = "ret"
    <3>1. (\A s : <<B, s>> \notin f.edges) <=> GoesTo(p, rB[k][2]) = {}
      BY <1>3
    <3> QED  BY <1>1, <3>1, NowhereFromReturns
  <2> QED  BY <1>3, <1>7, <1>8, <1>9, <1>10, <2>1, <2>2 DEF r
<1>12. ASSUME NEW x \in Starts(f) \ {A, B}
       PROVE  /\ Joined(p, g.blocks[x].ranges) /\ g.blocks[x].ranges[1][1] = x
              /\ \A s : <<x, s>> \in g.edges <=> s \in GoesTo(p, LastAddr(g.blocks[x]))
              /\ x \in g.preExit <=> p.insn[LastAddr(g.blocks[x])].kind = "ret"
  <2>1. LastAddr(g.blocks[x]) = LastAddr(f.blocks[x])
    BY DEF LastAddr
  <2>2. Joined(p, f.blocks[x].ranges) /\ f.blocks[x].ranges[1][1] = x
        /\ (x \in f.preExit <=> p.insn[LastAddr(f.blocks[x])].kind = "ret")
    BY DEF Fits, BlockFits
  <2>3. \A s : <<x, s>> \in f.edges <=> s \in GoesTo(p, LastAddr(f.blocks[x]))
    BY BlockFacts
  <2> QED  BY <2>1, <2>2, <2>3
<1>13. \A e \in g.edges : e[1] \in Starts(g)
  <2>1. ASSUME NEW e \in g.edges PROVE e[1] \in Starts(f) \ {B}
    <3>1. e = <<e[1], e[2]>>
      BY FlowFields
    <3>2. CASE e[1] = A
      BY <3>2
    <3>3. CASE e[1] # A
      <4>1. <<e[1], e[2]>> \in f.edges /\ e[1] # B
        BY <3>1, <3>3
      <4> QED  BY <3>1, <4>1 DEF Fits
    <3> QED  BY <3>2, <3>3
  <2> QED  BY <2>1
<1>14. Fits(p, g)
  <2>1. \A x \in Starts(g) :
          /\ Joined(p, g.blocks[x].ranges) /\ g.blocks[x].ranges[1][1] = x
          /\ \A s : <<x, s>> \in g.edges <=> s \in GoesTo(p, LastAddr(g.blocks[x]))
          /\ x \in g.preExit <=> p.insn[LastAddr(g.blocks[x])].kind = "ret"
    BY <1>11, <1>12
  <2> QED  BY <1>13, <2>1, FitsFromParts
<1> DEFINE Block0(x, i) == IF x = A /\ i > n THEN B ELSE x
           Index0(x, i) == IF x = A /\ i > n THEN i - n ELSE i
<1>15. ASSUME NEW x \in Starts(g), NEW i \in DOMAIN g.blocks[x].ranges
       PROVE  /\ Block0(x, i) \in Starts(f) /\ i \in Nat
              /\ Index0(x, i) \in DOMAIN f.blocks[Block0(x, i)].ranges
              /\ g.blocks[x].ranges[i] = f.blocks[Block0(x, i)].ranges[Index0(x, i)]
  <2>1. CASE x # A
    <3>1. x \in Starts(f) \ {A, B} /\ Block0(x, i) = x /\ Index0(x, i) = i
      BY <2>1
    <3> HIDE DEF Block0, Index0
    <3>2. DOMAIN f.blocks[x].ranges = 1 .. Len(f.blocks[x].ranges)
      BY <3>1, BlockFacts
    <3>3. g.blocks[x].ranges = f.blocks[x].ranges
      BY <3>1
    <3>4. i \in Nat /\ i \in DOMAIN f.blocks[x].ranges
      BY <3>2, <3>3
    <3> QED  BY <3>1, <3>3, <3>4
  <2>2. CASE x = A /\ i > n
    <3>0. i \in 1 .. n + k /\ n \in Nat /\ k \in Nat /\ DOMAIN rB = 1 .. k
      BY <1>1, <1>6, <2>2 DEF r
    <3>1. i \in n + 1 .. n + k /\ i - n \in DOMAIN rB /\ i \in Nat
      BY <2>2, <3>0
    <3>2. Block0(x, i) = B /\ Index0(x, i) = i - n
      BY <2>2
    <3>3. r[i] = rB[i - n]
      BY <1>6, <3>1
    <3> HIDE DEF Block0, Index0
    <3>4. /\ i - n \in DOMAIN f.blocks[B].ranges
          /\ g.blocks[x].ranges[i] = f.blocks[B].ranges[i - n]
      BY <2>2, <3>1, <3>3 DEF r, rB
    <3> QED  BY <3>1, <3>2, <3>4
  <2>3. CASE x = A /\ ~(i > n)
    <3>0. i \in 1 .. n + k /\ n \in Nat /\ k \in Nat /\ DOMAIN rA = 1 .. n
      BY <1>1, <1>6, <2>3 DEF r
    <3>1. i \in 1 .. n /\ i \in DOMAIN rA /\ i \in Nat
      BY <2>3, <3>0
    <3>2. Block0(x, i) = A /\ Index0(x, i) = i
      BY <2>3
    <3>3. r[i] = rA[i]
      BY <1>6, <3>1
    <3> HIDE DEF Block0, Index0
    <3>4. /\ i \in DOMAIN f.blocks[A].ranges
          /\ g.blocks[x].ranges[i] = f.blocks[A].ranges[i]
      BY <2>3, <3>1, <3>3 DEF r, rA
    <3> QED  BY <3>1, <3>2, <3>4
  <2> QED  BY <2>1, <2>2, <2>3
<1>16. ASSUME NEW a \in Covered(p, g) PROVE a \in Covered(p, f)
  <2>1. PICK x \in Starts(g) :
            \E i \in DOMAIN g.blocks[x].ranges : a \in InsnsIn(p, g.blocks[x].ranges[i])
    BY CoveredFacts
  <2>2. PICK i \in DOMAIN g.blocks[x].ranges : a \in InsnsIn(p, g.blocks[x].ranges[i])
    BY <2>1
  <2> HIDE DEF Block0, Index0
  <2> QED  BY <1>15, <2>2, CoveredFacts
<1>17. ASSUME NEW a \in Covered(p, f) PROVE a \in Covered(p, g)
  <2>1. PICK x \in Starts(f) :
            \E i \in DOMAIN f.blocks[x].ranges : a \in InsnsIn(p, f.blocks[x].ranges[i])
    BY CoveredFacts
  <2>2. PICK i \in DOMAIN f.blocks[x].ranges : a \in InsnsIn(p, f.blocks[x].ranges[i])
    BY <2>1
  <2>3. CASE x = A
    <3>1. i \in 1 .. n /\ i \in DOMAIN r /\ r[i] = rA[i]
      BY <1>1, <1>6, <2>2, <2>3 DEF rA
    <3>2. A \in Starts(g) /\ a \in InsnsIn(p, r[i])
      BY <2>2, <2>3, <3>1 DEF rA
    <3> QED  BY <3>1, <3>2, CoveredFacts DEF r
  <2>4. CASE x = B
    <3>1. n + i \in DOMAIN r /\ r[n + i] = rB[i]
      BY <1>1, <1>7, <2>2, <2>4 DEF rB
    <3>2. A \in Starts(g) /\ a \in InsnsIn(p, r[n + i])
      BY <2>2, <2>4, <3>1 DEF rB
    <3> QED  BY <3>1, <3>2, CoveredFacts DEF r
  <2>5. CASE x \notin {A, B}
    BY <2>2, <2>5, CoveredFacts
  <2> QED  BY <2>3, <2>4, <2>5
<1>18. ASSUME Disjoint(f) PROVE Disjoint(g)
  <2>1. ASSUME NEW x \in Starts(g), NEW y \in Starts(g),
               NEW i \in DOMAIN g.blocks[x].ranges, NEW j \in DOMAIN g.blocks[y].ranges
        PROVE  \/ x = y /\ i = j
               \/ g.blocks[x].ranges[i][2] < g.blocks[y].ranges[j][1]
               \/ g.blocks[y].ranges[j][2] < g.blocks[x].ranges[i][1]
    <3>1. Block0(x, i) = Block0(y, j) /\ Index0(x, i) = Index0(y, j) => x = y /\ i = j
      <4>1. i \in Nat /\ j \in Nat /\ n \in Nat /\ x # B /\ y # B
        BY <1>1, <1>15
      <4> QED  BY <4>1
    <3> HIDE DEF Block0, Index0
    <3>2. \/ Block0(x, i) = Block0(y, j) /\ Index0(x, i) = Index0(y, j)
          \/ g.blocks[x].ranges[i][2] < g.blocks[y].ranges[j][1]
          \/ g.blocks[y].ranges[j][2] < g.blocks[x].ranges[i][1]
      <4> DEFINE u == Block0(x, i)
                 v == Block0(y, j)
                 k1 == Index0(x, i)
                 k2 == Index0(y, j)
      <4>1. /\ u \in Starts(f) /\ k1 \in DOMAIN f.blocks[u].ranges
            /\ g.blocks[x].ranges[i] = f.blocks[u].ranges[k1]
        BY <1>15
      <4>2. /\ v \in Starts(f) /\ k2 \in DOMAIN f.blocks[v].ranges
            /\ g.blocks[y].ranges[j] = f.blocks[v].ranges[k2]
        BY <1>15
      <4> HIDE DEF u, v, k1, k2
      <4>3. \/ u = v /\ k1 = k2
            \/ f.blocks[u].ranges[k1][2] < f.blocks[v].ranges[k2][1]
            \/ f.blocks[v].ranges[k2][2] < f.blocks[u].ranges[k1][1]
        BY <1>18, <4>1, <4>2 DEF Disjoint
      <4>4. g.blocks[x].ranges[i][1] = f.blocks[u].ranges[k1][1]
            /\ g.blocks[x].ranges[i][2] = f.blocks[u].ranges[k1][2]
            /\ g.blocks[y].ranges[j][1] = f.blocks[v].ranges[k2][1]
            /\ g.blocks[y].ranges[j][2] = f.blocks[v].ranges[k2][2]
        BY <4>1, <4>2
      <4> QED  BY <4>1, <4>2, <4>3 DEF u, v, k1, k2
    <3> QED  BY <3>1, <3>2
  <2> QED  BY <2>1 DEF Disjoint
<1> QED  BY <1>1, <1>8, <1>10, <1>14, <1>16, <1>17, <1>18
\* What is in front of a range, and a range in place of it.
IsFront(q, r, i, c) ==
    /\ q \in Seq(AddrRange) /\ Len(q) = i /\ DOMAIN q = 1 .. i /\ q # << >>
    /\ q[i] = c /\ \A j \in 1 .. i - 1 : q[j] = r[j]

\* The ranges up to the one that is cut, and what the cut leaves of it.
LEMMA FrontOf ==
    ASSUME NEW r \in Seq(AddrRange), NEW i \in DOMAIN r, NEW c \in AddrRange
    PROVE  IsFront(SubSeq(r, 1, i - 1) \o <<c>>, r, i, c)
<1> DEFINE s == SubSeq(r, 1, i - 1)
           q == s \o <<c>>
<1>1. i \in 1 .. Len(r) /\ Len(r) \in Nat /\ i - 1 \in Nat
  OBVIOUS
<1>2. s \in Seq(AddrRange) /\ Len(s) = i - 1 /\ \A j \in 1 .. i - 1 : s[j] = r[j]
  BY <1>1
<1> HIDE DEF s
<1>3. <<c>> \in Seq(AddrRange) /\ Len(<<c>>) = 1 /\ <<c>>[1] = c
  OBVIOUS
<1>4. /\ q \in Seq(AddrRange) /\ Len(q) = i /\ q[i] = c
      /\ \A j \in 1 .. i - 1 : q[j] = s[j]
  BY <1>1, <1>2, <1>3
<1> HIDE DEF q
<1>5. DOMAIN q = 1 .. i /\ q # << >>
  BY <1>1, <1>4
<1>6. IsFront(q, r, i, c)
  BY <1>2, <1>4, <1>5 DEF IsFront
<1> QED  BY <1>6 DEF q, s

\* What is behind a range, and a range in place of it.
IsRear(q, r, i, c, k) ==
    /\ q \in Seq(AddrRange) /\ Len(q) = k /\ DOMAIN q = 1 .. k /\ q # << >>
    /\ q[1] = c /\ \A j \in 2 .. k : q[j] = r[(i + j) - 1]

\* What the cut leaves of a range, and the ranges behind it.
LEMMA RearOf ==
    ASSUME NEW r \in Seq(AddrRange), NEW i \in DOMAIN r, NEW c \in AddrRange
    PROVE  IsRear(<<c>> \o SubSeq(r, i + 1, Len(r)), r, i, c, (Len(r) - i) + 1)
<1> DEFINE n == Len(r)
           k == (n - i) + 1
           s == SubSeq(r, i + 1, n)
           q == <<c>> \o s
<1>1. i \in 1 .. n /\ n \in Nat /\ k \in Nat /\ k >= 1 /\ n - i \in Nat
  OBVIOUS
<1>2. s \in Seq(AddrRange) /\ Len(s) = n - i /\ \A j \in 1 .. n - i : s[j] = r[i + j]
  <2>1. s \in Seq(AddrRange) /\ Len(s) = n - i
    BY <1>1
  <2>2. ASSUME NEW j \in 1 .. n - i PROVE s[j] = r[i + j]
    <3>1. s[j] = r[((i + 1) + j) - 1] /\ ((i + 1) + j) - 1 = i + j
      BY <1>1
    <3> QED  BY <3>1
  <2> QED  BY <2>1, <2>2
<1> HIDE DEF s
<1>3. <<c>> \in Seq(AddrRange) /\ Len(<<c>>) = 1 /\ <<c>>[1] = c
  OBVIOUS
<1>4. /\ q \in Seq(AddrRange) /\ Len(q) = k /\ q[1] = c
      /\ \A j \in 2 .. k : q[j] = s[j - 1]
  BY <1>1, <1>2, <1>3
<1> HIDE DEF q
<1>5. DOMAIN q = 1 .. k /\ q # << >>
  BY <1>1, <1>4
<1>6. ASSUME NEW j \in 2 .. k PROVE q[j] = r[(i + j) - 1]
  <2>1. j - 1 \in 1 .. n - i /\ i + (j - 1) = (i + j) - 1
    BY <1>1
  <2> QED  BY <1>2, <1>4, <2>1
<1>7. IsRear(q, r, i, c, k)
  <2> HIDE DEF k
  <2> QED  BY <1>4, <1>5, <1>6 DEF IsRear
<1> QED  BY <1>7 DEF q, s

\* Range q lies in range o.
Part(p, q, o) ==
    /\ q[1] \in Nat /\ q[2] \in Nat /\ o[1] \in Nat /\ o[2] \in Nat
    /\ o[1] <= q[1] /\ q[2] <= o[2]
    /\ InsnsIn(p, q) \subseteq InsnsIn(p, o)

\* front and rear are what is left of the ranges r if they are cut behind the
\* instruction call in range i.
IsCut(p, r, i, call, front, rear) ==
    /\ r \in Seq(AddrRange) /\ Joined(p, r) /\ i \in DOMAIN r
    /\ call \in InsnsIn(p, r[i]) /\ call # r[i][2]
    /\ front = SubSeq(r, 1, i - 1) \o << <<r[i][1], call>> >>
    /\ rear = << <<Following(p, call), r[i][2]>> >> \o SubSeq(r, i + 1, Len(r))

\* The range that is cut is straight, and so are both parts of it.
LEMMA CutFacts ==
    ASSUME NEW p \in Programs, NEW r, NEW i, NEW call, NEW front, NEW rear,
           IsCut(p, r, i, call, front, rear)
    PROVE  LET n == Len(r)
               k == (n - i) + 1
               t == Following(p, call)
           IN  /\ DOMAIN r = 1 .. n /\ n \in Nat /\ i \in 1 .. n /\ k \in Nat \ {0}
               /\ i \in Nat \ {0}
               /\ \A j \in DOMAIN r : /\ r[j][1] \in Nat /\ r[j][2] \in Nat
                                      /\ r[j] = <<r[j][1], r[j][2]>> /\ Straight(p, r[j])
               /\ call \in Nat /\ t \in Nat /\ call < t /\ GoesTo(p, call) = {t}
               /\ ~EndsBlock(p, call)
               /\ r[i][1] <= t /\ call <= r[i][2]
               /\ Straight(p, <<r[i][1], call>>) /\ Straight(p, <<t, r[i][2]>>)
               /\ \A a : a \in InsnsIn(p, r[i]) <=>
                            \/ a \in InsnsIn(p, <<r[i][1], call>>)
                            \/ a \in InsnsIn(p, <<t, r[i][2]>>)
<1> DEFINE n  == Len(r)
           lo == r[i][1]
           hi == r[i][2]
           k  == (n - i) + 1
           t  == Following(p, call)
<1>1. /\ r \in Seq(AddrRange) /\ Joined(p, r) /\ i \in DOMAIN r
      /\ call \in InsnsIn(p, r[i]) /\ call # hi
  BY DEF IsCut
<1>2. DOMAIN r = 1 .. n /\ n \in Nat /\ i \in 1 .. n /\ k \in Nat \ {0} /\ i \in Nat \ {0}
  <2>1. r \in Seq(AddrRange) /\ i \in DOMAIN r
    BY <1>1
  <2>2. DOMAIN r = 1 .. n /\ n \in Nat
    BY <2>1
  <2> HIDE DEF n
  <2> QED  BY <2>1, <2>2
<1>3. ASSUME NEW j \in DOMAIN r
      PROVE  /\ r[j][1] \in Nat /\ r[j][2] \in Nat
             /\ r[j] = <<r[j][1], r[j][2]>> /\ Straight(p, r[j])
  <2>1. r[j] \in AddrRange
    BY <1>1, <1>3
  <2> QED  BY <1>1, <2>1 DEF AddrRange, Joined
<1>4. r[i] = <<lo, hi>> /\ lo \in Nat /\ hi \in Nat /\ Straight(p, r[i])
  BY <1>1, <1>3
<1>5. /\ call \in Nat /\ t \in InsnsIn(p, r[i]) /\ call < t /\ GoesTo(p, call) = {t}
      /\ ~EndsBlock(p, call) /\ t \in Nat
  BY <1>1, <1>4, StraightStep, ProgramFacts DEF InsnsIn
<1> HIDE DEF lo, hi, t
<1>6. lo <= t /\ call <= hi
  BY <1>1, <1>4, <1>5 DEF InsnsIn, lo, hi
<1>7. /\ Straight(p, <<lo, call>>) /\ Straight(p, <<t, hi>>)
      /\ InsnsIn(p, r[i]) = InsnsIn(p, <<lo, call>>) \cup InsnsIn(p, <<t, hi>>)
  <2>1. /\ Straight(p, <<lo, hi>>) /\ call \in InsnsIn(p, <<lo, hi>>) /\ call # hi
    BY <1>1, <1>4
  <2>2. /\ Straight(p, <<lo, call>>) /\ Straight(p, <<t, hi>>)
        /\ InsnsIn(p, <<lo, hi>>) = InsnsIn(p, <<lo, call>>) \cup InsnsIn(p, <<t, hi>>)
    BY <2>1, StraightCut DEF t
  <2> QED  BY <1>4, <2>2
<1> QED  BY <1>2, <1>3, <1>5, <1>6, <1>7 DEF lo, hi, t

\* What front and rear are, range by range.
LEMMA CutRanges ==
    ASSUME NEW p \in Programs, NEW r, NEW i, NEW call, NEW front, NEW rear,
           IsCut(p, r, i, call, front, rear)
    PROVE  LET k == (Len(r) - i) + 1
           IN  /\ Len(front) = i /\ DOMAIN front = 1 .. i /\ front # << >>
               /\ front[i] = <<r[i][1], call>> /\ \A j \in 1 .. i - 1 : front[j] = r[j]
               /\ Len(rear) = k /\ DOMAIN rear = 1 .. k /\ rear # << >>
               /\ rear[1] = <<Following(p, call), r[i][2]>>
               /\ \A j \in 2 .. k : rear[j] = r[(i + j) - 1]
<1> DEFINE left == <<r[i][1], call>>
           right == <<Following(p, call), r[i][2]>>
           k == (Len(r) - i) + 1
<1>1. /\ r \in Seq(AddrRange) /\ i \in DOMAIN r
      /\ front = SubSeq(r, 1, i - 1) \o <<left>>
      /\ rear = <<right>> \o SubSeq(r, i + 1, Len(r))
  BY DEF IsCut
<1>2. /\ r[i][1] \in Nat /\ r[i][2] \in Nat
      /\ call \in Nat /\ Following(p, call) \in Nat
  BY <1>1, CutFacts
<1>3. left \in AddrRange /\ right \in AddrRange
  BY <1>2 DEF AddrRange
<1> HIDE DEF left, right
<1>4. /\ Len(front) = i /\ DOMAIN front = 1 .. i /\ front # << >>
       /\ front[i] = left /\ \A j \in 1 .. i - 1 : front[j] = r[j]
  <2>1. IsFront(front, r, i, left)
    BY <1>1, <1>3, FrontOf
  <2> QED  BY <2>1 DEF IsFront
<1>5. /\ Len(rear) = k /\ DOMAIN rear = 1 .. k /\ rear # << >>
       /\ rear[1] = right /\ \A j \in 2 .. k : rear[j] = r[(i + j) - 1]
  <2>1. IsRear(rear, r, i, right, k)
    BY <1>1, <1>3, RearOf
  <2> HIDE DEF k
  <2> QED  BY <2>1 DEF IsRear
<1> QED  BY <1>4, <1>5 DEF left, right

\* Both are joined, and each of their ranges lies in the one it is made of.
LEMMA CutParts ==
    ASSUME NEW p \in Programs, NEW r, NEW i, NEW call, NEW front, NEW rear,
           IsCut(p, r, i, call, front, rear)
    PROVE  /\ Joined(p, front) /\ front[1][1] = r[1][1] /\ front[Len(front)][2] = call
           /\ Joined(p, rear) /\ rear[1][1] = Following(p, call)
           /\ rear[Len(rear)][2] = r[Len(r)][2]
           /\ \A j \in DOMAIN front : /\ j \in 1 .. i /\ j \in DOMAIN r
                                      /\ Part(p, front[j], r[j])
           /\ \A j \in DOMAIN rear : /\ j \in Nat \ {0} /\ (i + j) - 1 \in DOMAIN r
                                     /\ Part(p, rear[j], r[(i + j) - 1])
           /\ \A j \in DOMAIN r : \A a \in InsnsIn(p, r[j]) :
                 \/ \E h \in DOMAIN front : a \in InsnsIn(p, front[h])
                 \/ \E h \in DOMAIN rear : a \in InsnsIn(p, rear[h])
           /\ front[i][2] < rear[1][1]
<1> DEFINE n  == Len(r)
           lo == r[i][1]
           hi == r[i][2]
           k  == (n - i) + 1
           t  == Following(p, call)
<1>1. /\ DOMAIN r = 1 .. n /\ n \in Nat /\ i \in 1 .. n /\ k \in Nat \ {0}
      /\ i \in Nat \ {0} /\ k = (n - i) + 1
  BY CutFacts
<1>2. \A j \in DOMAIN r : /\ r[j][1] \in Nat /\ r[j][2] \in Nat
                          /\ r[j] = <<r[j][1], r[j][2]>> /\ Straight(p, r[j])
  BY CutFacts
<1>3. /\ call \in Nat /\ t \in Nat /\ call < t /\ lo <= t /\ call <= hi
      /\ Straight(p, <<lo, call>>) /\ Straight(p, <<t, hi>>)
      /\ InsnsIn(p, r[i]) = InsnsIn(p, <<lo, call>>) \cup InsnsIn(p, <<t, hi>>)
  <2>1. call \in Nat /\ t \in Nat /\ call < t /\ lo <= t /\ call <= hi
    BY CutFacts
  <2>2. Straight(p, <<lo, call>>) /\ Straight(p, <<t, hi>>)
    BY CutFacts
  <2>3. \A a : a \in InsnsIn(p, r[i]) <=>
                  a \in InsnsIn(p, <<lo, call>>) \/ a \in InsnsIn(p, <<t, hi>>)
    BY CutFacts
  <2> QED  BY <2>1, <2>2, <2>3
<1>4. /\ Len(front) = i /\ DOMAIN front = 1 .. i /\ front # << >>
      /\ front[i] = <<lo, call>> /\ \A j \in 1 .. i - 1 : front[j] = r[j]
  BY CutRanges
<1>5. /\ Len(rear) = k /\ DOMAIN rear = 1 .. k /\ rear # << >>
      /\ rear[1] = <<t, hi>> /\ \A j \in 2 .. k : rear[j] = r[(i + j) - 1]
  BY CutRanges
<1>6. /\ \A j \in DOMAIN r : j + 1 \in DOMAIN r =>
            p.insn[r[j][2]].kind = "jump" /\ p.insn[r[j][2]].target = r[j + 1][1]
      /\ r[i] = <<lo, hi>> /\ lo \in Nat /\ hi \in Nat
  BY <1>1, <1>2 DEF IsCut, Joined
<1> HIDE DEF n, k, t
<1>7. ASSUME NEW j \in DOMAIN front
      PROVE  /\ j \in 1 .. i /\ j \in DOMAIN r /\ front[j][1] = r[j][1]
             /\ j # i => j \in 1 .. i - 1 /\ front[j] = r[j]
  <2>1. j \in 1 .. i /\ j \in DOMAIN r /\ (j # i => j \in 1 .. i - 1)
    BY <1>1, <1>4
  <2>2. j # i => front[j] = r[j]
    BY <1>4, <2>1
  <2>3. j = i => front[j][1] = r[j][1]
    BY <1>4
  <2> QED  BY <2>1, <2>2, <2>3
<1> HIDE DEF lo, hi
<1>8. Joined(p, front) /\ front[1][1] = r[1][1] /\ front[Len(front)][2] = call
  <2>1. ASSUME NEW j \in DOMAIN front PROVE Straight(p, front[j])
    BY <1>2, <1>3, <1>4, <1>7
  <2>2. ASSUME NEW j \in DOMAIN front, j + 1 \in DOMAIN front
        PROVE  /\ p.insn[front[j][2]].kind = "jump"
               /\ p.insn[front[j][2]].target = front[j + 1][1]
    <3>1. j # i
      BY <1>1, <1>4, <2>2
    <3>2. front[j] = r[j] /\ front[j + 1][1] = r[j + 1][1]
      BY <1>7, <2>2, <3>1
    <3>3. j \in DOMAIN r /\ j + 1 \in DOMAIN r
      BY <1>7, <2>2
    <3> QED  BY <1>6, <3>2, <3>3
  <2>3. 1 \in DOMAIN front
    BY <1>1, <1>4
  <2>4. front[1][1] = r[1][1]
    BY <1>7, <2>3
  <2>5. Joined(p, front)
    BY <1>4, <2>1, <2>2 DEF Joined
  <2> QED  BY <1>4, <2>4, <2>5
<1>9. ASSUME NEW j \in DOMAIN rear
      PROVE  /\ j \in Nat \ {0} /\ (i + j) - 1 \in DOMAIN r
             /\ rear[j][2] = r[(i + j) - 1][2]
             /\ j # 1 => j \in 2 .. k /\ rear[j] = r[(i + j) - 1]
             /\ j = 1 => (i + j) - 1 = i
  <2>1. /\ j \in Nat \ {0} /\ (i + j) - 1 \in DOMAIN r
        /\ j # 1 => j \in 2 .. k
        /\ j = 1 => (i + j) - 1 = i
    BY <1>1, <1>5
  <2>2. j # 1 => rear[j] = r[(i + j) - 1]
    BY <1>5, <2>1
  <2>3. j = 1 => rear[j][2] = r[(i + j) - 1][2]
    BY <1>5, <2>1 DEF hi
  <2> QED  BY <2>1, <2>2, <2>3
<1>10. Joined(p, rear) /\ rear[1][1] = t /\ rear[Len(rear)][2] = r[n][2]
  <2>1. ASSUME NEW j \in DOMAIN rear PROVE Straight(p, rear[j])
    BY <1>2, <1>3, <1>5, <1>9
  <2>2. ASSUME NEW j \in DOMAIN rear, j + 1 \in DOMAIN rear
        PROVE  /\ p.insn[rear[j][2]].kind = "jump"
               /\ p.insn[rear[j][2]].target = rear[j + 1][1]
    <3> DEFINE h == (i + j) - 1
    <3>1. h \in DOMAIN r /\ rear[j][2] = r[h][2] /\ j \in Nat \ {0}
      BY <1>9
    <3>2. (i + (j + 1)) - 1 = h + 1 /\ j + 1 # 1
      BY <1>1, <3>1
    <3> HIDE DEF h
    <3>3. h + 1 \in DOMAIN r /\ rear[j + 1] = r[h + 1]
      BY <1>9, <2>2, <3>2
    <3> QED  BY <1>6, <3>1, <3>3
  <2>3. Joined(p, rear)
    BY <1>5, <2>1, <2>2 DEF Joined
  <2>4. k \in DOMAIN rear /\ (i + k) - 1 = n
    BY <1>1, <1>5
  <2>5. rear[k][2] = r[n][2]
    BY <1>9, <2>4
  <2> QED  BY <1>5, <2>3, <2>5
<1>11. ASSUME NEW j \in DOMAIN front PROVE Part(p, front[j], r[j])
  <2>1. CASE j = i
    <3>1. r[j] = <<lo, hi>> /\ front[j] = <<lo, call>>
      BY <1>4, <1>6, <2>1
    <3>2. InsnsIn(p, front[j]) \subseteq InsnsIn(p, r[j])
      BY <1>3, <1>4, <2>1
    <3>3. r[j][1] = lo /\ r[j][2] = hi /\ front[j][1] = lo /\ front[j][2] = call
      BY <3>1
    <3> QED  BY <1>3, <1>6, <3>2, <3>3 DEF Part
  <2>2. CASE j # i
    <3>1. r[j][1] \in Nat /\ r[j][2] \in Nat /\ front[j] = r[j]
      BY <1>2, <1>7, <2>2
    <3> QED  BY <3>1 DEF Part
  <2> QED  BY <2>1, <2>2
<1>12. ASSUME NEW j \in DOMAIN rear PROVE Part(p, rear[j], r[(i + j) - 1])
  <2>1. CASE j = 1
    <3>1. (i + j) - 1 = i /\ r[i] = <<lo, hi>> /\ rear[j] = <<t, hi>>
      BY <1>5, <1>6, <1>9, <2>1
    <3>2. InsnsIn(p, rear[j]) \subseteq InsnsIn(p, r[i])
      BY <1>3, <3>1
    <3>3. r[i][1] = lo /\ r[i][2] = hi /\ rear[j][1] = t /\ rear[j][2] = hi
      BY <3>1
    <3>4. Part(p, rear[j], r[i])
      BY <1>3, <1>6, <3>2, <3>3 DEF Part
    <3> QED  BY <3>1, <3>4
  <2>2. CASE j # 1
    <3> DEFINE h == (i + j) - 1
    <3>1. h \in DOMAIN r /\ rear[j] = r[h]
      BY <1>9, <2>2
    <3> HIDE DEF h
    <3>2. r[h][1] \in Nat /\ r[h][2] \in Nat
      BY <1>2, <3>1
    <3>3. Part(p, rear[j], r[h])
      BY <3>1, <3>2 DEF Part
    <3> QED  BY <3>3 DEF h
  <2> QED  BY <2>1, <2>2
<1>13. ASSUME NEW j \in DOMAIN r, NEW a \in InsnsIn(p, r[j])
       PROVE  \/ \E h \in DOMAIN front : a \in InsnsIn(p, front[h])
              \/ \E h \in DOMAIN rear : a \in InsnsIn(p, rear[h])
  <2>1. CASE j = i
    <3>1. i \in DOMAIN front /\ 1 \in DOMAIN rear
      BY <1>1, <1>4, <1>5
    <3> QED  BY <1>3, <1>4, <1>5, <2>1, <3>1
  <2>2. CASE j \in 1 .. i - 1
    <3>1. j \in DOMAIN front /\ front[j] = r[j]
      BY <1>1, <1>4, <2>2
    <3> QED  BY <3>1
  <2>3. CASE j \in i + 1 .. n
    <3> DEFINE h == (j - i) + 1
    <3>1. h \in 2 .. k /\ h \in 1 .. k /\ (i + h) - 1 = j
      BY <1>1, <2>3
    <3> HIDE DEF h
    <3>2. h \in DOMAIN rear /\ rear[h] = r[j]
      BY <1>5, <3>1
    <3> QED  BY <3>2
  <2>4. j = i \/ j \in 1 .. i - 1 \/ j \in i + 1 .. n
    BY <1>1
  <2> QED  BY <2>1, <2>2, <2>3, <2>4
<1>14. front[i][2] < rear[1][1]
  BY <1>3, <1>4, <1>5
<1> QED
  BY <1>7, <1>8, <1>9, <1>10, <1>11, <1>12, <1>13, <1>14 DEF n, t

\* g is f with the block at b split behind the instruction call in its range i.
IsSplit(p, f, g, b, i, call) ==
    LET t == Following(p, call)
    IN  /\ Fits(p, f) /\ IsFlow(g)
        /\ b \in Starts(f) /\ t \notin Starts(f) /\ f.preExit \subseteq Starts(f)
        /\ IsCut(p, f.blocks[b].ranges, i, call, g.blocks[b].ranges, g.blocks[t].ranges)
        /\ Starts(g) = Starts(f) \cup {t}
        /\ \A x \in Starts(f) \ {b} : g.blocks[x].ranges = f.blocks[x].ranges
        /\ \A x, s : <<x, s>> \in g.edges <=>
                        \/ x # b /\ x # t /\ <<x, s>> \in f.edges
                        \/ x = b /\ s = t
                        \/ x = t /\ <<b, s>> \in f.edges
        /\ \A x : x \in g.preExit <=>
                        \/ x # b /\ x # t /\ x \in f.preExit
                        \/ x = t /\ b \in f.preExit

\* Where the ranges of a flow with a split block come from.
LEMMA SplitOrigins ==
    ASSUME NEW p \in Programs, NEW f, NEW g, NEW b, NEW i, NEW call,
           IsSplit(p, f, g, b, i, call)
    PROVE  LET t == Following(p, call)
               Block0(x)    == IF x = t THEN b ELSE x
               Index0(x, j) == IF x = t THEN (i + j) - 1 ELSE j
           IN  \A x \in Starts(g) : \A j \in DOMAIN g.blocks[x].ranges :
                  /\ Block0(x) \in Starts(f) /\ j \in Nat \ {0}
                  /\ Index0(x, j) \in DOMAIN f.blocks[Block0(x)].ranges
                  /\ Part(p, g.blocks[x].ranges[j], f.blocks[Block0(x)].ranges[Index0(x, j)])
                  /\ x = b => j \in 1 .. i
<1> DEFINE t == Following(p, call)
           Block0(x)    == IF x = t THEN b ELSE x
           Index0(x, j) == IF x = t THEN (i + j) - 1 ELSE j
<1> SUFFICES ASSUME NEW x \in Starts(g), NEW j \in DOMAIN g.blocks[x].ranges
             PROVE  /\ Block0(x) \in Starts(f) /\ j \in Nat \ {0}
                    /\ Index0(x, j) \in DOMAIN f.blocks[Block0(x)].ranges
                    /\ Part(p, g.blocks[x].ranges[j], f.blocks[Block0(x)].ranges[Index0(x, j)])
                    /\ x = b => j \in 1 .. i
  OBVIOUS
<1>1. /\ IsCut(p, f.blocks[b].ranges, i, call, g.blocks[b].ranges, g.blocks[t].ranges)
      /\ Fits(p, f) /\ b \in Starts(f) /\ b # t
      /\ x # t => x \in Starts(f)
      /\ x # t /\ x # b => g.blocks[x].ranges = f.blocks[x].ranges
  BY DEF IsSplit
<1> HIDE DEF t
<1>2. CASE x = t
  <2>1. Block0(x) = b /\ Index0(x, j) = (i + j) - 1
    BY <1>2
  <2> HIDE DEF Block0, Index0
  <2> DEFINE r == f.blocks[b].ranges
             rear == g.blocks[t].ranges
             h == (i + j) - 1
  <2>2. j \in DOMAIN rear
    BY <1>2
  <2> HIDE DEF r, rear, h
  <2>3. IsCut(p, r, i, call, g.blocks[b].ranges, rear)
    BY <1>1 DEF r, rear
  <2>4. j \in Nat \ {0} /\ h \in DOMAIN r /\ Part(p, rear[j], r[h])
    BY <2>2, <2>3, CutParts DEF h
  <2> QED  BY <1>1, <1>2, <2>1, <2>4 DEF r, rear, h
<1>3. CASE x = b
  <2>1. Block0(x) = b /\ Index0(x, j) = j
    BY <1>1, <1>3
  <2> HIDE DEF Block0, Index0
  <2> DEFINE r == f.blocks[b].ranges
             front == g.blocks[b].ranges
  <2>2. j \in DOMAIN front
    BY <1>3
  <2> HIDE DEF r, front
  <2>3. IsCut(p, r, i, call, front, g.blocks[t].ranges)
    BY <1>1 DEF r, front
  <2>4. j \in 1 .. i /\ j \in DOMAIN r /\ Part(p, front[j], r[j])
    BY <2>2, <2>3, CutParts
  <2>5. i \in Nat
    BY <2>3, CutFacts
  <2>6. j \in Nat \ {0}
    BY <2>4, <2>5
  <2> QED  BY <1>1, <1>3, <2>1, <2>4, <2>6 DEF r, front
<1>4. CASE x # b /\ x # t
  <2>1. Block0(x) = x /\ Index0(x, j) = j /\ x \in Starts(f)
    BY <1>1, <1>4
  <2> HIDE DEF Block0, Index0
  <2> DEFINE r == f.blocks[x].ranges
  <2>2. g.blocks[x].ranges = r
    BY <1>1, <1>4
  <2>3. r \in Seq(AddrRange)
    BY <1>1, <2>1, BlockFacts
  <2>4. j \in DOMAIN r
    BY <2>2
  <2> HIDE DEF r
  <2>5. j \in Nat \ {0}
    BY <2>3, <2>4
  <2>6. r[j] \in AddrRange
    BY <2>3, <2>4
  <2>7. Part(p, r[j], r[j])
    BY <2>6 DEF AddrRange, Part
  <2> QED  BY <1>4, <2>1, <2>2, <2>4, <2>5, <2>7 DEF r
<1> QED  BY <1>2, <1>3, <1>4

\* A block that is split behind an instruction inside one of its ranges, and the rest of
\* it, fit.
LEMMA SplitFits ==
    ASSUME NEW p \in Programs, NEW f, NEW g, NEW b, NEW i, NEW call,
           IsSplit(p, f, g, b, i, call)
    PROVE  /\ Fits(p, g) /\ Covered(p, g) = Covered(p, f)
           /\ LastAddr(g.blocks[b]) = call
           /\ LastAddr(g.blocks[Following(p, call)]) = LastAddr(f.blocks[b])
           /\ Disjoint(f) => Disjoint(g)
<1> DEFINE r  == f.blocks[b].ranges
           n  == Len(r)
           t  == Following(p, call)
           front == g.blocks[b].ranges
           rear  == g.blocks[t].ranges
           Block0(x)    == IF x = t THEN b ELSE x
           Index0(x, j) == IF x = t THEN (i + j) - 1 ELSE j
<1>1. /\ Fits(p, f) /\ IsFlow(g) /\ b \in Starts(f) /\ b # t /\ t \notin Starts(f)
      /\ IsCut(p, r, i, call, front, rear)
      /\ Starts(g) = Starts(f) \cup {t}
  BY DEF IsSplit
<1>2. /\ LastAddr(f.blocks[b]) = r[n][2] /\ r[1][1] = b
      /\ b \in f.preExit <=> p.insn[r[n][2]].kind = "ret"
      /\ \A s : <<b, s>> \in f.edges <=> s \in GoesTo(p, r[n][2])
  <2>1. /\ LastAddr(f.blocks[b]) = r[n][2] /\ r[1][1] = b
        /\ \A s : <<b, s>> \in f.edges <=> s \in GoesTo(p, r[n][2])
    BY <1>1, BlockFacts
  <2>2. BlockFits(p, f, b)
    BY <1>1 DEF Fits
  <2> QED  BY <2>1, <2>2 DEF BlockFits
<1> HIDE DEF r, n, t, front, rear
<1>3. /\ Joined(p, front) /\ front[1][1] = b /\ front[Len(front)][2] = call
      /\ Joined(p, rear) /\ rear[1][1] = t /\ rear[Len(rear)][2] = r[n][2]
  BY <1>1, <1>2, CutParts DEF t, n
<1>4. LastAddr(g.blocks[b]) = call /\ LastAddr(g.blocks[t]) = r[n][2]
  BY <1>3 DEF LastAddr, front, rear
<1>5. GoesTo(p, call) = {t} /\ p.insn[call].kind # "ret"
  <2>1. GoesTo(p, call) = {t} /\ ~EndsBlock(p, call)
    BY <1>1, CutFacts DEF t
  <2> QED  BY <2>1 DEF EndsBlock
<1>6. /\ \A s : <<b, s>> \in g.edges <=> s = t
      /\ \A s : <<t, s>> \in g.edges <=> <<b, s>> \in f.edges
      /\ b \notin g.preExit
      /\ t \in g.preExit <=> b \in f.preExit
  BY <1>1 DEF IsSplit, t
<1>7. ASSUME NEW x \in Starts(f) \ {b}
      PROVE  /\ g.blocks[x].ranges = f.blocks[x].ranges
             /\ \A s : <<x, s>> \in g.edges <=> <<x, s>> \in f.edges
             /\ x \in g.preExit <=> x \in f.preExit
  BY <1>1 DEF IsSplit, t
<1>8. ASSUME NEW x \in Starts(g)
      PROVE  /\ Joined(p, g.blocks[x].ranges) /\ g.blocks[x].ranges[1][1] = x
             /\ \A s : <<x, s>> \in g.edges <=> s \in GoesTo(p, LastAddr(g.blocks[x]))
             /\ x \in g.preExit <=> p.insn[LastAddr(g.blocks[x])].kind = "ret"
  <2>1. CASE x = b
    <3>1. \A s : s = t <=> s \in GoesTo(p, call)
      BY <1>5
    <3> QED  BY <1>3, <1>4, <1>5, <1>6, <2>1, <3>1 DEF front
  <2>2. CASE x = t
    BY <1>2, <1>3, <1>4, <1>6, <2>2 DEF rear
  <2>3. CASE x \in Starts(f) \ {b}
    <3>1. LastAddr(g.blocks[x]) = LastAddr(f.blocks[x])
      BY <1>7, <2>3 DEF LastAddr
    <3>2. BlockFits(p, f, x)
      BY <1>1, <2>3 DEF Fits
    <3>3. \A s : <<x, s>> \in f.edges <=> s \in GoesTo(p, LastAddr(f.blocks[x]))
      BY <1>1, <2>3, BlockFacts
    <3> QED  BY <1>7, <2>3, <3>1, <3>2, <3>3 DEF BlockFits
  <2> QED  BY <1>1, <2>1, <2>2, <2>3
<1>9. ASSUME NEW e \in g.edges PROVE e[1] \in Starts(g)
  <2>1. e = <<e[1], e[2]>>
    BY <1>1, FlowFields
  <2> DEFINE x == e[1]
             s == e[2]
  <2>2. <<x, s>> \in g.edges
    BY <2>1
  <2> HIDE DEF x, s
  <2>3. x = b \/ x = t \/ <<x, s>> \in f.edges
    BY <2>2 DEF IsSplit, t
  <2>4. ASSUME <<x, s>> \in f.edges PROVE x \in Starts(f)
    <3> DEFINE d == <<x, s>>
    <3>1. d[1] = x
      OBVIOUS
    <3> HIDE DEF d
    <3>2. d \in f.edges
      BY <2>4 DEF d
    <3> QED  BY <1>1, <3>1, <3>2 DEF Fits
  <2> QED  BY <1>1, <2>3, <2>4 DEF x
<1>10. Fits(p, g)
  BY <1>1, <1>8, <1>9, FitsFromParts
<1>11. ASSUME NEW x \in Starts(g), NEW j \in DOMAIN g.blocks[x].ranges
       PROVE  /\ Block0(x) \in Starts(f) /\ j \in Nat \ {0}
              /\ Index0(x, j) \in DOMAIN f.blocks[Block0(x)].ranges
              /\ Part(p, g.blocks[x].ranges[j], f.blocks[Block0(x)].ranges[Index0(x, j)])
              /\ x = b => j \in 1 .. i
  BY SplitOrigins DEF t
<1> HIDE DEF Block0, Index0
<1>12. ASSUME NEW a \in Covered(p, g) PROVE a \in Covered(p, f)
  <2>1. PICK x \in Starts(g) :
            \E j \in DOMAIN g.blocks[x].ranges : a \in InsnsIn(p, g.blocks[x].ranges[j])
    BY CoveredFacts
  <2>2. PICK j \in DOMAIN g.blocks[x].ranges : a \in InsnsIn(p, g.blocks[x].ranges[j])
    BY <2>1
  <2>3. a \in InsnsIn(p, f.blocks[Block0(x)].ranges[Index0(x, j)])
    BY <1>11, <2>2 DEF Part
  <2> QED  BY <1>11, <2>3, CoveredFacts
<1>13. ASSUME NEW a \in Covered(p, f) PROVE a \in Covered(p, g)
  <2>1. PICK x \in Starts(f) :
            \E j \in DOMAIN f.blocks[x].ranges : a \in InsnsIn(p, f.blocks[x].ranges[j])
    BY CoveredFacts
  <2>2. PICK j \in DOMAIN f.blocks[x].ranges : a \in InsnsIn(p, f.blocks[x].ranges[j])
    BY <2>1
  <2>3. CASE x # b
    <3>1. g.blocks[x].ranges = f.blocks[x].ranges /\ x \in Starts(g)
      BY <1>1, <1>7, <2>3
    <3> QED  BY <2>2, <3>1, CoveredFacts
  <2>4. CASE x = b
    <3>1. j \in DOMAIN r /\ a \in InsnsIn(p, r[j])
      BY <2>2, <2>4 DEF r
    <3>2. \/ \E h \in DOMAIN front : a \in InsnsIn(p, front[h])
          \/ \E h \in DOMAIN rear : a \in InsnsIn(p, rear[h])
      BY <1>1, <3>1, CutParts
    <3>3. b \in Starts(g) /\ t \in Starts(g)
      BY <1>1
    <3> QED  BY <3>2, <3>3, CoveredFacts DEF front, rear
  <2> QED  BY <2>3, <2>4
<1>14. ASSUME Disjoint(f) PROVE Disjoint(g)
  <2>1. ASSUME NEW x \in Starts(g), NEW y \in Starts(g),
               NEW j \in DOMAIN g.blocks[x].ranges, NEW h \in DOMAIN g.blocks[y].ranges
        PROVE  \/ x = y /\ j = h
               \/ g.blocks[x].ranges[j][2] < g.blocks[y].ranges[h][1]
               \/ g.blocks[y].ranges[h][2] < g.blocks[x].ranges[j][1]
    <3> DEFINE u == Block0(x)
               v == Block0(y)
               m1 == Index0(x, j)
               m2 == Index0(y, h)
               q1 == g.blocks[x].ranges[j]
               q2 == g.blocks[y].ranges[h]
               o1 == f.blocks[u].ranges[m1]
               o2 == f.blocks[v].ranges[m2]
    <3>1. /\ u \in Starts(f) /\ m1 \in DOMAIN f.blocks[u].ranges /\ j \in Nat \ {0}
          /\ Part(p, q1, o1) /\ (x = b => j \in 1 .. i)
      BY <1>11
    <3>2. /\ v \in Starts(f) /\ m2 \in DOMAIN f.blocks[v].ranges /\ h \in Nat \ {0}
          /\ Part(p, q2, o2) /\ (y = b => h \in 1 .. i)
      BY <1>11
    <3> HIDE DEF q1, q2
    <3>3. CASE u = v /\ m1 = m2
      <4>1. i \in Nat /\ front[i][2] < rear[1][1]
        BY <1>1, CutFacts, CutParts
      <4>2. \/ x = y /\ j = h
            \/ x = b /\ y = t /\ j = i /\ h = 1
            \/ x = t /\ y = b /\ h = i /\ j = 1
        BY <1>1, <3>1, <3>2, <3>3, <4>1 DEF Block0, Index0
      <4> QED  BY <4>1, <4>2 DEF q1, q2, front, rear
    <3>4. CASE ~(u = v /\ m1 = m2)
      <4> HIDE DEF u, v, m1, m2
      <4>1. o1[2] < o2[1] \/ o2[2] < o1[1]
        BY <1>14, <3>1, <3>2, <3>4 DEF Disjoint
      <4> HIDE DEF o1, o2
      <4>2. q1[2] < q2[1] \/ q2[2] < q1[1]
        BY <3>1, <3>2, <4>1 DEF Part
      <4> QED  BY <4>2 DEF q1, q2
    <3> QED  BY <3>3, <3>4
  <2> QED  BY <2>1 DEF Disjoint
<1> QED  BY <1>2, <1>4, <1>10, <1>12, <1>13, <1>14 DEF t

-----------------------------------------------------------------------------
(* First part: what a pass is about to use exists.                         *)

Inv == prog \in Programs /\ PiecesExist

-----------------------------------------------------------------------------
(* The invariant holds at the start and when the process dies.             *)

\* FlowGenerator starts in a state of the invariant.
LEMMA InitInv == Init => Inv
<1> SUFFICES ASSUME Init PROVE Inv
  OBVIOUS
<1>1. prog.entry \in Code(prog) /\ Code(prog) \subseteq Nat
  BY CodeFacts, ProgramFacts DEF Init, ClosedCode
<1>2. /\ flow.blocks = << >> /\ Starts(flow) = {} /\ flow.edges = {}
      /\ flow.postEntry = prog.entry /\ flow.preExit = {} /\ flow.callLocs = {}
  BY DEF Init, EmptyFlow, Starts
<1>3. IsFlow(flow)
  BY <1>1, <1>2 DEF Init, EmptyFlow, IsFlow
<1>4. queue \in Seq(Code(prog)) /\ Queued = {prog.entry}
  BY <1>1 DEF Init, Queued
<1>5. TypeOK
  BY <1>1, <1>3, <1>4 DEF Init, TypeOK, Passes
<1>6. CandidatesDecoded /\ WorklistClosed
  BY <1>2, <1>4 DEF Init, CandidatesDecoded, WorklistClosed
<1>7. NoDanglingEdges /\ StartsDecoded /\ TodoPresent /\ MergesSound
  BY <1>2 DEF Init, NoDanglingEdges, Traced, StartsDecoded, TodoPresent, MergesSound
<1>8. CallsDecoded /\ CurrentHasCall
  BY <1>2 DEF Init, CallsDecoded, CurrentHasCall
<1> QED  BY <1>5, <1>6, <1>7, <1>8 DEF Init, Inv, PiecesExist

\* A failing assertion keeps the invariant: no variable but the pass changes.
LEMMA AbortInv == Inv /\ Abort => Inv'
<1> SUFFICES ASSUME Inv, Abort PROVE Inv'
  OBVIOUS
<1>1. prog' \in Programs /\ TypeOK'
  BY DEF Inv, PiecesExist, Abort, TypeOK, Passes
<1>2. CandidatesDecoded' /\ CallsDecoded'
  BY DEF Inv, PiecesExist, Abort, CandidatesDecoded, CallsDecoded
<1>3. CurrentHasCall'
  BY DEF Inv, PiecesExist, Abort, CurrentHasCall, CallRanges
<1>4. WorklistClosed' /\ NoDanglingEdges' /\ StartsDecoded' /\ TodoPresent' /\ MergesSound'
  BY DEF Abort, WorklistClosed, NoDanglingEdges, Traced, StartsDecoded, TodoPresent, MergesSound
<1> QED  BY <1>1, <1>2, <1>3, <1>4 DEF Inv, PiecesExist

-----------------------------------------------------------------------------
(* The worklist.                                                           *)

\* The head of the worklist is decoded, and so is the rest.
LEMMA QueueFacts ==
    ASSUME Inv, queue # << >>
    PROVE  /\ Head(queue) \in Code(prog)
           /\ Tail(queue) \in Seq(Code(prog))
           /\ Queued = {Head(queue)} \cup {Tail(queue)[i] : i \in DOMAIN Tail(queue)}
<1>1. queue \in Seq(Code(prog))
  BY DEF Inv, PiecesExist, CandidatesDecoded
<1>2. /\ Head(queue) \in Code(prog) /\ Tail(queue) \in Seq(Code(prog))
      /\ Len(Tail(queue)) = Len(queue) - 1
      /\ \A i \in 1 .. Len(Tail(queue)) : Tail(queue)[i] = queue[i + 1]
  BY <1>1, HeadTailProperties
<1>3. Queued \subseteq {Head(queue)} \cup {Tail(queue)[i] : i \in DOMAIN Tail(queue)}
  <2>1. SUFFICES ASSUME NEW i \in DOMAIN queue, queue[i] # Head(queue)
                 PROVE  \E j \in DOMAIN Tail(queue) : queue[i] = Tail(queue)[j]
    BY DEF Queued
  <2>2. i \in 1 .. Len(queue) /\ i # 1
    BY <1>1, <2>1
  <2>3. i - 1 \in DOMAIN Tail(queue) /\ (i - 1) + 1 = i /\ i - 1 \in 1 .. Len(Tail(queue))
    BY <1>1, <1>2, <2>2
  <2> QED  BY <1>2, <2>3
<1>4. {Head(queue)} \cup {Tail(queue)[i] : i \in DOMAIN Tail(queue)} \subseteq Queued
  <2>1. 1 \in DOMAIN queue /\ Head(queue) = queue[1]
    BY <1>1
  <2>2. ASSUME NEW i \in 1 .. Len(Tail(queue))
        PROVE  i + 1 \in DOMAIN queue /\ Tail(queue)[i] = queue[i + 1]
    BY <1>1, <1>2
  <2> QED  BY <1>2, <2>1, <2>2 DEF Queued
<1> QED  BY <1>2, <1>3, <1>4

\* Dropping a candidate seen before keeps the invariant.
LEMMA SkipCandidateInv == Inv /\ SkipCandidate => Inv'
<1> SUFFICES ASSUME Inv, SkipCandidate PROVE Inv'
  OBVIOUS
<1>1. /\ queue' = Tail(queue) /\ Tail(queue) \in Seq(Code(prog))
      /\ Queued = {Head(queue)} \cup Queued' /\ Head(queue) \in visited
  BY QueueFacts DEF SkipCandidate, Queued
<1>2. Code(prog) \subseteq Nat
  BY CodeFacts, ProgramFacts DEF Inv
<1>3. prog' \in Programs /\ TypeOK'
  BY <1>1, <1>2 DEF Inv, PiecesExist, SkipCandidate, TypeOK
<1>4. CandidatesDecoded'
  BY <1>1 DEF Inv, PiecesExist, SkipCandidate, CandidatesDecoded
<1>5. WorklistClosed'
  BY <1>1 DEF Inv, PiecesExist, SkipCandidate, WorklistClosed
<1>6. NoDanglingEdges' /\ StartsDecoded' /\ TodoPresent' /\ MergesSound'
  BY DEF Inv, PiecesExist, SkipCandidate, NoDanglingEdges, Traced, StartsDecoded,
         TodoPresent, MergesSound
<1>7. CallsDecoded' /\ CurrentHasCall'
  BY DEF Inv, PiecesExist, SkipCandidate, CallsDecoded, CurrentHasCall, CallRanges
<1> QED  BY <1>3, <1>4, <1>5, <1>6, <1>7 DEF Inv, PiecesExist

\* When the worklist is empty, every edge leads to a block.
LEMMA FinishWorklistInv == Inv /\ FinishWorklist => Inv'
<1> SUFFICES ASSUME Inv, FinishWorklist PROVE Inv'
  OBVIOUS
<1>1. Queued = {}
  BY DEF FinishWorklist, Queued
<1>2. prog' \in Programs /\ TypeOK'
  BY DEF Inv, PiecesExist, FinishWorklist, TypeOK, Passes, IsFlow, Starts
<1>3. CandidatesDecoded' /\ WorklistClosed'
  BY DEF Inv, PiecesExist, FinishWorklist, CandidatesDecoded, WorklistClosed
<1>4. NoDanglingEdges'
  BY <1>1 DEF Inv, PiecesExist, FinishWorklist, NoDanglingEdges, WorklistClosed
<1>5. StartsDecoded' /\ TodoPresent' /\ MergesSound'
  BY DEF Inv, PiecesExist, FinishWorklist, StartsDecoded, TodoPresent, MergesSound
<1>6. CallsDecoded' /\ CurrentHasCall'
  BY DEF Inv, PiecesExist, FinishWorklist, CallsDecoded, CurrentHasCall, CallRanges
<1> QED  BY <1>2, <1>3, <1>4, <1>5, <1>6 DEF Inv, PiecesExist

\* What tracing a candidate adds to the flow and to the worklist.
LEMMA TraceBlockStep ==
    ASSUME Inv, TraceBlock
    PROVE  LET start == Head(queue)
               last  == Min(BlockEnds(prog, start))
           IN  /\ pass = "trace" /\ pass' = "trace" /\ queue # << >>
               /\ start \in Code(prog) /\ start \notin visited
               /\ visited' = visited \cup {start}
               /\ queue' \in Seq(Code(prog))
               /\ Queued = {start} \cup {Tail(queue)[i] : i \in DOMAIN Tail(queue)}
               /\ Queued' = {Tail(queue)[i] : i \in DOMAIN Tail(queue)} \cup TargetSet(prog, last)
               /\ IsFlow(flow') /\ Starts(flow') = Starts(flow) \cup {start}
               /\ (flow').edges = flow.edges \cup {<<start, t>> : t \in TargetSet(prog, last)}
               /\ (flow').postEntry = flow.postEntry
               /\ (flow').preExit = IF prog.insn[last].kind = "ret"
                                    THEN flow.preExit \cup {start} ELSE flow.preExit
               /\ (flow').callLocs = flow.callLocs \cup CallsIn(prog, start, last)
               /\ (flow').blocks[start] = NewBlock(<< <<start, last>> >>, "NORMAL")
               /\ \A b \in Starts(flow) : (flow').blocks[b] = flow.blocks[b]
               /\ UNCHANGED <<prog, pass, todo, merges, pending, current>>
<1> DEFINE start  == Head(queue)
           last   == Min(BlockEnds(prog, start))
           edges  == {<<start, t>> : t \in TargetSet(prog, last)}
           added  == AddEdges(flow, edges)
           traced == AddNewContiguousBlock(added, start, last)
           exits  == IF prog.insn[last].kind = "ret"
                     THEN traced.preExit \cup {start} ELSE traced.preExit
           calls  == traced.callLocs \cup CallsIn(prog, start, last)
<1>1. /\ prog \in Programs /\ IsFlow(flow) /\ pass = "trace" /\ queue # << >>
      /\ start \notin visited /\ Starts(flow) = visited
      /\ visited' = visited \cup {start}
      /\ queue' = Tail(queue) \o Targets(prog, last)
      /\ flow' = [traced EXCEPT !.preExit = exits, !.callLocs = calls]
      /\ UNCHANGED <<prog, pass, todo, merges, pending, current>>
  BY DEF Inv, PiecesExist, TypeOK, WorklistClosed, TraceBlock
<1>2. /\ start \in Code(prog) /\ Tail(queue) \in Seq(Code(prog))
      /\ Queued = {start} \cup {Tail(queue)[i] : i \in DOMAIN Tail(queue)}
  BY <1>1, QueueFacts
<1>3. /\ last \in Addresses(prog) /\ TargetSet(prog, last) \subseteq Code(prog)
      /\ Targets(prog, last) \in Seq(Code(prog))
  BY <1>1, <1>2, BlockEndFacts
<1>4. Code(prog) \subseteq Addresses(prog) /\ Addresses(prog) \subseteq Nat
  BY <1>1, CodeFacts, ProgramFacts
<1>5. TargetSet(prog, last) = {Targets(prog, last)[i] : i \in DOMAIN Targets(prog, last)}
  BY DEF TargetSet
<1> HIDE DEF start, last
<1>6. edges \in SUBSET (Nat \X Nat)
  BY <1>2, <1>3, <1>4
<1>7. /\ IsFlow(added) /\ Starts(added) = Starts(flow) /\ added.edges = flow.edges \cup edges
      /\ added.blocks = flow.blocks
      /\ added.postEntry = flow.postEntry /\ added.preExit = flow.preExit
      /\ added.callLocs = flow.callLocs
  <2> HIDE DEF edges
  <2> QED  BY <1>1, <1>6, AddEdgesFlow
<1>8. start \in Nat /\ last \in Nat
  BY <1>2, <1>3, <1>4
<1> HIDE DEF added
<1>9. /\ IsFlow(traced) /\ Starts(traced) = Starts(flow) \cup {start}
      /\ traced.edges = flow.edges \cup edges
      /\ traced.postEntry = flow.postEntry /\ traced.preExit = flow.preExit
      /\ traced.callLocs = flow.callLocs
  <2> HIDE DEF edges
  <2>1. /\ IsFlow(traced) /\ Starts(traced) = Starts(added) \cup {start}
        /\ traced.edges = added.edges
        /\ traced.postEntry = added.postEntry /\ traced.preExit = added.preExit
        /\ traced.callLocs = added.callLocs
    BY <1>7, <1>8, AddNewContiguousBlockFlow
  <2> HIDE DEF traced
  <2> QED  BY <1>7, <2>1
<1>10. /\ traced.blocks[start] = NewBlock(<< <<start, last>> >>, "NORMAL")
       /\ \A b \in Starts(flow) : traced.blocks[b] = flow.blocks[b]
  <2>1. start \notin Starts(added)
    BY <1>1, <1>7
  <2>2. /\ traced.blocks[start] = NewBlock(<< <<start, last>> >>, "NORMAL")
        /\ \A b \in Starts(added) : traced.blocks[b] = added.blocks[b]
    BY <1>7, <1>8, <2>1, AddNewContiguousBlockContent
  <2> HIDE DEF traced
  <2> QED  BY <1>7, <2>2
<1> HIDE DEF traced
<1>11. exits \in SUBSET Nat /\ calls \in SUBSET Nat
  BY <1>4, <1>8, <1>9, FlowFields DEF CallsIn
<1>12. /\ exits = IF prog.insn[last].kind = "ret"
                  THEN flow.preExit \cup {start} ELSE flow.preExit
       /\ calls = flow.callLocs \cup CallsIn(prog, start, last)
  BY <1>9
<1> HIDE DEF exits, calls
<1>13. /\ IsFlow(flow') /\ Starts(flow') = Starts(flow) \cup {start}
       /\ (flow').blocks = traced.blocks
       /\ (flow').edges = flow.edges \cup edges
       /\ (flow').postEntry = flow.postEntry /\ (flow').preExit = exits
       /\ (flow').callLocs = calls
  <2> HIDE DEF edges
  <2> QED  BY <1>1, <1>9, <1>11 DEF IsFlow, Starts
<1>14. queue' \in Seq(Code(prog))
  BY <1>1, <1>2, <1>3, ConcatProperties
<1>15. Queued' = {Tail(queue)[i] : i \in DOMAIN Tail(queue)} \cup TargetSet(prog, last)
  <2>1. Range(queue') = Range(Tail(queue)) \cup Range(Targets(prog, last))
    <3> DEFINE s == Tail(queue)
               t == Targets(prog, last)
    <3>1. s \in Seq(Code(prog)) /\ t \in Seq(Code(prog)) /\ queue' = s \o t
      BY <1>1, <1>2, <1>3
    <3> HIDE DEF s, t
    <3>2. Range(queue') = Range(s) \cup Range(t)
      BY <3>1, RangeConcatenation
    <3> QED  BY <3>2 DEF s, t
  <2> QED  BY <1>5, <2>1 DEF Range, Queued
<1>16. /\ (flow').blocks[start] = NewBlock(<< <<start, last>> >>, "NORMAL")
       /\ \A b \in Starts(flow) : (flow').blocks[b] = flow.blocks[b]
  BY <1>10, <1>13
<1> HIDE DEF edges
<1>17. /\ pass = "trace" /\ pass' = "trace" /\ queue # << >>
       /\ start \in Code(prog) /\ start \notin visited /\ visited' = visited \cup {start}
       /\ UNCHANGED <<prog, pass, todo, merges, pending, current>>
  BY <1>1, <1>2
<1> QED  BY <1>2, <1>12, <1>13, <1>14, <1>15, <1>16, <1>17 DEF start, last, edges

\* Tracing a candidate keeps the worklist closed.
LEMMA TraceBlockInv == Inv /\ TraceBlock => Inv'
<1> SUFFICES ASSUME Inv, TraceBlock PROVE Inv'
  OBVIOUS
<1> DEFINE start  == Head(queue)
           last   == Min(BlockEnds(prog, start))
           edges  == {<<start, t>> : t \in TargetSet(prog, last)}
           waiting == {Tail(queue)[i] : i \in DOMAIN Tail(queue)}
           calls  == CallsIn(prog, start, last)
<1>1. /\ pass = "trace" /\ start \in Code(prog)
      /\ visited' = visited \cup {start} /\ queue' \in Seq(Code(prog))
      /\ UNCHANGED <<prog, pass, todo, merges, pending, current>>
  BY TraceBlockStep
<1>2. Queued = {start} \cup waiting /\ Queued' = waiting \cup TargetSet(prog, last)
  BY TraceBlockStep
<1>3. /\ IsFlow(flow') /\ Starts(flow') = Starts(flow) \cup {start}
      /\ (flow').edges = flow.edges \cup edges
      /\ (flow').postEntry = flow.postEntry
      /\ (flow').preExit \subseteq flow.preExit \cup {start}
      /\ (flow').callLocs = flow.callLocs \cup calls
  BY TraceBlockStep
<1>4. /\ prog \in Programs
      /\ Code(prog) \subseteq Addresses(prog) /\ Addresses(prog) \subseteq Nat
  BY CodeFacts, ProgramFacts DEF Inv
<1>5. \A a \in calls : a \in Addresses(prog) /\ prog.insn[a].kind = "call"
  BY DEF CallsIn
<1>6. \A e \in edges : e[1] = start /\ e[2] \in TargetSet(prog, last)
  OBVIOUS
<1> HIDE DEF start, last, waiting, edges, calls
<1>7. prog' \in Programs /\ TypeOK'
  <2>1. Code(prog) \subseteq Nat
    BY <1>4
  <2>2. queue' \in Seq(Nat)
    BY <1>1, <2>1
  <2>3. visited' \subseteq Nat
    BY <1>1, <2>1 DEF Inv, PiecesExist, TypeOK
  <2> QED  BY <1>1, <1>3, <2>2, <2>3 DEF Inv, PiecesExist, TypeOK
<1>8. CandidatesDecoded'
  BY <1>1 DEF Inv, PiecesExist, CandidatesDecoded
<1>9. WorklistClosed'
  BY <1>1, <1>2, <1>3, <1>6 DEF Inv, PiecesExist, WorklistClosed
<1>10. StartsDecoded'
  BY <1>1, <1>3, <1>4 DEF Inv, PiecesExist, StartsDecoded
<1>11. NoDanglingEdges' /\ TodoPresent' /\ MergesSound'
  BY <1>1 DEF NoDanglingEdges, Traced, TodoPresent, MergesSound
<1>12. CallsDecoded' /\ CurrentHasCall'
  BY <1>1, <1>3, <1>5 DEF Inv, PiecesExist, CallsDecoded, CurrentHasCall
<1> QED  BY <1>7, <1>8, <1>9, <1>10, <1>11, <1>12 DEF Inv, PiecesExist

-----------------------------------------------------------------------------
(* fixOverlaps.                                                            *)

\* Passing over a block without overlap keeps the invariant.
LEMMA KeepBlockInv == Inv /\ KeepBlock => Inv'
<1> SUFFICES ASSUME Inv, KeepBlock PROVE Inv'
  OBVIOUS
<1>1. prog' \in Programs /\ TypeOK'
  BY DEF Inv, PiecesExist, KeepBlock, TypeOK
<1>2. CandidatesDecoded' /\ WorklistClosed' /\ NoDanglingEdges' /\ StartsDecoded'
  BY DEF Inv, PiecesExist, KeepBlock, CandidatesDecoded, WorklistClosed,
         NoDanglingEdges, Traced, StartsDecoded
<1>3. TodoPresent' /\ MergesSound'
  BY DEF Inv, PiecesExist, KeepBlock, TodoPresent, MergesSound
<1>4. CallsDecoded' /\ CurrentHasCall'
  BY DEF Inv, PiecesExist, KeepBlock, CallsDecoded, CurrentHasCall, CallRanges
<1> QED  BY <1>1, <1>2, <1>3, <1>4 DEF Inv, PiecesExist

\* Trimming dies, or changes one block and its edges.
LEMMA TrimOverlapStep ==
    ASSUME Inv, TrimOverlap
    PROVE  LET b    == Min(todo)
               next == StartAfter(b)
               last == next - prog.insn[Max({a \in Addresses(prog) : a < next})].size
           IN  \/ Abort
               \/ /\ pass = "overlaps" /\ todo' = todo \ {b}
                  /\ b \in todo /\ b \in Starts(flow) /\ b < next
                  /\ next \in Starts(flow) /\ \A x \in Starts(flow) : b < x => next <= x
                  /\ last \in Nat
                  /\ IsFlow(flow') /\ Starts(flow') = Starts(flow)
                  /\ (flow').edges = EdgesAvoiding(flow, b)
                                     \cup (IncomingKept(b, next) \cup {<<b, next>>})
                  /\ (flow').postEntry = flow.postEntry
                  /\ (flow').preExit = flow.preExit \ {b}
                  /\ (flow').callLocs = flow.callLocs
                  /\ (flow').blocks[b] = NewBlock(<< <<b, last>> >>, "NORMAL")
                  /\ \A x \in Starts(flow) \ {b} : (flow').blocks[x] = flow.blocks[x]
                  /\ UNCHANGED <<prog, pass, queue, visited, merges, pending, current>>
<1> DEFINE b       == Min(todo)
           next    == StartAfter(b)
           before  == {a \in Addresses(prog) : a < next}
           last    == next - prog.insn[Max(before)].size
           removed == RemoveBlock(flow, b)
           cut     == AddNewContiguousBlock(removed, b, last)
           new     == IncomingKept(b, next) \cup {<<b, next>>}
<1>1. /\ prog \in Programs /\ IsFlow(flow) /\ pass = "overlaps" /\ todo # {}
      /\ todo \in SUBSET Nat /\ todo \subseteq Starts(flow)
      /\ Starts(flow) \subseteq Addresses(prog) /\ Addresses(prog) \in SUBSET Nat
  BY ProgramFacts, CodeFacts DEF Inv, PiecesExist, TypeOK, TrimOverlap, TodoPresent, StartsDecoded
<1>2. CASE next \notin Addresses(prog)
  <2>1. Abort
    BY <1>2 DEF TrimOverlap
  <2> QED  BY <2>1
<1>3. CASE next \in Addresses(prog)
  <2>1. /\ flow' = AddEdges(cut, new) /\ todo' = todo \ {b}
        /\ UNCHANGED <<prog, pass, queue, visited, merges, pending, current>>
    BY <1>3 DEF TrimOverlap
  <2>2. b \in todo /\ b \in Starts(flow) /\ b \in Addresses(prog) /\ b \in Nat
    BY <1>1, MinOfNaturals
  <2>3. /\ next \in Starts(flow) /\ b < next /\ next \in Nat
        /\ \A x \in Starts(flow) : b < x => next <= x
    <3> DEFINE later == {x \in Starts(flow) : x > b}
    <3>1. later # {}
      <4>1. SUFFICES ASSUME later = {} PROVE FALSE
        OBVIOUS
      <4>2. next = Cardinality(Starts(flow))
        BY <4>1 DEF StartAfter, FirstStart
      <4>3. /\ Cardinality(Starts(flow)) <= Cardinality(Addresses(prog))
            /\ Cardinality(Starts(flow)) \in Nat /\ Cardinality(Addresses(prog)) \in Nat
        BY <1>1, ProgramFacts, FS_Subset, FS_CardinalityType
      <4>4. Cardinality(Addresses(prog)) < next
        BY <1>1, <1>3, ProgramFacts
      <4> QED  BY <4>2, <4>3, <4>4
    <3>2. next = Min(later)
      BY <3>1 DEF StartAfter, FirstStart
    <3>3. next \in later /\ \A x \in later : next <= x
      BY <1>1, <3>1, <3>2, MinOfNaturals
    <3> HIDE DEF next
    <3>4. b \in Nat /\ \A x \in Starts(flow) : x \in Nat
      BY <1>1, <2>2
    <3> QED  BY <3>3, <3>4
  <2> HIDE DEF b, next
  <2>4. last \in Nat
    <3>1. before \in SUBSET Nat /\ before # {} /\ \A x \in before : x <= next
      BY <1>1, <2>2, <2>3
    <3>2. Max(before) \in before
      BY <2>3, <3>1, MaxOfNaturals
    <3> DEFINE m == Max(before)
    <3>3. m \in Addresses(prog) /\ m < next /\ m \in Nat
      BY <1>1, <3>2
    <3> HIDE DEF m
    <3>4. prog.insn[m].size \in Nat /\ m + prog.insn[m].size <= next
      BY <1>1, <1>3, <3>3, ProgramFacts, InstructionFacts DEF Following
    <3>5. next - prog.insn[m].size \in Nat
      BY <2>3, <3>3, <3>4
    <3> QED  BY <3>5 DEF m
  <2>5. /\ IsFlow(removed) /\ Starts(removed) = Starts(flow) \ {b}
        /\ \A x \in Starts(removed) : removed.blocks[x] = flow.blocks[x]
        /\ removed.edges = EdgesAvoiding(flow, b) /\ removed.postEntry = flow.postEntry
        /\ removed.preExit = flow.preExit \ {b} /\ removed.callLocs = flow.callLocs
    BY <1>1, <2>2, RemoveBlockFlow
  <2> HIDE DEF removed, last
  <2>6. /\ IsFlow(cut) /\ Starts(cut) = Starts(removed) \cup {b}
        /\ cut.edges = removed.edges /\ cut.postEntry = removed.postEntry
        /\ cut.preExit = removed.preExit /\ cut.callLocs = removed.callLocs
    <3>1. IsFlow(removed) /\ b \in Nat /\ last \in Nat
      BY <1>1, <2>2, <2>4, <2>5
    <3> QED  BY <3>1, AddNewContiguousBlockFlow
  <2> HIDE DEF cut
  <2>7. new \in SUBSET (Nat \X Nat)
    BY <1>1, <2>2, <2>3, FlowFields DEF IncomingKept
  <2> HIDE DEF new
  <2>8. /\ IsFlow(flow') /\ Starts(flow') = Starts(cut) /\ (flow').edges = cut.edges \cup new
        /\ (flow').blocks = cut.blocks
        /\ (flow').postEntry = cut.postEntry /\ (flow').preExit = cut.preExit
        /\ (flow').callLocs = cut.callLocs
    BY <2>1, <2>6, <2>7, AddEdgesFlow
  <2>9. /\ cut.blocks[b] = NewBlock(<< <<b, last>> >>, "NORMAL")
        /\ \A x \in Starts(removed) : cut.blocks[x] = removed.blocks[x]
    <3>1. b \notin Starts(removed)
      BY <2>5
    <3> QED  BY <2>2, <2>4, <2>5, <3>1, AddNewContiguousBlockContent DEF cut
  <2>10. /\ (flow').blocks[b] = NewBlock(<< <<b, last>> >>, "NORMAL")
         /\ \A x \in Starts(flow) \ {b} : (flow').blocks[x] = flow.blocks[x]
    BY <2>5, <2>8, <2>9
  <2>11. /\ IsFlow(flow') /\ Starts(flow') = Starts(flow)
         /\ (flow').edges = EdgesAvoiding(flow, b) \cup new
         /\ (flow').postEntry = flow.postEntry /\ (flow').preExit = flow.preExit \ {b}
         /\ (flow').callLocs = flow.callLocs
    BY <2>2, <2>5, <2>6, <2>8
  <2> QED  BY <1>1, <2>1, <2>2, <2>3, <2>4, <2>10, <2>11 DEF b, next, last, new
<1> QED  BY <1>2, <1>3

\* Trimming removes a block and puts it back with edges to blocks that exist.
LEMMA TrimOverlapInv == Inv /\ TrimOverlap => Inv'
<1> SUFFICES ASSUME Inv, TrimOverlap, ~Abort PROVE Inv'
  BY AbortInv
<1> DEFINE b       == Min(todo)
           next    == StartAfter(b)
           new     == IncomingKept(b, next) \cup {<<b, next>>}
<1>1. /\ pass = "overlaps" /\ todo' = todo \ {b}
      /\ b \in Starts(flow) /\ next \in Starts(flow)
      /\ UNCHANGED <<prog, pass, queue, visited, merges, pending, current>>
  BY TrimOverlapStep
<1>2. /\ IsFlow(flow') /\ Starts(flow') = Starts(flow)
      /\ (flow').edges = EdgesAvoiding(flow, b) \cup new
      /\ (flow').postEntry = flow.postEntry /\ (flow').preExit = flow.preExit \ {b}
      /\ (flow').callLocs = flow.callLocs
  BY TrimOverlapStep
<1>3. /\ \A e \in flow.edges : e[1] \in Starts(flow) /\ e[2] \in Starts(flow)
      /\ flow.postEntry \in Starts(flow) /\ flow.preExit \subseteq Starts(flow)
      /\ todo \subseteq Starts(flow) /\ Starts(flow) \subseteq Code(prog)
  BY <1>1 DEF Inv, PiecesExist, NoDanglingEdges, Traced, TodoPresent, StartsDecoded
<1> HIDE DEF b, next, new
<1>4. prog' \in Programs /\ TypeOK'
  BY <1>1, <1>2 DEF Inv, PiecesExist, TypeOK
<1>5. CandidatesDecoded' /\ WorklistClosed'
  BY <1>1 DEF Inv, PiecesExist, CandidatesDecoded, WorklistClosed
<1>6. NoDanglingEdges'
  <2>1. \A e \in new : e[1] \in Starts(flow) /\ e[2] \in Starts(flow)
    BY <1>1, <1>3 DEF new, IncomingKept
  <2>2. \A e \in (flow').edges : e[1] \in Starts(flow) /\ e[2] \in Starts(flow)
    BY <1>2, <1>3, <2>1 DEF EdgesAvoiding
  <2> QED  BY <1>2, <1>3, <2>2 DEF NoDanglingEdges
<1>7. StartsDecoded' /\ TodoPresent' /\ MergesSound'
  BY <1>1, <1>2, <1>3 DEF StartsDecoded, TodoPresent, MergesSound
<1>8. CallsDecoded' /\ CurrentHasCall'
  BY <1>1, <1>2 DEF Inv, PiecesExist, CallsDecoded, CurrentHasCall
<1> QED  BY <1>4, <1>5, <1>6, <1>7, <1>8 DEF Inv, PiecesExist

\* The selection of mergeJumpBlocks is sound when it is made.
LEMMA FinishOverlapsInv == Inv /\ FinishOverlaps => Inv'
<1> SUFFICES ASSUME Inv, FinishOverlaps PROVE Inv'
  OBVIOUS
<1>1. /\ IsFlow(flow) /\ pass = "overlaps" /\ pass' = "merge" /\ merges' = JumpMerges(flow)
      /\ UNCHANGED <<prog, queue, visited, flow, todo, pending, current>>
  BY DEF Inv, PiecesExist, TypeOK, FinishOverlaps
<1>2. JumpMerges(flow) \subseteq flow.edges
  BY DEF JumpMerges
<1>3. prog' \in Programs /\ TypeOK'
  BY <1>1, <1>2, FlowFields DEF Inv, PiecesExist, TypeOK, Passes
<1>4. CandidatesDecoded' /\ WorklistClosed' /\ NoDanglingEdges' /\ StartsDecoded' /\ TodoPresent'
  BY <1>1 DEF Inv, PiecesExist, CandidatesDecoded, WorklistClosed, NoDanglingEdges,
              Traced, StartsDecoded, TodoPresent
<1>5. MergesSound'
  <2>1. \A e \in flow.edges : e[1] \in Starts(flow) /\ e[2] \in Starts(flow)
    BY <1>1 DEF Inv, PiecesExist, NoDanglingEdges, Traced
  <2>2. \A m \in JumpMerges(flow) : Predecessors(flow, m[2]) = {m[1]}
    BY DEF JumpMerges
  <2>3. \A m, n \in JumpMerges(flow) : n[2] = m[2] => n = m
    <3>1. \A m \in JumpMerges(flow) : m = <<m[1], m[2]>>
      BY <1>1, <1>2, FlowFields
    <3>2. \A m, n \in JumpMerges(flow) : n[2] = m[2] => n[1] = m[1]
      BY <2>2
    <3> QED  BY <3>1, <3>2
  <2> QED  BY <1>1, <1>2, <2>1, <2>2, <2>3 DEF MergesSound
<1>6. CallsDecoded' /\ CurrentHasCall'
  BY <1>1 DEF Inv, PiecesExist, CallsDecoded, CurrentHasCall, CallRanges
<1> QED  BY <1>3, <1>4, <1>5, <1>6 DEF Inv, PiecesExist

-----------------------------------------------------------------------------
(* mergeJumpBlocks.                                                        *)

\* Merging dies, or takes the only block a jump leads to into the one it ends.
LEMMA MergeBlockStep ==
    ASSUME Inv, MergeBlock
    PROVE  \/ Abort
           \/ \E m \in merges : \E A \in Starts(flow) :
                LET B == m[2]
                    Succ == Successors(flow, B)
                IN  /\ pass = "merge" /\ merges' = merges \ {m}
                    /\ B \in Starts(flow) /\ A # B /\ Predecessors(flow, B) = {A}
                    /\ \A n \in merges : n[2] = B => n = m
                    /\ Succ \subseteq Starts(flow) \ {B}
                    /\ IsFlow(flow') /\ Starts(flow') = Starts(flow) \ {B}
                    /\ (flow').edges = EdgesAvoiding(flow, B) \cup {<<A, s>> : s \in Succ}
                    /\ B # flow.postEntry => (flow').postEntry = flow.postEntry
                    /\ B = flow.postEntry => (flow').postEntry \in Succ
                    /\ (flow').preExit = (flow.preExit \ {B})
                                         \cup (IF Succ = {} THEN {A} ELSE {})
                    /\ (flow').callLocs = flow.callLocs
                    /\ (flow').blocks[A] =
                          [flow.blocks[A] EXCEPT !.ranges = @ \o flow.blocks[B].ranges]
                    /\ \A x \in Starts(flow') \ {A} : (flow').blocks[x] = flow.blocks[x]
                    /\ UNCHANGED <<prog, pass, queue, visited, todo, pending, current>>
<1>1. PICK m \in merges :
        LET B         == m[2]
            A         == CHOOSE a \in Predecessors(flow, B) : TRUE
            exits     == {<<A, s>> : s \in Successors(flow, B)}
            blk       == flow.blocks[B]
            removed   == RemoveBlockUpdatingEntry(flow, B)
            extended  == AddEdges(InsertBlockAddrRanges(removed, A, blk.ranges), exits)
        IN  IF MayRemove(flow, B) /\ A \in Starts(removed)
            THEN /\ flow' = IF exits = {}
                            THEN [extended EXCEPT !.preExit = @ \cup {A}]
                            ELSE extended
                 /\ merges' = merges \ {m}
                 /\ UNCHANGED <<prog, pass, queue, visited, todo, pending, current>>
            ELSE Abort
  BY DEF MergeBlock
<1> DEFINE B        == m[2]
           A        == CHOOSE a \in Predecessors(flow, B) : TRUE
           exits    == {<<A, s>> : s \in Successors(flow, B)}
           blk      == flow.blocks[B]
           removed  == RemoveBlockUpdatingEntry(flow, B)
           inserted == InsertBlockAddrRanges(removed, A, blk.ranges)
           extended == AddEdges(inserted, exits)
<1>2. CASE ~(MayRemove(flow, B) /\ A \in Starts(removed))
  BY <1>1, <1>2
<1>3. CASE MayRemove(flow, B) /\ A \in Starts(removed)
  <2>1. /\ prog \in Programs /\ IsFlow(flow) /\ pass = "merge"
        /\ merges' = merges \ {m}
        /\ UNCHANGED <<prog, pass, queue, visited, todo, pending, current>>
    BY <1>1, <1>3 DEF Inv, PiecesExist, TypeOK, MergeBlock
  <2>2. \/ exits = {} /\ flow' = [extended EXCEPT !.preExit = @ \cup {A}]
        \/ exits # {} /\ flow' = extended
    BY <1>1, <1>3
  <2>3. /\ B \in Starts(flow)
        /\ \A n \in merges : n[2] = B => n = m
        /\ \A n \in merges : /\ n[2] \in Starts(flow)
                             /\ \E a \in Starts(flow) : Predecessors(flow, n[2]) = {a}
    BY <2>1 DEF Inv, PiecesExist, MergesSound
  <2>4. Predecessors(flow, B) = {A}
    BY <2>3
  <2>5. /\ \A e \in flow.edges : e[1] \in Starts(flow) /\ e[2] \in Starts(flow)
        /\ flow.postEntry \in Starts(flow) /\ flow.preExit \subseteq Starts(flow)
    BY <2>1 DEF Inv, PiecesExist, NoDanglingEdges, Traced
  <2>6. B \in Nat /\ blk \in Block /\ blk.ranges \in Seq(AddrRange)
    BY <2>1, <2>3, FlowFields DEF Block
  <2> HIDE DEF A
  <2> DEFINE Succ == Successors(flow, B)
  <2>7. /\ \A s : s \in Succ <=> <<B, s>> \in flow.edges
        /\ \A x, s : s \in Predecessors(flow, x) <=> <<s, x>> \in flow.edges
        /\ Succ \subseteq Nat
    BY <2>1, SuccessorsType
  <2> HIDE DEF B
  <2>8. /\ IsFlow(removed) /\ Starts(removed) = Starts(flow) \ {B}
        /\ \A x \in Starts(removed) : removed.blocks[x] = flow.blocks[x]
        /\ removed.edges = EdgesAvoiding(flow, B)
        /\ B # flow.postEntry => removed.postEntry = flow.postEntry
        /\ B = flow.postEntry => removed.postEntry \in Succ
        /\ removed.preExit = flow.preExit \ {B} /\ removed.callLocs = flow.callLocs
    BY <1>3, <2>1, <2>6, RemoveBlockUpdatingEntryFlow
  <2> HIDE DEF removed, blk, Succ
  <2>9. A # B /\ A \in Starts(flow) /\ A \in Nat
    BY <1>3, <2>1, <2>8, FlowFields
  <2>10. Succ \subseteq Starts(flow) \ {B}
    <3>1. Succ \subseteq Starts(flow)
      <4>1. ASSUME NEW s \in Succ PROVE s \in Starts(flow)
        <5>1. <<B, s>> \in flow.edges /\ <<B, s>>[2] = s
          BY <2>7
        <5> QED  BY <2>5, <5>1
      <4> QED  BY <4>1
    <3>2. B \notin Succ
      BY <2>4, <2>7, <2>9
    <3> QED  BY <3>1, <3>2
  <2>11. /\ IsFlow(inserted) /\ Starts(inserted) = Starts(removed)
         /\ inserted.edges = removed.edges /\ inserted.postEntry = removed.postEntry
         /\ inserted.preExit = removed.preExit /\ inserted.callLocs = removed.callLocs
    BY <1>3, <2>6, <2>8, InsertBlockAddrRangesFlow
  <2>20. /\ inserted.blocks[A] = [removed.blocks[A] EXCEPT !.ranges = @ \o blk.ranges]
         /\ \A x \in Starts(removed) \ {A} : inserted.blocks[x] = removed.blocks[x]
    <3>1. IsFlow(removed) /\ A \in Starts(removed)
      BY <1>3, <2>8
    <3> DEFINE more == blk.ranges
    <3>2. inserted = InsertBlockAddrRanges(removed, A, more)
      OBVIOUS
    <3> HIDE DEF more, inserted
    <3>3. inserted.blocks[A] = [removed.blocks[A] EXCEPT !.ranges = @ \o more]
      BY <3>1, <3>2 DEF InsertBlockAddrRanges, IsFlow, Starts
    <3>4. \A x \in Starts(removed) \ {A} : inserted.blocks[x] = removed.blocks[x]
      BY <3>1, <3>2 DEF InsertBlockAddrRanges, IsFlow, Starts
    <3> QED  BY <3>3, <3>4 DEF more
  <2> HIDE DEF inserted
  <2>12. exits = {<<A, s>> : s \in Succ} /\ exits \in SUBSET (Nat \X Nat)
    BY <2>7, <2>9 DEF Succ
  <2> HIDE DEF exits
  <2>13. /\ IsFlow(extended) /\ Starts(extended) = Starts(inserted)
         /\ extended.edges = inserted.edges \cup exits
         /\ extended.blocks = inserted.blocks
         /\ extended.postEntry = inserted.postEntry
         /\ extended.preExit = inserted.preExit /\ extended.callLocs = inserted.callLocs
    BY <2>11, <2>12, AddEdgesFlow
  <2> HIDE DEF extended
  <2>14. /\ IsFlow(flow') /\ Starts(flow') = Starts(extended)
         /\ (flow').blocks = extended.blocks
         /\ (flow').edges = extended.edges /\ (flow').postEntry = extended.postEntry
         /\ (flow').preExit = extended.preExit \cup (IF exits = {} THEN {A} ELSE {})
         /\ (flow').callLocs = extended.callLocs
    <3>1. CASE exits # {} /\ flow' = extended
      BY <2>13, <3>1
    <3>2. CASE exits = {} /\ flow' = [extended EXCEPT !.preExit = @ \cup {A}]
      <4>1. extended.preExit \cup {A} \in SUBSET Nat
        BY <2>9, <2>13, FlowFields
      <4> QED  BY <2>13, <3>2, <4>1 DEF IsFlow, Starts
    <3> QED  BY <2>2, <3>1, <3>2
  <2>15. exits = {} <=> Succ = {}
    BY <2>12
  <2>16. /\ (flow').blocks[A] = [flow.blocks[A] EXCEPT !.ranges = @ \o blk.ranges]
         /\ \A x \in Starts(flow') \ {A} : (flow').blocks[x] = flow.blocks[x]
    <3>1. A \in Starts(removed) /\ removed.blocks[A] = flow.blocks[A]
      BY <1>3, <2>8
    <3>2. (flow').blocks = inserted.blocks /\ Starts(flow') = Starts(removed)
      BY <2>11, <2>13, <2>14
    <3>3. (flow').blocks[A] = [flow.blocks[A] EXCEPT !.ranges = @ \o blk.ranges]
      BY <2>20, <3>1, <3>2
    <3>4. \A x \in Starts(removed) \ {A} : (flow').blocks[x] = flow.blocks[x]
      BY <2>8, <2>20, <3>2
    <3> QED  BY <3>2, <3>3, <3>4
  <2>18. /\ Starts(flow') = Starts(flow) \ {B}
         /\ (flow').edges = EdgesAvoiding(flow, B) \cup {<<A, s>> : s \in Succ}
         /\ B # flow.postEntry => (flow').postEntry = flow.postEntry
         /\ B = flow.postEntry => (flow').postEntry \in Succ
         /\ (flow').preExit = (flow.preExit \ {B}) \cup (IF Succ = {} THEN {A} ELSE {})
         /\ (flow').callLocs = flow.callLocs
    BY <2>8, <2>11, <2>12, <2>13, <2>14, <2>15
  <2>19. /\ pass = "merge" /\ merges' = merges \ {m}
         /\ UNCHANGED <<prog, pass, queue, visited, todo, pending, current>>
    BY <2>1
  <2> QED
    BY <2>3, <2>4, <2>9, <2>10, <2>14, <2>16, <2>18, <2>19 DEF B, Succ, blk
<1> QED  BY <1>2, <1>3

\* Merging one pair leaves the rest of the selection sound.
LEMMA MergeBlockInv == Inv /\ MergeBlock => Inv'
<1> SUFFICES ASSUME Inv, MergeBlock, ~Abort PROVE Inv'
  BY AbortInv
<1>1. PICK m \in merges :
        \E A \in Starts(flow) :
           LET B == m[2]
               Succ == Successors(flow, B)
           IN  /\ pass = "merge" /\ merges' = merges \ {m}
               /\ B \in Starts(flow) /\ A # B /\ Predecessors(flow, B) = {A}
               /\ \A n \in merges : n[2] = B => n = m
               /\ Succ \subseteq Starts(flow) \ {B}
               /\ IsFlow(flow') /\ Starts(flow') = Starts(flow) \ {B}
               /\ (flow').edges = EdgesAvoiding(flow, B) \cup {<<A, s>> : s \in Succ}
               /\ B # flow.postEntry => (flow').postEntry = flow.postEntry
               /\ B = flow.postEntry => (flow').postEntry \in Succ
               /\ (flow').preExit = (flow.preExit \ {B})
                                    \cup (IF Succ = {} THEN {A} ELSE {})
               /\ (flow').callLocs = flow.callLocs
               /\ UNCHANGED <<prog, pass, queue, visited, todo, pending, current>>
  BY MergeBlockStep
<1> DEFINE B == m[2]
           Succ == Successors(flow, B)
<1>2. PICK A \in Starts(flow) :
         /\ pass = "merge" /\ merges' = merges \ {m}
         /\ B \in Starts(flow) /\ A # B /\ Predecessors(flow, B) = {A}
         /\ \A n \in merges : n[2] = B => n = m
         /\ Succ \subseteq Starts(flow) \ {B}
         /\ IsFlow(flow') /\ Starts(flow') = Starts(flow) \ {B}
         /\ (flow').edges = EdgesAvoiding(flow, B) \cup {<<A, s>> : s \in Succ}
         /\ B # flow.postEntry => (flow').postEntry = flow.postEntry
         /\ B = flow.postEntry => (flow').postEntry \in Succ
         /\ (flow').preExit = (flow.preExit \ {B}) \cup (IF Succ = {} THEN {A} ELSE {})
         /\ (flow').callLocs = flow.callLocs
         /\ UNCHANGED <<prog, pass, queue, visited, todo, pending, current>>
  BY <1>1
<1>3. /\ \A e \in flow.edges : e[1] \in Starts(flow) /\ e[2] \in Starts(flow)
      /\ flow.postEntry \in Starts(flow) /\ flow.preExit \subseteq Starts(flow)
      /\ \A n \in merges : \E a \in Starts(flow) : Predecessors(flow, n[2]) = {a}
      /\ \A n \in merges : n[2] \in Starts(flow)
      /\ \A n, o \in merges : o[2] = n[2] => o = n
  BY <1>2 DEF Inv, PiecesExist, NoDanglingEdges, Traced, MergesSound
<1> HIDE DEF B, Succ
<1>4. prog' \in Programs /\ TypeOK'
  BY <1>2 DEF Inv, PiecesExist, TypeOK
<1>5. CandidatesDecoded' /\ WorklistClosed' /\ StartsDecoded' /\ TodoPresent'
  BY <1>2 DEF Inv, PiecesExist, CandidatesDecoded, WorklistClosed, StartsDecoded,
              TodoPresent
<1>6. NoDanglingEdges'
  <2>1. \A e \in EdgesAvoiding(flow, B) :
          e[1] \in Starts(flow) \ {B} /\ e[2] \in Starts(flow) \ {B}
    BY <1>3 DEF EdgesAvoiding
  <2>2. \A e \in {<<A, s>> : s \in Succ} :
          e[1] \in Starts(flow) \ {B} /\ e[2] \in Starts(flow) \ {B}
    BY <1>2
  <2>3. (flow').postEntry \in Starts(flow) \ {B}
    BY <1>2, <1>3
  <2>4. (flow').preExit \subseteq Starts(flow')
    BY <1>2, <1>3
  <2> QED  BY <1>2, <2>1, <2>2, <2>3, <2>4 DEF NoDanglingEdges
<1>7. MergesSound'
  <2>1. \A x, s : s \in Predecessors(flow', x) <=> <<s, x>> \in (flow').edges
    BY <1>2, SuccessorsType
  <2>2. \A x, s : <<s, x>> \in EdgesAvoiding(flow, B) <=>
                   <<s, x>> \in flow.edges /\ s # B /\ x # B
    BY DEF EdgesAvoiding
  <2>3. \A x, s : s \in Predecessors(flow, x) <=> <<s, x>> \in flow.edges
    BY SuccessorsType DEF Inv, PiecesExist, TypeOK
  <2>4. \A x : x \in Succ <=> <<B, x>> \in flow.edges
    BY SuccessorsType DEF Inv, PiecesExist, TypeOK, Succ
  <2>5. \A x, s : x # B =>
          (s \in Predecessors(flow', x) <=>
             \/ s \in Predecessors(flow, x) /\ s # B
             \/ s = A /\ B \in Predecessors(flow, x))
    <3> TAKE x, s
    <3>1. s \in Predecessors(flow', x) <=>
            <<s, x>> \in EdgesAvoiding(flow, B) \/ (s = A /\ x \in Succ)
      BY <1>2, <2>1
    <3> QED  BY <2>2, <2>3, <2>4, <3>1
  <2>6. ASSUME NEW n \in merges \ {m}
        PROVE  /\ n[2] \in Starts(flow')
               /\ \E a \in Starts(flow') : Predecessors(flow', n[2]) = {a}
    <3>1. n[2] # B /\ n[2] \in Starts(flow')
      BY <1>2, <1>3
    <3>2. PICK a \in Starts(flow) : Predecessors(flow, n[2]) = {a}
      BY <1>3
    <3>3. CASE a = B
      <4>1. Predecessors(flow', n[2]) = {A}
        BY <2>5, <3>1, <3>2, <3>3
      <4> QED  BY <1>2, <3>1, <4>1
    <3>4. CASE a # B
      <4>1. Predecessors(flow', n[2]) = {a}
        BY <2>5, <3>1, <3>2, <3>4
      <4> QED  BY <1>2, <3>1, <3>2, <3>4, <4>1
    <3> QED  BY <3>3, <3>4
  <2> QED  BY <1>2, <1>3, <2>6 DEF MergesSound
<1>8. CallsDecoded' /\ CurrentHasCall'
  BY <1>2 DEF Inv, PiecesExist, CallsDecoded, CurrentHasCall
<1> QED  BY <1>4, <1>5, <1>6, <1>7, <1>8 DEF Inv, PiecesExist

\* Going on to the calls keeps the invariant.
LEMMA FinishMergeInv == Inv /\ FinishMerge => Inv'
<1> SUFFICES ASSUME Inv, FinishMerge PROVE Inv'
  OBVIOUS
<1>1. /\ IsFlow(flow) /\ pass = "merge" /\ pass' \in {"symbolize", "calls"}
      /\ todo' \subseteq Starts(flow) /\ pending' = flow.callLocs
      /\ UNCHANGED <<prog, queue, visited, flow, merges, current>>
  BY DEF Inv, PiecesExist, TypeOK, FinishMerge
<1>2. prog' \in Programs /\ TypeOK'
  BY <1>1, FlowFields DEF Inv, PiecesExist, TypeOK, Passes
<1>3. CandidatesDecoded' /\ WorklistClosed' /\ NoDanglingEdges' /\ StartsDecoded'
  BY <1>1 DEF Inv, PiecesExist, CandidatesDecoded, WorklistClosed, NoDanglingEdges,
              Traced, StartsDecoded
<1>4. TodoPresent' /\ MergesSound'
  BY <1>1 DEF TodoPresent, MergesSound
<1>5. CallsDecoded' /\ CurrentHasCall'
  BY <1>1 DEF Inv, PiecesExist, CallsDecoded, CurrentHasCall
<1> QED  BY <1>2, <1>3, <1>4, <1>5 DEF Inv, PiecesExist

-----------------------------------------------------------------------------
(* manageFuncCallBlocks and symbolize.                                     *)

\* Taking a block for its calls changes nothing, or the type of the block.
LEMMA StartBlockStep ==
    ASSUME Inv, StartBlock
    PROVE  \E b \in todo :
             /\ pass = "calls" /\ current = {} /\ b \in Starts(flow) /\ todo' = todo \ {b}
             /\ IsFlow(flow') /\ Starts(flow') = Starts(flow) /\ (flow').edges = flow.edges
             /\ \A x \in Starts(flow) : (flow').blocks[x].ranges = flow.blocks[x].ranges
             /\ \A x \in Starts(flow) : (flow').blocks[x].callees = flow.blocks[x].callees
             /\ \A x \in Starts(flow) : (flow').blocks[x].type =
                   IF x = b /\ CallRanges(b) # {} THEN "CALL" ELSE flow.blocks[x].type
             /\ (flow').postEntry = flow.postEntry /\ (flow').preExit = flow.preExit
             /\ (flow').callLocs = flow.callLocs
             /\ current' = IF CallRanges(b) = {} THEN {} ELSE {b}
             /\ UNCHANGED <<prog, pass, queue, visited, merges, pending>>
<1>1. PICK b \in todo :
        /\ todo' = todo \ {b}
        /\ \/ CallRanges(b) = {} /\ flow' = flow /\ current' = current
           \/ CallRanges(b) # {} /\ current' = {b} /\ flow' = SetType(flow, b, "CALL")
  BY DEF StartBlock
<1>2. /\ IsFlow(flow) /\ pass = "calls" /\ current = {} /\ b \in Starts(flow)
      /\ UNCHANGED <<prog, pass, queue, visited, merges, pending>>
  BY DEF Inv, PiecesExist, TypeOK, TodoPresent, StartBlock
<1>3. /\ IsFlow(flow') /\ Starts(flow') = Starts(flow) /\ (flow').edges = flow.edges
      /\ \A x \in Starts(flow) : (flow').blocks[x].ranges = flow.blocks[x].ranges
      /\ (flow').postEntry = flow.postEntry /\ (flow').preExit = flow.preExit
      /\ (flow').callLocs = flow.callLocs
  <2>1. CASE flow' = flow
    BY <1>2, <2>1
  <2>2. CASE flow' = SetType(flow, b, "CALL")
    BY <1>2, <2>2, SetTypeFlow
  <2> QED  BY <1>1, <2>1, <2>2
<1>4. /\ \A x \in Starts(flow) : (flow').blocks[x].callees = flow.blocks[x].callees
      /\ \A x \in Starts(flow) : (flow').blocks[x].type =
            IF x = b /\ CallRanges(b) # {} THEN "CALL" ELSE flow.blocks[x].type
  <2>1. CASE CallRanges(b) = {} /\ flow' = flow
    BY <2>1
  <2>2. CASE CallRanges(b) # {} /\ flow' = SetType(flow, b, "CALL")
    <3>1. /\ (flow').blocks[b] = [flow.blocks[b] EXCEPT !.type = "CALL"]
          /\ \A x \in Starts(flow) \ {b} : (flow').blocks[x] = flow.blocks[x]
      BY <1>2, <2>2, SetTypeContent
    <3>2. flow.blocks[b] \in Block
      BY <1>2, FlowFields
    <3>3. (flow').blocks[b].callees = flow.blocks[b].callees /\ (flow').blocks[b].type = "CALL"
      BY <3>1, <3>2 DEF Block
    <3> QED  BY <2>2, <3>1, <3>3
  <2> QED  BY <1>1, <2>1, <2>2
<1> QED  BY <1>1, <1>2, <1>3, <1>4

\* Taking a block for its calls keeps the invariant.
LEMMA StartBlockInv == Inv /\ StartBlock => Inv'
<1> SUFFICES ASSUME Inv, StartBlock PROVE Inv'
  OBVIOUS
<1>1. PICK b \in todo :
        /\ pass = "calls" /\ b \in Starts(flow) /\ todo' = todo \ {b}
        /\ IsFlow(flow') /\ Starts(flow') = Starts(flow) /\ (flow').edges = flow.edges
        /\ \A x \in Starts(flow) : (flow').blocks[x].ranges = flow.blocks[x].ranges
        /\ (flow').postEntry = flow.postEntry /\ (flow').preExit = flow.preExit
        /\ (flow').callLocs = flow.callLocs
        /\ current' = IF CallRanges(b) = {} THEN {} ELSE {b}
        /\ UNCHANGED <<prog, pass, queue, visited, merges, pending>>
  BY StartBlockStep
<1>2. IsFlow(flow)
  BY DEF Inv, PiecesExist, TypeOK
<1>4. prog' \in Programs /\ TypeOK'
  BY <1>1, <1>2, FlowFields DEF Inv, PiecesExist, TypeOK
<1>5. CandidatesDecoded' /\ WorklistClosed' /\ NoDanglingEdges'
  BY <1>1 DEF Inv, PiecesExist, CandidatesDecoded, WorklistClosed,
              NoDanglingEdges, Traced
<1>6. StartsDecoded' /\ TodoPresent' /\ MergesSound' /\ CallsDecoded'
  BY <1>1 DEF Inv, PiecesExist, StartsDecoded, TodoPresent, MergesSound, CallsDecoded
<1>7. CurrentHasCall'
  <2>1. CASE CallRanges(b) = {}
    BY <1>1, <2>1 DEF CurrentHasCall
  <2>2. CASE CallRanges(b) # {}
    <3>1. CallRanges(b)' = CallRanges(b)
      BY <1>1 DEF CallRanges
    <3> QED  BY <1>1, <2>2, <3>1 DEF CurrentHasCall
  <2> QED  BY <2>1, <2>2
<1> QED  BY <1>4, <1>5, <1>6, <1>7 DEF Inv, PiecesExist

\* The range SplitAtCall looks into, and the call it takes.
NextRange(b) == Max(CallRanges(b))
NextCall(b)  == Max(InRange(pending, flow.blocks[b].ranges[NextRange(b)]))

\* A block has one of the calls.
HasOneOf(calls, blk) == \E i \in DOMAIN blk.ranges : InRange(calls, blk.ranges[i]) # {}

\* The call SplitAtCall takes is a decoded instruction in the block, and the last that is
\* not handled yet.
LEMMA NextCallFacts ==
    ASSUME Inv, NEW b \in current
    PROVE  LET r == flow.blocks[b].ranges
               i == NextRange(b)
               call == NextCall(b)
           IN  /\ b \in Starts(flow) /\ i \in DOMAIN r
               /\ call \in pending /\ call \in Addresses(prog) /\ call \in Nat
               /\ prog.insn[call].kind = "call"
               /\ r[i][1] <= call /\ call <= r[i][2]
               /\ \A c \in pending : r[i][1] <= c /\ c <= r[i][2] => c <= call
               /\ \A j \in DOMAIN r : j > i => InRange(pending, r[j]) = {}
<1> DEFINE r     == flow.blocks[b].ranges
           i     == NextRange(b)
           range == flow.blocks[b].ranges[i]
           call  == NextCall(b)
<1>1. /\ prog \in Programs /\ IsFlow(flow) /\ b \in Starts(flow) /\ CallRanges(b) # {}
      /\ \A a \in flow.callLocs : a \in Addresses(prog) /\ prog.insn[a].kind = "call"
      /\ pending \subseteq flow.callLocs
  BY DEF Inv, PiecesExist, TypeOK, CurrentHasCall, CallsDecoded
<1>2. pending \in SUBSET Nat
  BY <1>1, FlowFields
<1>3. r \in Seq(AddrRange)
  BY <1>1, FlowFields DEF Block
<1>4. i \in CallRanges(b) /\ \A x \in CallRanges(b) : x <= i
  <2>1. CallRanges(b) \subseteq 1 .. Len(r)
    BY <1>3 DEF CallRanges
  <2>2. /\ CallRanges(b) \in SUBSET Nat /\ Len(r) \in Nat
        /\ \A x \in CallRanges(b) : x <= Len(r)
    BY <1>3, <2>1
  <2> QED  BY <1>1, <2>2, MaxOfNaturals DEF NextRange
<1>5. call = Max(InRange(pending, range))
  BY DEF NextCall
<1> HIDE DEF i, call
<1>6. i \in DOMAIN r /\ InRange(pending, range) # {} /\ i \in Nat
  BY <1>3, <1>4 DEF CallRanges
<1>7. range \in AddrRange
  BY <1>3, <1>6
<1>8. \A j \in DOMAIN r : j > i => InRange(pending, r[j]) = {}
  <2>1. SUFFICES ASSUME NEW j \in DOMAIN r, j > i, InRange(pending, r[j]) # {} PROVE FALSE
    OBVIOUS
  <2>2. j \in CallRanges(b) /\ j \in Nat
    BY <1>3, <2>1 DEF CallRanges
  <2> QED  BY <1>4, <1>6, <2>1, <2>2
<1> HIDE DEF range
<1>9. call \in InRange(pending, range) /\ \A c \in InRange(pending, range) : c <= call
  <2>1. range[2] \in Nat
    BY <1>7 DEF AddrRange
  <2>2. /\ InRange(pending, range) \in SUBSET Nat
        /\ \A x \in InRange(pending, range) : x <= range[2]
    BY <1>2 DEF InRange
  <2> QED  BY <1>5, <1>6, <2>1, <2>2, MaxOfNaturals
<1>10. call \in pending /\ range[1] <= call /\ call <= range[2]
  BY <1>9 DEF InRange
<1>11. \A c \in pending : range[1] <= c /\ c <= range[2] => c <= call
  BY <1>9 DEF InRange
<1>12. call \in Addresses(prog) /\ call \in Nat /\ prog.insn[call].kind = "call"
  BY <1>1, <1>2, <1>10
<1> QED  BY <1>1, <1>6, <1>8, <1>10, <1>11, <1>12 DEF range, i, call

\* SplitAtCall dies, finds the call at the end of the block, or splits the block.
LEMMA SplitAtCallStep ==
    ASSUME Inv, SplitAtCall
    PROVE  \/ Abort
           \/ \E b \in current :
                LET r == flow.blocks[b].ranges
                    i == NextRange(b)
                    call == NextCall(b)
                    next == Following(prog, call)
                    first == \A c \in InRange(flow.callLocs, r[i]) : c <= call
                IN  /\ pass = "calls" /\ b \in Starts(flow) /\ pending' = pending \ {call}
                    /\ current' = IF HasOneOf(pending', (flow').blocks[b]) THEN {b} ELSE {}
                    /\ UNCHANGED <<prog, pass, queue, visited, merges>>
                    /\ \/ call = LastAddr(flow.blocks[b]) /\ UNCHANGED <<flow, todo>>
                       \/ /\ call # LastAddr(flow.blocks[b]) /\ todo' = todo \cup {next}
                          /\ next \notin Starts(flow) /\ IsFlow(flow')
                          /\ Starts(flow') = Starts(flow) \cup {next}
                          /\ (flow').edges = {e \in flow.edges : e[1] # b}
                                \cup {<<next, s>> : s \in Successors(flow, b)} \cup {<<b, next>>}
                          /\ (flow').postEntry = flow.postEntry
                          /\ \A x : x \in (flow').preExit <=>
                                       \/ x \in flow.preExit /\ x # b
                                       \/ x = next /\ b \in flow.preExit
                          /\ (flow').callLocs = flow.callLocs
                          /\ (flow').blocks[b].ranges = KeptRanges(r, next, prog.insn[call].size)
                          /\ (flow').blocks[b].type = flow.blocks[b].type
                          /\ (flow').blocks[b].callees = flow.blocks[b].callees
                          /\ (flow').blocks[next].ranges = CutOff(r, next)
                          /\ (flow').blocks[next].callees = {}
                          /\ (flow').blocks[next].type =
                                IF first THEN IF HasCalls(flow', next) THEN "CALL" ELSE "NORMAL"
                                ELSE flow.blocks[b].type
                          /\ \A x \in Starts(flow) \ {b} : (flow').blocks[x] = flow.blocks[x]
<1>1. PICK b \in current :
        LET range == flow.blocks[b].ranges[Max(CallRanges(b))]
            call  == Max(InRange(pending, range))
            size  == prog.insn[call].size
            next  == call + size
            first == \A c \in InRange(flow.callLocs, range) : c <= call
            split == SplitBlock(flow, b, call, size)
            rest  == pending \ {call}
            Rest(blk) == \E i \in DOMAIN blk.ranges : InRange(rest, blk.ranges[i]) # {}
        IN  IF call = LastAddr(flow.blocks[b])
            THEN /\ pending' = rest
                 /\ current' = IF Rest(flow.blocks[b]) THEN {b} ELSE {}
                 /\ UNCHANGED <<prog, pass, queue, visited, flow, todo, merges>>
            ELSE IF ~MaySplit(flow, b, call, size) THEN Abort
            ELSE /\ flow' = IF first
                            THEN SetType(split, next,
                                         IF HasCalls(split, next) THEN "CALL" ELSE "NORMAL")
                            ELSE split
                 /\ todo' = todo \cup {next}
                 /\ pending' = rest
                 /\ current' = IF Rest(split.blocks[b]) THEN {b} ELSE {}
                 /\ UNCHANGED <<prog, pass, queue, visited, merges>>
  BY DEF SplitAtCall
<1> DEFINE call  == NextCall(b)
           size  == prog.insn[call].size
           next  == Following(prog, call)
           range == flow.blocks[b].ranges[NextRange(b)]
           first == \A c \in InRange(flow.callLocs, range) : c <= call
           split == SplitBlock(flow, b, call, size)
           type  == IF HasCalls(split, next) THEN "CALL" ELSE "NORMAL"
           rest  == pending \ {call}
<1>2. /\ prog \in Programs /\ IsFlow(flow) /\ pass = "calls" /\ b \in Starts(flow)
      /\ call \in Addresses(prog) /\ call \in Nat
  BY NextCallFacts DEF Inv, PiecesExist, TypeOK, SplitAtCall
<1>3. size \in Nat /\ next \in Nat /\ next = call + size
  BY <1>2, InstructionFacts DEF Following
<1>4. IF call = LastAddr(flow.blocks[b])
      THEN /\ pending' = rest
           /\ current' = IF HasOneOf(rest, flow.blocks[b]) THEN {b} ELSE {}
           /\ UNCHANGED <<prog, pass, queue, visited, flow, todo, merges>>
      ELSE IF ~MaySplit(flow, b, call, size) THEN Abort
      ELSE /\ flow' = IF first THEN SetType(split, next, type) ELSE split
           /\ todo' = todo \cup {next}
           /\ pending' = rest
           /\ current' = IF HasOneOf(rest, split.blocks[b]) THEN {b} ELSE {}
           /\ UNCHANGED <<prog, pass, queue, visited, merges>>
  BY <1>1 DEF NextCall, NextRange, HasOneOf, Following
<1> HIDE DEF call, size, next, rest, first, split, type
<1>5. CASE call = LastAddr(flow.blocks[b])
  BY <1>2, <1>4, <1>5 DEF call, rest
<1>6. CASE call # LastAddr(flow.blocks[b]) /\ MaySplit(flow, b, call, size)
  <2>1. /\ flow' = IF first THEN SetType(split, next, type) ELSE split
        /\ todo' = todo \cup {next} /\ pending' = rest
        /\ current' = IF HasOneOf(rest, split.blocks[b]) THEN {b} ELSE {}
        /\ UNCHANGED <<prog, pass, queue, visited, merges>>
    BY <1>4, <1>6
  <2>2. /\ IsFlow(split) /\ next \notin Starts(flow) /\ Starts(split) = Starts(flow) \cup {next}
        /\ split.edges = {e \in flow.edges : e[1] # b}
                         \cup {<<next, s>> : s \in Successors(flow, b)} \cup {<<b, next>>}
        /\ split.postEntry = flow.postEntry /\ split.callLocs = flow.callLocs
    BY <1>2, <1>3, <1>6, SplitBlockFlow DEF split
  <2>3. /\ split.blocks[b].ranges = KeptRanges(flow.blocks[b].ranges, next, size)
        /\ split.blocks[b].type = flow.blocks[b].type
        /\ split.blocks[b].callees = flow.blocks[b].callees
        /\ split.blocks[next] = NewBlock(CutOff(flow.blocks[b].ranges, next), flow.blocks[b].type)
        /\ \A x \in Starts(flow) \ {b} : split.blocks[x] = flow.blocks[x]
        /\ \A x : x \in split.preExit <=> \/ x \in flow.preExit /\ x # b
                                          \/ x = next /\ b \in flow.preExit
    <3>1. call + size \notin Starts(flow) /\ call + size = next
      BY <1>3, <2>2
    <3>2. SplitsContent(flow, SplitBlock(flow, b, call, size), b, call + size, size)
      BY <1>2, <1>3, <3>1, SplitBlockContent
    <3> QED  BY <3>1, <3>2 DEF split, SplitsContent
  <2>4. /\ split.blocks[next].ranges = CutOff(flow.blocks[b].ranges, next)
        /\ split.blocks[next].callees = {}
        /\ split.blocks[next].type = flow.blocks[b].type
    BY <2>3 DEF NewBlock
  <2>5. /\ IsFlow(flow') /\ Starts(flow') = Starts(split) /\ (flow').edges = split.edges
        /\ (flow').postEntry = split.postEntry /\ (flow').preExit = split.preExit
        /\ (flow').callLocs = split.callLocs
        /\ \A x \in Starts(split) \ {next} : (flow').blocks[x] = split.blocks[x]
        /\ (flow').blocks[next].ranges = split.blocks[next].ranges
        /\ (flow').blocks[next].callees = split.blocks[next].callees
        /\ (flow').blocks[next].type = IF first THEN type ELSE split.blocks[next].type
    <3>1. CASE ~first
      BY <2>1, <2>2, <3>1
    <3>2. CASE first
      <4>1. next \in Starts(split) /\ type \in {"NORMAL", "CALL"} /\ flow' = SetType(split, next, type)
        BY <2>1, <2>2, <3>2 DEF type
      <4>2. /\ IsFlow(flow') /\ Starts(flow') = Starts(split) /\ (flow').edges = split.edges
            /\ (flow').postEntry = split.postEntry /\ (flow').preExit = split.preExit
            /\ (flow').callLocs = split.callLocs
        BY <2>2, <4>1, SetTypeFlow
      <4>3. /\ (flow').blocks[next] = [split.blocks[next] EXCEPT !.type = type]
            /\ \A x \in Starts(split) \ {next} : (flow').blocks[x] = split.blocks[x]
        BY <2>2, <4>1, SetTypeContent
      <4>4. split.blocks[next] \in Block
        BY <2>2, <4>1, FlowFields
      <4>5. /\ (flow').blocks[next].ranges = split.blocks[next].ranges
            /\ (flow').blocks[next].callees = split.blocks[next].callees
            /\ (flow').blocks[next].type = type
        BY <4>3, <4>4 DEF Block
      <4> QED  BY <3>2, <4>2, <4>3, <4>5
    <3> QED  BY <3>1, <3>2
  <2>6. HasCalls(split, next) <=> HasCalls(flow', next)
    BY <2>5 DEF HasCalls
  <2>7. b # next /\ (flow').blocks[b] = split.blocks[b]
    BY <1>2, <2>2, <2>5
  <2>8. \A x \in Starts(flow) \ {b} : (flow').blocks[x] = flow.blocks[x]
    BY <2>2, <2>3, <2>5
  <2>9. (flow').blocks[next].type =
          IF first THEN IF HasCalls(flow', next) THEN "CALL" ELSE "NORMAL"
          ELSE flow.blocks[b].type
    BY <2>4, <2>5, <2>6 DEF type
  <2>10. current' = IF HasOneOf(pending', (flow').blocks[b]) THEN {b} ELSE {}
    BY <2>1, <2>7
  <2>11. /\ IsFlow(flow') /\ Starts(flow') = Starts(flow) \cup {next}
         /\ (flow').edges = {e \in flow.edges : e[1] # b}
               \cup {<<next, s>> : s \in Successors(flow, b)} \cup {<<b, next>>}
         /\ (flow').postEntry = flow.postEntry
         /\ \A x : x \in (flow').preExit <=> \/ x \in flow.preExit /\ x # b
                                             \/ x = next /\ b \in flow.preExit
         /\ (flow').callLocs = flow.callLocs
    BY <2>2, <2>3, <2>5
  <2>12. /\ (flow').blocks[b].ranges = KeptRanges(flow.blocks[b].ranges, next, size)
         /\ (flow').blocks[b].type = flow.blocks[b].type
         /\ (flow').blocks[b].callees = flow.blocks[b].callees
         /\ (flow').blocks[next].ranges = CutOff(flow.blocks[b].ranges, next)
         /\ (flow').blocks[next].callees = {}
    BY <2>3, <2>4, <2>5, <2>7
  <2> QED
    BY <1>2, <1>6, <2>1, <2>2, <2>8, <2>9, <2>10, <2>11, <2>12
    DEF call, size, next, rest, first
<1>7. CASE call # LastAddr(flow.blocks[b]) /\ ~MaySplit(flow, b, call, size)
  BY <1>4, <1>7
<1> QED  BY <1>5, <1>6, <1>7

\* Ending or splitting a block at its last open call keeps the invariant.
LEMMA SplitAtCallInv == Inv /\ SplitAtCall => Inv'
<1> SUFFICES ASSUME Inv, SplitAtCall, ~Abort PROVE Inv'
  BY AbortInv
<1>1. PICK b \in current :
        LET call == NextCall(b)
            next == Following(prog, call)
        IN  /\ pass = "calls" /\ b \in Starts(flow) /\ pending' = pending \ {call}
            /\ current' = IF HasOneOf(pending', (flow').blocks[b]) THEN {b} ELSE {}
            /\ UNCHANGED <<prog, pass, queue, visited, merges>>
            /\ \/ UNCHANGED <<flow, todo>>
               \/ /\ todo' = todo \cup {next} /\ IsFlow(flow')
                  /\ Starts(flow') = Starts(flow) \cup {next}
                  /\ (flow').edges = {e \in flow.edges : e[1] # b}
                        \cup {<<next, s>> : s \in Successors(flow, b)} \cup {<<b, next>>}
                  /\ (flow').postEntry = flow.postEntry
                  /\ (flow').preExit \subseteq flow.preExit \cup {next}
                  /\ (flow').callLocs = flow.callLocs
  BY SplitAtCallStep
<1> DEFINE next == Following(prog, NextCall(b))
<1>2. /\ prog \in Programs /\ next \in Nat
      /\ pending' \subseteq pending /\ current' \subseteq {b}
      /\ current' # {} => HasOneOf(pending', (flow').blocks[b])
  BY <1>1, NextCallFacts, InstructionFacts DEF Inv
<1> HIDE DEF next
<1>3. /\ IsFlow(flow') /\ b \in Starts(flow') /\ todo' \subseteq todo \cup Starts(flow')
      /\ Starts(flow) \subseteq Starts(flow') /\ (flow').callLocs = flow.callLocs
  BY <1>1 DEF next, Inv, PiecesExist, TypeOK
<1>4. prog' \in Programs /\ TypeOK'
  <2>1. todo' \subseteq Nat /\ current' \subseteq Nat
    BY <1>2, <1>3, FlowFields DEF Inv, PiecesExist, TypeOK
  <2> QED  BY <1>1, <1>2, <1>3, <2>1 DEF Inv, PiecesExist, TypeOK
<1>5. CandidatesDecoded' /\ WorklistClosed' /\ StartsDecoded'
  BY <1>1 DEF Inv, PiecesExist, CandidatesDecoded, WorklistClosed, StartsDecoded
<1>6. NoDanglingEdges'
  <2>1. /\ \A e \in flow.edges : e[1] \in Starts(flow) /\ e[2] \in Starts(flow)
        /\ flow.postEntry \in Starts(flow) /\ flow.preExit \subseteq Starts(flow)
    BY <1>1 DEF Inv, PiecesExist, NoDanglingEdges, Traced
  <2>2. CASE UNCHANGED <<flow, todo>>
    BY <1>1, <2>1, <2>2 DEF NoDanglingEdges
  <2>3. CASE ~UNCHANGED <<flow, todo>>
    <3>1. /\ Starts(flow') = Starts(flow) \cup {next}
          /\ (flow').edges = {e \in flow.edges : e[1] # b}
                \cup {<<next, s>> : s \in Successors(flow, b)} \cup {<<b, next>>}
          /\ (flow').postEntry = flow.postEntry
          /\ (flow').preExit \subseteq flow.preExit \cup {next}
      BY <1>1, <2>3 DEF next
    <3>2. Successors(flow, b) \subseteq Starts(flow)
      BY <2>1 DEF Successors
    <3>3. \A e \in (flow').edges : e[1] \in Starts(flow') /\ e[2] \in Starts(flow')
      BY <1>1, <2>1, <3>1, <3>2
    <3> QED  BY <2>1, <3>1, <3>3 DEF NoDanglingEdges
  <2> QED  BY <2>2, <2>3
<1>7. TodoPresent' /\ MergesSound' /\ CallsDecoded'
  BY <1>1, <1>2, <1>3 DEF Inv, PiecesExist, TodoPresent, MergesSound, CallsDecoded
<1>8. CurrentHasCall'
  <2>1. current' # {} => CallRanges(b)' # {}
    BY <1>2 DEF CallRanges, HasOneOf
  <2> QED  BY <1>1, <1>2, <1>3, <2>1 DEF CurrentHasCall
<1> QED  BY <1>4, <1>5, <1>6, <1>7, <1>8 DEF Inv, PiecesExist

\* Leaving the pass over the calls keeps the invariant.
LEMMA FinishCallsInv == Inv /\ FinishCalls => Inv'
<1> SUFFICES ASSUME Inv, FinishCalls PROVE Inv'
  OBVIOUS
<1>1. CASE pending = {}
  <2>1. /\ IsFlow(flow) /\ pass = "calls" /\ pass' = "symbolize" /\ todo' = {} /\ current = {}
        /\ UNCHANGED <<prog, queue, visited, flow, merges, pending, current>>
    BY <1>1 DEF Inv, PiecesExist, TypeOK, FinishCalls
  <2>2. prog' \in Programs /\ TypeOK'
    BY <2>1 DEF Inv, PiecesExist, TypeOK, Passes
  <2>3. CandidatesDecoded' /\ WorklistClosed' /\ NoDanglingEdges' /\ StartsDecoded'
    BY <2>1 DEF Inv, PiecesExist, CandidatesDecoded, WorklistClosed, NoDanglingEdges,
                Traced, StartsDecoded
  <2>4. TodoPresent' /\ MergesSound' /\ CallsDecoded' /\ CurrentHasCall'
    BY <2>1 DEF Inv, PiecesExist, TodoPresent, MergesSound, CallsDecoded, CurrentHasCall
  <2> QED  BY <2>2, <2>3, <2>4 DEF Inv, PiecesExist
<1>2. CASE pending # {}
  <2>1. Abort
    BY <1>2 DEF FinishCalls
  <2> QED  BY <2>1, AbortInv
<1> QED  BY <1>1, <1>2

\* Naming the callees changes nothing else of a flow.
LEMMA SymbolizedFlow ==
    ASSUME IsFlow(flow),
           flow' = [flow EXCEPT !.blocks =
                 [b \in Starts(flow) |->
                    [flow.blocks[b] EXCEPT !.callees =
                        IF flow.blocks[b].type = "CALL"
                        THEN CallSites(flow, flow.blocks[b]) ELSE @]]]
    PROVE  /\ IsFlow(flow') /\ Starts(flow') = Starts(flow) /\ (flow').edges = flow.edges
           /\ (flow').postEntry = flow.postEntry /\ (flow').preExit = flow.preExit
           /\ (flow').callLocs = flow.callLocs
           /\ \A b \in Starts(flow) :
                 /\ (flow').blocks[b].ranges = flow.blocks[b].ranges
                 /\ (flow').blocks[b].type = flow.blocks[b].type
                 /\ (flow').blocks[b].callees =
                       IF flow.blocks[b].type = "CALL"
                       THEN CallSites(flow, flow.blocks[b]) ELSE flow.blocks[b].callees
<1> DEFINE New(b) == [flow.blocks[b] EXCEPT !.callees =
                        IF flow.blocks[b].type = "CALL"
                        THEN CallSites(flow, flow.blocks[b]) ELSE @]
           blocks == [b \in Starts(flow) |-> New(b)]
<1>1. \A b \in Starts(flow) : CallSites(flow, flow.blocks[b]) \in SUBSET Nat
  BY FlowFields DEF CallSites, InRange
<1>2. ASSUME NEW b \in Starts(flow)
      PROVE  /\ New(b) \in Block
             /\ New(b).ranges = flow.blocks[b].ranges /\ New(b).type = flow.blocks[b].type
             /\ New(b).callees = IF flow.blocks[b].type = "CALL"
                                 THEN CallSites(flow, flow.blocks[b])
                                 ELSE flow.blocks[b].callees
  <2>1. flow.blocks[b] \in Block /\ CallSites(flow, flow.blocks[b]) \in SUBSET Nat
    BY <1>1, FlowFields
  <2> HIDE DEF Starts
  <2> QED  BY <2>1 DEF Block
<1>3. flow' = [flow EXCEPT !.blocks = blocks]
  OBVIOUS
<1> HIDE DEF New
<1>4. /\ blocks \in [Starts(flow) -> Block] /\ DOMAIN blocks = Starts(flow)
      /\ \A b \in Starts(flow) : blocks[b] = New(b)
  BY <1>2
<1> HIDE DEF blocks
<1>5. /\ IsFlow(flow') /\ Starts(flow') = Starts(flow) /\ (flow').edges = flow.edges
      /\ (flow').postEntry = flow.postEntry /\ (flow').preExit = flow.preExit
      /\ (flow').callLocs = flow.callLocs /\ (flow').blocks = blocks
  BY <1>3, <1>4 DEF IsFlow, Starts
<1> QED  BY <1>2, <1>4, <1>5

\* Naming the callees keeps the invariant.
LEMMA SymbolizeInv == Inv /\ Symbolize => Inv'
<1> SUFFICES ASSUME Inv, Symbolize PROVE Inv'
  OBVIOUS
<1>1. \/ Abort
      \/ /\ pass' = "done"
         /\ flow' = [flow EXCEPT !.blocks =
              [b \in Starts(flow) |->
                 [flow.blocks[b] EXCEPT !.callees =
                     IF flow.blocks[b].type = "CALL"
                     THEN CallSites(flow, flow.blocks[b]) ELSE @]]]
         /\ UNCHANGED <<prog, queue, visited, todo, merges, pending, current>>
  BY DEF Symbolize
<1>2. CASE Abort
  BY <1>2, AbortInv
<1>3. CASE ~Abort
  <2>1. /\ IsFlow(flow) /\ pass = "symbolize" /\ pass' = "done" /\ current = {}
        /\ UNCHANGED <<prog, queue, visited, todo, merges, pending, current>>
    BY <1>1, <1>3 DEF Inv, PiecesExist, TypeOK, CurrentHasCall, Symbolize
  <2>2. /\ IsFlow(flow') /\ Starts(flow') = Starts(flow) /\ (flow').edges = flow.edges
        /\ (flow').postEntry = flow.postEntry /\ (flow').preExit = flow.preExit
        /\ (flow').callLocs = flow.callLocs
    BY <1>1, <1>3, <2>1, SymbolizedFlow
  <2>3. prog' \in Programs /\ TypeOK'
    BY <2>1, <2>2 DEF Inv, PiecesExist, TypeOK, Passes
  <2>4. CandidatesDecoded' /\ WorklistClosed' /\ NoDanglingEdges' /\ StartsDecoded'
    BY <2>1, <2>2 DEF Inv, PiecesExist, CandidatesDecoded, WorklistClosed,
                      NoDanglingEdges, Traced, StartsDecoded
  <2>5. TodoPresent' /\ MergesSound' /\ CallsDecoded' /\ CurrentHasCall'
    BY <2>1, <2>2 DEF Inv, PiecesExist, TodoPresent, MergesSound, CallsDecoded,
                      CurrentHasCall
  <2> QED  BY <2>3, <2>4, <2>5 DEF Inv, PiecesExist
<1> QED  BY <1>2, <1>3

\* A step that changes nothing keeps the invariant.
LEMMA StutterInv == Inv /\ UNCHANGED vars => Inv'
<1> SUFFICES ASSUME Inv, UNCHANGED vars PROVE Inv'
  OBVIOUS
<1>1. UNCHANGED <<prog, pass, queue, visited, flow, todo, merges, pending, current>>
  BY DEF vars
<1>2. prog' \in Programs /\ TypeOK'
  BY <1>1 DEF Inv, PiecesExist, TypeOK
<1>3. CandidatesDecoded' /\ WorklistClosed' /\ NoDanglingEdges' /\ StartsDecoded'
  BY <1>1 DEF Inv, PiecesExist, CandidatesDecoded, WorklistClosed, NoDanglingEdges,
              Traced, StartsDecoded, Queued
<1>4. TodoPresent' /\ MergesSound' /\ CallsDecoded' /\ CurrentHasCall'
  BY <1>1 DEF Inv, PiecesExist, TodoPresent, MergesSound, CallsDecoded,
              CurrentHasCall, CallRanges
<1> QED  BY <1>2, <1>3, <1>4 DEF Inv, PiecesExist

-----------------------------------------------------------------------------
(* First part: the theorems.                                               *)

\* Every step of the generator keeps the invariant.
LEMMA StepInv == Inv /\ [Next]_vars => Inv'
<1> SUFFICES ASSUME Inv, [Next]_vars PROVE Inv'
  OBVIOUS
<1>1. CASE SkipCandidate   BY <1>1, SkipCandidateInv
<1>2. CASE TraceBlock      BY <1>2, TraceBlockInv
<1>3. CASE FinishWorklist  BY <1>3, FinishWorklistInv
<1>4. CASE KeepBlock       BY <1>4, KeepBlockInv
<1>5. CASE TrimOverlap     BY <1>5, TrimOverlapInv
<1>6. CASE FinishOverlaps  BY <1>6, FinishOverlapsInv
<1>7. CASE MergeBlock      BY <1>7, MergeBlockInv
<1>8. CASE FinishMerge     BY <1>8, FinishMergeInv
<1>9. CASE StartBlock      BY <1>9, StartBlockInv
<1>10. CASE SplitAtCall    BY <1>10, SplitAtCallInv
<1>11. CASE FinishCalls    BY <1>11, FinishCallsInv
<1>12. CASE Symbolize      BY <1>12, SymbolizeInv
<1>13. CASE Terminated     BY <1>13, StutterInv DEF Terminated
<1>14. CASE UNCHANGED vars BY <1>14, StutterInv
<1> QED  BY <1>1, <1>2, <1>3, <1>4, <1>5, <1>6, <1>7, <1>8, <1>9, <1>10, <1>11, <1>12,
            <1>13, <1>14 DEF Next

\* In every run of the generator, on every section that is well formed, each
\* variable keeps its type and whatever a pass is about to use exists: the block
\* it trims, the block it merges and its one predecessor, the call it splits at.
THEOREM PiecesAlwaysExist == Spec => []PiecesExist
<1>1. Inv => PiecesExist
  BY DEF Inv
<1> QED  BY <1>1, InitInv, StepInv, PTL DEF Spec

\* No pass of the generator, whatever it removes, merges or splits, leaves an
\* edge, the entry marker or an exit marker on a block that does not exist.
THEOREM EdgesNeverDangle == Spec => []NoDanglingEdges
<1>1. PiecesExist => NoDanglingEdges
  BY DEF PiecesExist
<1> QED  BY <1>1, PiecesAlwaysExist, PTL

\* Every variable of the generator keeps its type.
THEOREM TypeCorrect == Spec => []TypeOK
<1>1. PiecesExist => TypeOK
  BY DEF PiecesExist
<1> QED  BY <1>1, PiecesAlwaysExist, PTL

-----------------------------------------------------------------------------
(* Second part: the blocks show their instructions.                        *)

\* While the process lives, every edge and every exit marker is on a block, so a flow
\* whose blocks fit is one that fits.
LEMMA RunningFits ==
    ASSUME Inv, BlocksFit, Running
    PROVE  /\ prog \in Programs
           /\ Fits(prog, flow)
           /\ flow.preExit \subseteq Starts(flow)
<1>1. prog \in Programs /\ IsFlow(flow)
  BY DEF Inv, PiecesExist, TypeOK
<1>2. /\ \A e \in flow.edges : e[1] \in Starts(flow)
      /\ flow.preExit \subseteq Starts(flow)
  <2>1. CASE pass = "trace"
    BY <2>1 DEF Inv, PiecesExist, WorklistClosed
  <2>2. CASE pass # "trace"
    BY <2>2 DEF Inv, PiecesExist, NoDanglingEdges, Traced, Running
  <2> QED  BY <2>1, <2>2
<1> QED  BY <1>1, <1>2 DEF Fits, BlocksFit

\* At the start there are no blocks, and the entry waits.
LEMMA InitShape == Init => BlocksShowInstructions
<1> SUFFICES ASSUME Init PROVE BlocksShowInstructions
  OBVIOUS
<1>1. prog \in Programs /\ pass = "trace" /\ Starts(flow) = {}
  BY DEF Init, EmptyFlow, Starts
<1>2. BlocksFit /\ TrimmedInOrder /\ RangesDisjoint /\ CoversReachableCode /\ MergesFollowJumps
  BY <1>1 DEF BlocksFit, TrimmedInOrder, RangesDisjoint, CoversReachableCode, Traced,
              MergesFollowJumps
<1>3. Covered(prog, flow) = {}
  BY <1>1, CoveredFacts
<1>4. Queued = {prog.entry}
  BY DEF Init, Queued
<1>5. CoverageGrows
  <2>1. prog.entry \in Reachable(prog)
    BY <1>1, ReachableCodeFacts
  <2> QED  BY <1>3, <1>4, <2>1 DEF CoverageGrows, LedTo
<1> QED  BY <1>2, <1>5 DEF BlocksShowInstructions

\* What a dying process leaves behind still fits.
LEMMA AbortShape == BlocksShowInstructions /\ Abort => BlocksShowInstructions'
<1> SUFFICES ASSUME BlocksShowInstructions, Abort PROVE BlocksShowInstructions'
  OBVIOUS
<1>1. pass' = "aborted" /\ UNCHANGED <<prog, queue, visited, flow, todo, merges, pending, current>>
  BY DEF Abort
<1>2. BlocksFit' /\ TrimmedInOrder' /\ RangesDisjoint'
  BY <1>1 DEF BlocksShowInstructions, BlocksFit, TrimmedInOrder, RangesDisjoint
<1>3. CoverageGrows' /\ CoversReachableCode' /\ MergesFollowJumps'
  BY <1>1 DEF BlocksShowInstructions, CoverageGrows, LedTo, CoversReachableCode, Traced,
              MergesFollowJumps, Queued
<1> QED  BY <1>2, <1>3 DEF BlocksShowInstructions

\* Behind mergeJumpBlocks it is enough that a pass keeps a fitting flow, what it covers
\* and that no ranges meet.
LEMMA LaterShape ==
    ASSUME BlocksShowInstructions,
           pass \in {"merge", "calls", "symbolize"},
           pass' \in {"calls", "symbolize", "done"},
           UNCHANGED <<prog, queue>>,
           Fits(prog, flow'), Covered(prog, flow') = Covered(prog, flow),
           Disjoint(flow) => Disjoint(flow')
    PROVE  BlocksShowInstructions'
<1>1. BlocksFit' /\ TrimmedInOrder' /\ MergesFollowJumps'
  BY DEF Fits, BlocksFit, TrimmedInOrder, MergesFollowJumps
<1>2. RangesDisjoint'
  BY DEF BlocksShowInstructions, RangesDisjoint
<1>3. CoverageGrows' /\ CoversReachableCode'
  BY DEF BlocksShowInstructions, CoverageGrows, LedTo, CoversReachableCode, Traced, Queued
<1> QED  BY <1>1, <1>2, <1>3 DEF BlocksShowInstructions

\* Going on to the calls keeps the shape.
LEMMA FinishMergeShape == Inv /\ BlocksShowInstructions /\ FinishMerge => BlocksShowInstructions'
<1> SUFFICES ASSUME Inv, BlocksShowInstructions, FinishMerge PROVE BlocksShowInstructions'
  OBVIOUS
<1>1. /\ pass = "merge" /\ pass' \in {"calls", "symbolize"} /\ UNCHANGED <<prog, queue, flow>>
  BY DEF FinishMerge
<1>2. Fits(prog, flow)
  BY <1>1, RunningFits DEF BlocksShowInstructions, Running
<1> QED  BY <1>1, <1>2, LaterShape

\* Taking a block for its calls changes no more than its type.
LEMMA StartBlockShape == Inv /\ BlocksShowInstructions /\ StartBlock => BlocksShowInstructions'
<1> SUFFICES ASSUME Inv, BlocksShowInstructions, StartBlock PROVE BlocksShowInstructions'
  OBVIOUS
<1>1. /\ pass = "calls" /\ UNCHANGED <<prog, pass, queue>>
      /\ IsFlow(flow') /\ Starts(flow') = Starts(flow) /\ (flow').edges = flow.edges
      /\ \A x \in Starts(flow) : (flow').blocks[x].ranges = flow.blocks[x].ranges
      /\ (flow').preExit = flow.preExit
  BY StartBlockStep
<1>2. IsFlow(flow) /\ Fits(prog, flow)
  BY <1>1, RunningFits DEF BlocksShowInstructions, Running, Fits
<1>3. /\ Fits(prog, flow') /\ Covered(prog, flow') = Covered(prog, flow)
      /\ Disjoint(flow) => Disjoint(flow')
  BY <1>1, <1>2, SameShape
<1> QED  BY <1>1, <1>3, LaterShape

\* Leaving the pass over the calls keeps the shape.
LEMMA FinishCallsShape == Inv /\ BlocksShowInstructions /\ FinishCalls => BlocksShowInstructions'
<1> SUFFICES ASSUME Inv, BlocksShowInstructions, FinishCalls PROVE BlocksShowInstructions'
  OBVIOUS
<1>1. CASE Abort
  BY <1>1, AbortShape
<1>2. CASE ~Abort
  <2>1. /\ pass = "calls" /\ pass' = "symbolize" /\ UNCHANGED <<prog, queue, flow>>
    BY <1>2 DEF FinishCalls
  <2>2. Fits(prog, flow)
    BY <2>1, RunningFits DEF BlocksShowInstructions, Running
  <2> QED  BY <2>1, <2>2, LaterShape
<1> QED  BY <1>1, <1>2

\* Naming the callees keeps the shape.
LEMMA SymbolizeShape == Inv /\ BlocksShowInstructions /\ Symbolize => BlocksShowInstructions'
<1> SUFFICES ASSUME Inv, BlocksShowInstructions, Symbolize PROVE BlocksShowInstructions'
  OBVIOUS
<1>1. CASE Abort
  BY <1>1, AbortShape
<1>2. CASE ~Abort
  <2>1. /\ pass = "symbolize" /\ pass' = "done" /\ UNCHANGED <<prog, queue>>
        /\ flow' = [flow EXCEPT !.blocks =
              [b \in Starts(flow) |->
                 [flow.blocks[b] EXCEPT !.callees =
                     IF flow.blocks[b].type = "CALL"
                     THEN CallSites(flow, flow.blocks[b]) ELSE @]]]
    BY <1>2 DEF Symbolize
  <2>2. IsFlow(flow) /\ Fits(prog, flow)
    BY <2>1, RunningFits DEF BlocksShowInstructions, Running, Fits
  <2>3. /\ IsFlow(flow') /\ Starts(flow') = Starts(flow) /\ (flow').edges = flow.edges
        /\ \A x \in Starts(flow) : (flow').blocks[x].ranges = flow.blocks[x].ranges
        /\ (flow').preExit = flow.preExit
    BY <2>1, <2>2, SymbolizedFlow
  <2>4. /\ Fits(prog, flow') /\ Covered(prog, flow') = Covered(prog, flow)
        /\ Disjoint(flow) => Disjoint(flow')
    BY <2>2, <2>3, SameShape
  <2> QED  BY <2>1, <2>4, LaterShape
<1> QED  BY <1>1, <1>2

\* Behind the call SplitAtCall takes, the block can be cut, unless the call is its last
\* instruction: the ranges do not meet, and only jumps lead from one to the next.
LEMMA CallIsCut ==
    ASSUME Inv, BlocksShowInstructions, pass = "calls", NEW b \in current,
           NextCall(b) # LastAddr(flow.blocks[b])
    PROVE  LET r    == flow.blocks[b].ranges
               call == NextCall(b)
               next == Following(prog, call)
           IN  IsCut(prog, r, NextRange(b), call,
                     KeptRanges(r, next, prog.insn[call].size), CutOff(r, next))
<1> DEFINE r    == flow.blocks[b].ranges
           i    == NextRange(b)
           call == NextCall(b)
           size == prog.insn[call].size
           next == Following(prog, call)
<1>1. /\ prog \in Programs /\ Fits(prog, flow) /\ Disjoint(flow) /\ b \in Starts(flow)
  BY RunningFits, NextCallFacts DEF BlocksShowInstructions, Running, RangesDisjoint
<1>2. /\ i \in DOMAIN r /\ call \in Addresses(prog) /\ call \in Nat
      /\ prog.insn[call].kind = "call" /\ r[i][1] <= call /\ call <= r[i][2]
      /\ call # LastAddr(flow.blocks[b])
  BY NextCallFacts
<1> HIDE DEF i, call
<1>3. /\ r \in Seq(AddrRange) /\ DOMAIN r = 1 .. Len(r) /\ Len(r) \in Nat
      /\ LastAddr(flow.blocks[b]) = r[Len(r)][2]
  BY <1>1, BlockFacts
<1>4. Joined(prog, r) /\ Straight(prog, r[i])
  BY <1>1, <1>2 DEF Fits, BlockFits, Joined
<1>5. \A j \in DOMAIN r : r[j][1] \in Nat /\ r[j][2] \in Nat /\ r[j][1] <= r[j][2]
  <2>1. \A j \in DOMAIN r : Straight(prog, r[j])
    BY <1>4 DEF Joined
  <2>2. \A j \in DOMAIN r : r[j] \in AddrRange
    BY <1>3
  <2> QED  BY <2>1, <2>2 DEF Straight, AddrRange
<1>6. call # r[i][2]
  <2>1. SUFFICES ASSUME call = r[i][2] PROVE FALSE
    OBVIOUS
  <2>2. i # Len(r)
    BY <1>2, <1>3, <2>1
  <2>3. i + 1 \in DOMAIN r
    BY <1>2, <1>3, <2>2
  <2>4. prog.insn[r[i][2]].kind = "jump"
    BY <1>2, <1>4, <2>3 DEF Joined
  <2> QED  BY <1>2, <2>1, <2>4
<1>7. call \in InsnsIn(prog, r[i])
  BY <1>2 DEF InsnsIn
<1>8. next \in InsnsIn(prog, r[i]) /\ call < next
  BY <1>1, <1>4, <1>6, <1>7, StraightStep
<1>9. next \in Nat /\ r[i][1] <= next /\ next <= r[i][2]
  BY <1>1, <1>8, ProgramFacts DEF InsnsIn
<1>10. size \in Nat /\ next = call + size
  BY <1>1, <1>2, InstructionFacts DEF Following
<1> HIDE DEF next, size
<1>11. Holding(r, next) = {i}
  <2>1. i \in Holding(r, next)
    BY <1>2, <1>9 DEF Holding
  <2>2. ASSUME NEW j \in Holding(r, next), j # i PROVE FALSE
    <3>1. j \in DOMAIN r /\ r[j][1] <= next /\ next <= r[j][2]
      BY <2>2 DEF Holding
    <3>2. r[i][2] < r[j][1] \/ r[j][2] < r[i][1]
      BY <1>1, <1>2, <2>2, <3>1 DEF Disjoint
    <3> QED  BY <1>2, <1>5, <1>9, <3>1, <3>2
  <2> QED  BY <2>1, <2>2
<1>12. Min(Holding(r, next)) = i
  <2>1. {i} \in SUBSET Nat /\ {i} # {}
    BY <1>2, <1>3
  <2>2. Min({i}) \in {i}
    BY <2>1, MinOfNaturals
  <2> QED  BY <1>11, <2>2
<1>13. CutOff(r, next) = << <<next, r[i][2]>> >> \o SubSeq(r, i + 1, Len(r))
  BY <1>12 DEF CutOff
<1>14. next - size = call
  BY <1>2, <1>10
<1>15. KeptRanges(r, next, size) = SubSeq(r, 1, i - 1) \o << <<r[i][1], call>> >>
  <2>1. r[i][1] < next
    BY <1>2, <1>5, <1>8, <1>9
  <2> QED  BY <1>12, <1>14, <2>1 DEF KeptRanges
<1> QED  BY <1>2, <1>3, <1>4, <1>6, <1>7, <1>13, <1>15 DEF IsCut, i, call, next, size

\* SplitAtCall, if it lives, leaves the flow alone or splits a block of it.
LEMMA SplitAtCallSplits ==
    ASSUME Inv, BlocksShowInstructions, SplitAtCall
    PROVE  \/ Abort
           \/ \E b \in current :
                 /\ pass = "calls" /\ UNCHANGED <<prog, pass, queue>>
                 /\ \/ UNCHANGED flow
                    \/ IsSplit(prog, flow, flow', b, NextRange(b), NextCall(b))
<1> SUFFICES ASSUME ~Abort
             PROVE  \E b \in current :
                      /\ pass = "calls" /\ UNCHANGED <<prog, pass, queue>>
                      /\ \/ UNCHANGED flow
                         \/ IsSplit(prog, flow, flow', b, NextRange(b), NextCall(b))
  OBVIOUS
<1>1. PICK b \in current :
        LET r == flow.blocks[b].ranges
            call == NextCall(b)
            next == Following(prog, call)
        IN  /\ pass = "calls" /\ b \in Starts(flow) /\ UNCHANGED <<prog, pass, queue>>
            /\ \/ UNCHANGED flow
               \/ /\ call # LastAddr(flow.blocks[b])
                  /\ next \notin Starts(flow) /\ IsFlow(flow')
                  /\ Starts(flow') = Starts(flow) \cup {next}
                  /\ (flow').edges = {e \in flow.edges : e[1] # b}
                        \cup {<<next, s>> : s \in Successors(flow, b)} \cup {<<b, next>>}
                  /\ \A x : x \in (flow').preExit <=> \/ x \in flow.preExit /\ x # b
                                                      \/ x = next /\ b \in flow.preExit
                  /\ (flow').blocks[b].ranges = KeptRanges(r, next, prog.insn[call].size)
                  /\ (flow').blocks[next].ranges = CutOff(r, next)
                  /\ \A x \in Starts(flow) \ {b} : (flow').blocks[x] = flow.blocks[x]
  BY SplitAtCallStep
<1> DEFINE r == flow.blocks[b].ranges
           i == NextRange(b)
           call == NextCall(b)
           next == Following(prog, call)
<1>2. /\ prog \in Programs /\ Fits(prog, flow) /\ flow.preExit \subseteq Starts(flow)
  BY <1>1, RunningFits DEF BlocksShowInstructions, Running
<1>3. CASE UNCHANGED flow
  BY <1>1, <1>3
<1>4. CASE ~UNCHANGED flow
  <2>1. /\ call # LastAddr(flow.blocks[b])
        /\ next \notin Starts(flow) /\ IsFlow(flow')
        /\ Starts(flow') = Starts(flow) \cup {next}
        /\ (flow').edges = {e \in flow.edges : e[1] # b}
              \cup {<<next, s>> : s \in Successors(flow, b)} \cup {<<b, next>>}
        /\ \A x : x \in (flow').preExit <=> \/ x \in flow.preExit /\ x # b
                                            \/ x = next /\ b \in flow.preExit
        /\ (flow').blocks[b].ranges = KeptRanges(r, next, prog.insn[call].size)
        /\ (flow').blocks[next].ranges = CutOff(r, next)
        /\ \A x \in Starts(flow) \ {b} : (flow').blocks[x] = flow.blocks[x]
    BY <1>1, <1>4
  <2>2. IsCut(prog, r, i, call, (flow').blocks[b].ranges, (flow').blocks[next].ranges)
    BY <1>1, <2>1, CallIsCut
  <2> HIDE DEF r, i, call, next
  <2>3. \A x, s : <<x, s>> \in (flow').edges <=>
                     \/ x # b /\ x # next /\ <<x, s>> \in flow.edges
                     \/ x = b /\ s = next
                     \/ x = next /\ <<b, s>> \in flow.edges
    <3>1. \A s : s \in Successors(flow, b) <=> <<b, s>> \in flow.edges
      BY <1>2, SuccessorsType DEF Fits
    <3>2. \A x, s : <<x, s>> \in flow.edges => x # next
      <4> TAKE x, s
      <4> HAVE <<x, s>> \in flow.edges
      <4>1. <<x, s>>[1] \in Starts(flow)
        BY <1>2 DEF Fits
      <4> QED  BY <2>1, <4>1
    <3> TAKE x, s
    <3>3. <<x, s>> \in (flow').edges <=>
             \/ <<x, s>> \in flow.edges /\ x # b
             \/ x = next /\ s \in Successors(flow, b)
             \/ x = b /\ s = next
      BY <2>1
    <3> QED  BY <1>1, <2>1, <3>1, <3>2, <3>3
  <2>4. \A x : x \in (flow').preExit <=>
                  \/ x # b /\ x # next /\ x \in flow.preExit
                  \/ x = next /\ b \in flow.preExit
    BY <1>2, <2>1
  <2>5. IsSplit(prog, flow, flow', b, i, call)
    BY <1>1, <1>2, <2>1, <2>2, <2>3, <2>4 DEF IsSplit, next, r
  <2> QED  BY <1>1, <2>5 DEF i, call
<1> QED  BY <1>3, <1>4

\* Splitting a block behind a call keeps the shape.
LEMMA SplitAtCallShape == Inv /\ BlocksShowInstructions /\ SplitAtCall => BlocksShowInstructions'
<1> SUFFICES ASSUME Inv, BlocksShowInstructions, SplitAtCall, ~Abort
             PROVE  BlocksShowInstructions'
  BY AbortShape
<1>1. PICK b \in current :
        /\ pass = "calls" /\ UNCHANGED <<prog, pass, queue>>
        /\ \/ UNCHANGED flow
           \/ IsSplit(prog, flow, flow', b, NextRange(b), NextCall(b))
  BY SplitAtCallSplits
<1>2. prog \in Programs /\ Fits(prog, flow)
  BY <1>1, RunningFits DEF BlocksShowInstructions, Running
<1>3. CASE UNCHANGED flow
  BY <1>1, <1>2, <1>3, LaterShape
<1>4. CASE ~UNCHANGED flow
  <2>1. IsSplit(prog, flow, flow', b, NextRange(b), NextCall(b))
    BY <1>1, <1>4
  <2>2. /\ Fits(prog, flow') /\ Covered(prog, flow') = Covered(prog, flow)
        /\ Disjoint(flow) => Disjoint(flow')
    BY <1>2, <2>1, SplitFits
  <2> QED  BY <1>1, <2>2, LaterShape
<1> QED  BY <1>3, <1>4

\* Merging a block into the one whose jump leads to it keeps the shape, and the way to
\* the blocks that are still to be merged is a jump as before.
LEMMA MergeBlockShape == Inv /\ BlocksShowInstructions /\ MergeBlock => BlocksShowInstructions'
<1> SUFFICES ASSUME Inv, BlocksShowInstructions, MergeBlock, ~Abort
             PROVE  BlocksShowInstructions'
  BY AbortShape
<1>1. PICK m \in merges : \E A \in Starts(flow) :
        LET B == m[2]
            Succ == Successors(flow, B)
        IN  /\ pass = "merge" /\ merges' = merges \ {m} /\ UNCHANGED <<prog, pass, queue>>
            /\ B \in Starts(flow) /\ A # B /\ Predecessors(flow, B) = {A}
            /\ \A n \in merges : n[2] = B => n = m
            /\ IsFlow(flow') /\ Starts(flow') = Starts(flow) \ {B}
            /\ (flow').edges = EdgesAvoiding(flow, B) \cup {<<A, s>> : s \in Succ}
            /\ (flow').preExit = (flow.preExit \ {B}) \cup (IF Succ = {} THEN {A} ELSE {})
            /\ (flow').blocks[A] = [flow.blocks[A] EXCEPT !.ranges = @ \o flow.blocks[B].ranges]
            /\ \A x \in Starts(flow') \ {A} : (flow').blocks[x] = flow.blocks[x]
  BY MergeBlockStep
<1> DEFINE B == m[2]
           Succ == Successors(flow, B)
<1>2. PICK A \in Starts(flow) :
         /\ pass = "merge" /\ merges' = merges \ {m} /\ UNCHANGED <<prog, pass, queue>>
         /\ B \in Starts(flow) /\ A # B /\ Predecessors(flow, B) = {A}
         /\ \A n \in merges : n[2] = B => n = m
         /\ IsFlow(flow') /\ Starts(flow') = Starts(flow) \ {B}
         /\ (flow').edges = EdgesAvoiding(flow, B) \cup {<<A, s>> : s \in Succ}
         /\ (flow').preExit = (flow.preExit \ {B}) \cup (IF Succ = {} THEN {A} ELSE {})
         /\ (flow').blocks[A] = [flow.blocks[A] EXCEPT !.ranges = @ \o flow.blocks[B].ranges]
         /\ \A x \in Starts(flow') \ {A} : (flow').blocks[x] = flow.blocks[x]
  BY <1>1
<1>3. /\ prog \in Programs /\ IsFlow(flow) /\ Fits(prog, flow)
  BY <1>2, RunningFits DEF BlocksShowInstructions, Running, Fits
<1>4. \A n \in merges : \A a \in Predecessors(flow, n[2]) :
         prog.insn[LastAddr(flow.blocks[a])].kind = "jump"
  BY <1>2 DEF BlocksShowInstructions, MergesFollowJumps
<1>5. \A x, s : s \in Predecessors(flow, x) <=> <<s, x>> \in flow.edges
  BY <1>3, SuccessorsType
<1>6. \A x : x \in Succ <=> <<B, x>> \in flow.edges
  BY <1>3, SuccessorsType
<1>7. (flow').blocks[A].ranges = flow.blocks[A].ranges \o flow.blocks[B].ranges
  <2>1. flow.blocks[A] \in Block
    BY <1>2, <1>3, FlowFields
  <2> QED  BY <1>2, <2>1 DEF Block
<1>8. prog.insn[LastAddr(flow.blocks[A])].kind = "jump"
  BY <1>2, <1>4
<1>9. \A x, y : <<x, y>> \in EdgesAvoiding(flow, B) <=>
                  <<x, y>> \in flow.edges /\ x # B /\ y # B
  BY DEF EdgesAvoiding
<1> HIDE DEF B, Succ
<1>10. \A x : <<x, B>> \in flow.edges <=> x = A
  BY <1>2, <1>5
<1>11. \A x, s : <<x, s>> \in (flow').edges <=>
                    \/ <<x, s>> \in flow.edges /\ x # B /\ s # B
                    \/ x = A /\ <<B, s>> \in flow.edges
  <2> TAKE x, s
  <2>1. <<x, s>> \in (flow').edges <=> <<x, s>> \in EdgesAvoiding(flow, B) \/ (x = A /\ s \in Succ)
    BY <1>2
  <2> QED  BY <1>6, <1>9, <2>1
<1>12. \A x : x \in (flow').preExit <=>
                 \/ x \in flow.preExit /\ x # B
                 \/ x = A /\ \A s : <<B, s>> \notin flow.edges
  <2>1. Succ = {} <=> \A s : <<B, s>> \notin flow.edges
    BY <1>6
  <2> QED  BY <1>2, <2>1
<1>13. \A x \in Starts(flow) \ {A, B} : (flow').blocks[x].ranges = flow.blocks[x].ranges
  BY <1>2
<1>14. /\ Fits(prog, flow') /\ Covered(prog, flow') = Covered(prog, flow)
       /\ LastAddr((flow').blocks[A]) = LastAddr(flow.blocks[B])
       /\ \A s : <<A, s>> \in flow.edges <=> s = B
       /\ Disjoint(flow) => Disjoint(flow')
  <2>1. IsMerge(prog, flow, flow', A, B)
    BY <1>2, <1>3, <1>7, <1>8, <1>10, <1>11, <1>12, <1>13 DEF IsMerge
  <2> QED  BY <1>3, <2>1, MergeFits
<1>15. MergesFollowJumps'
  <2>1. SUFFICES ASSUME NEW n \in merges \ {m}, NEW a \in Predecessors(flow', n[2])
                 PROVE  prog.insn[LastAddr((flow').blocks[a])].kind = "jump"
    BY <1>2 DEF MergesFollowJumps
  <2>2. n[2] # B
    BY <1>2, <2>1
  <2>3. <<a, n[2]>> \in (flow').edges
    BY <1>2, <2>1, SuccessorsType
  <2>4. CASE <<a, n[2]>> \in flow.edges /\ a # B
    <3>1. a # A
      BY <1>14, <2>2, <2>4
    <3>2. a \in Starts(flow')
      <4>1. <<a, n[2]>>[1] \in Starts(flow)
        BY <1>3, <2>4 DEF Fits
      <4> QED  BY <1>2, <2>4, <4>1
    <3>3. (flow').blocks[a] = flow.blocks[a]
      BY <1>2, <3>1, <3>2
    <3>4. a \in Predecessors(flow, n[2])
      BY <1>5, <2>4
    <3> QED  BY <1>4, <3>3, <3>4
  <2>5. CASE a = A /\ <<B, n[2]>> \in flow.edges
    <3>1. B \in Predecessors(flow, n[2])
      BY <1>5, <2>5
    <3> QED  BY <1>4, <1>14, <2>5, <3>1
  <2> QED  BY <1>11, <2>3, <2>4, <2>5
<1>16. BlocksFit' /\ TrimmedInOrder' /\ RangesDisjoint'
  BY <1>2, <1>14 DEF Fits, BlocksFit, TrimmedInOrder, RangesDisjoint, BlocksShowInstructions
<1>17. CoverageGrows' /\ CoversReachableCode'
  BY <1>2, <1>14 DEF BlocksShowInstructions, CoverageGrows, LedTo, CoversReachableCode, Traced, Queued
<1> QED  BY <1>15, <1>16, <1>17 DEF BlocksShowInstructions
-----------------------------------------------------------------------------
(* The worklist: the instructions traced.                                  *)

\* A candidate seen before starts a block, so it is covered.
LEMMA SkipCandidateShape ==
    Inv /\ BlocksShowInstructions /\ SkipCandidate => BlocksShowInstructions'
<1> SUFFICES ASSUME Inv, BlocksShowInstructions, SkipCandidate PROVE BlocksShowInstructions'
  OBVIOUS
<1>1. /\ pass = "trace" /\ queue # << >> /\ Head(queue) \in visited /\ queue' = Tail(queue)
      /\ UNCHANGED <<prog, pass, flow, todo, merges>>
  BY DEF SkipCandidate
<1>2. prog \in Programs /\ Fits(prog, flow)
  BY <1>1, RunningFits DEF BlocksShowInstructions, Running
<1>3. Head(queue) \in Covered(prog, flow)
  <2>1. Head(queue) \in Starts(flow)
    BY <1>1 DEF Inv, PiecesExist, WorklistClosed
  <2> QED  BY <1>2, <2>1, BlockFacts
<1>4. Queued = {Head(queue)} \cup Queued'
  BY <1>1, QueueFacts DEF Queued
<1>5. BlocksFit' /\ TrimmedInOrder' /\ RangesDisjoint' /\ CoversReachableCode' /\ MergesFollowJumps'
  BY <1>1 DEF BlocksShowInstructions, BlocksFit, TrimmedInOrder, Traversed, RangesDisjoint,
              CoversReachableCode, Traced, MergesFollowJumps
<1>6. CoverageGrows'
  BY <1>1, <1>3, <1>4 DEF BlocksShowInstructions, CoverageGrows, LedTo
<1> QED  BY <1>5, <1>6 DEF BlocksShowInstructions

\* A new block is the straight run from a candidate to the next instruction that ends a
\* block, and the run is covered.
LEMMA TraceBlockFits ==
    ASSUME Inv, BlocksShowInstructions, TraceBlock
    PROVE  LET start == Head(queue)
               last  == Min(BlockEnds(prog, start))
               run   == InsnsIn(prog, <<start, last>>)
           IN  /\ prog \in Programs
               /\ Straight(prog, <<start, last>>) /\ start \in run /\ last \in run
               /\ GoesTo(prog, last) = TargetSet(prog, last)
               /\ (flow').blocks[start].ranges = << <<start, last>> >>
               /\ Fits(prog, flow') /\ Covered(prog, flow') = Covered(prog, flow) \cup run
<1> DEFINE start   == Head(queue)
           last    == Min(BlockEnds(prog, start))
           run     == InsnsIn(prog, <<start, last>>)
<1>1. pass = "trace" /\ start \in Code(prog) /\ start \notin visited
  BY TraceBlockStep
<1>2. /\ IsFlow(flow') /\ Starts(flow') = Starts(flow) \cup {start}
      /\ (flow').edges = flow.edges \cup {<<start, t>> : t \in TargetSet(prog, last)}
      /\ (flow').preExit = IF prog.insn[last].kind = "ret"
                           THEN flow.preExit \cup {start} ELSE flow.preExit
      /\ (flow').blocks[start] = NewBlock(<< <<start, last>> >>, "NORMAL")
      /\ \A b \in Starts(flow) : (flow').blocks[b] = flow.blocks[b]
  BY TraceBlockStep
<1>3. /\ prog \in Programs /\ Fits(prog, flow) /\ flow.preExit \subseteq Starts(flow)
      /\ start \notin Starts(flow)
  BY <1>1, RunningFits DEF BlocksShowInstructions, Running, Inv, PiecesExist, WorklistClosed
<1>4. /\ Straight(prog, <<start, last>>) /\ EndsBlock(prog, last)
      /\ last \in run /\ start \in run
  BY <1>1, <1>3, RunIsStraight
<1>5. (flow').blocks[start].ranges = << <<start, last>> >>
  BY <1>2 DEF NewBlock
<1>6. GoesTo(prog, last) = TargetSet(prog, last)
  BY <1>4 DEF GoesTo
<1> HIDE DEF start, last
<1>7. Fits(prog, flow') /\ Covered(prog, flow') = Covered(prog, flow) \cup run
  <2>1. \A b \in Starts(flow) : (flow').blocks[b].ranges = flow.blocks[b].ranges
    BY <1>2
  <2> QED  BY <1>2, <1>3, <1>4, <1>5, <2>1, TraceFits
<1> QED  BY <1>3, <1>4, <1>5, <1>6, <1>7 DEF start, last

\* Tracing a candidate keeps the shape: what it leads to goes into the worklist.
LEMMA TraceBlockShape == Inv /\ BlocksShowInstructions /\ TraceBlock => BlocksShowInstructions'
<1> SUFFICES ASSUME Inv, BlocksShowInstructions, TraceBlock PROVE BlocksShowInstructions'
  OBVIOUS
<1> DEFINE start   == Head(queue)
           last    == Min(BlockEnds(prog, start))
           waiting == {Tail(queue)[i] : i \in DOMAIN Tail(queue)}
           run     == InsnsIn(prog, <<start, last>>)
<1>1. /\ pass = "trace" /\ pass' = "trace" /\ queue # << >>
      /\ start \in Code(prog) /\ start \notin visited
      /\ Queued = {start} \cup waiting
      /\ Queued' = waiting \cup TargetSet(prog, last)
      /\ UNCHANGED <<prog, pass, todo, merges, pending, current>>
  BY TraceBlockStep
<1>2. /\ Starts(flow') = Starts(flow) \cup {start}
      /\ \A b \in Starts(flow) : (flow').blocks[b] = flow.blocks[b]
  BY TraceBlockStep
<1>3. /\ prog \in Programs
      /\ Straight(prog, <<start, last>>) /\ start \in run /\ last \in run
      /\ GoesTo(prog, last) = TargetSet(prog, last)
      /\ (flow').blocks[start].ranges = << <<start, last>> >>
      /\ Fits(prog, flow') /\ Covered(prog, flow') = Covered(prog, flow) \cup run
  BY TraceBlockFits
<1> HIDE DEF start, last, waiting
<1>8. BlocksFit' /\ RangesDisjoint' /\ CoversReachableCode' /\ MergesFollowJumps'
  BY <1>1, <1>3 DEF Fits, BlocksFit, RangesDisjoint, CoversReachableCode, Traced,
                    MergesFollowJumps
<1>9. TrimmedInOrder'
  <2>1. \A b \in Starts(flow) : Traversed(b)
    BY <1>1 DEF BlocksShowInstructions, TrimmedInOrder
  <2>2. \A b \in Starts(flow') : Traversed(b)'
    BY <1>1, <1>2, <1>3, <2>1 DEF Traversed, last
  <2> QED  BY <1>1, <2>2 DEF TrimmedInOrder
<1>10. CoverageGrows'
  <2>1. /\ Covered(prog, flow) \cup Queued \subseteq Reachable(prog)
        /\ prog.entry \in Covered(prog, flow) \cup Queued
        /\ \A a \in Covered(prog, flow) : GoesTo(prog, a) \subseteq Covered(prog, flow) \cup Queued
        /\ Queued \subseteq LedTo
    BY <1>1 DEF BlocksShowInstructions, CoverageGrows, LedTo
  <2>2. run \subseteq Reachable(prog)
    BY <1>1, <1>3, <2>1, ReachedAlong
  <2>3. TargetSet(prog, last) \subseteq Reachable(prog)
    BY <1>3, <2>2, ReachableCodeFacts
  <2>4. Covered(prog, flow') \cup Queued' \subseteq Reachable(prog)
    BY <1>1, <1>3, <2>1, <2>2, <2>3
  <2>5. Covered(prog, flow) \cup Queued \subseteq Covered(prog, flow') \cup Queued'
    BY <1>1, <1>3
  <2>6. ASSUME NEW a \in run PROVE GoesTo(prog, a) \subseteq Covered(prog, flow') \cup Queued'
    <3>1. CASE a = last
      BY <1>1, <1>3, <3>1
    <3>2. CASE a # last
      <4>1. GoesTo(prog, a) = {Following(prog, a)} /\ Following(prog, a) \in run
        BY <1>3, <2>6, <3>2, StraightStep
      <4> QED  BY <1>3, <4>1
    <3> QED  BY <3>1, <3>2
  <2>7. \A a \in Covered(prog, flow') : GoesTo(prog, a) \subseteq Covered(prog, flow') \cup Queued'
    BY <1>3, <2>1, <2>5, <2>6
  <2>8. LedTo' \subseteq Covered(prog, flow') \cup Queued'
    BY <1>1, <2>1, <2>5, <2>7 DEF LedTo
  <2>9. Queued' \subseteq LedTo'
    BY <1>1, <1>3, <2>1 DEF LedTo
  <2> QED  BY <1>1, <2>4, <2>8, <2>9 DEF CoverageGrows
<1> QED  BY <1>8, <1>9, <1>10 DEF BlocksShowInstructions

\* When nothing waits, what is covered is closed, so it is all that can be reached.
LEMMA FinishWorklistShape ==
    Inv /\ BlocksShowInstructions /\ FinishWorklist => BlocksShowInstructions'
<1> SUFFICES ASSUME Inv, BlocksShowInstructions, FinishWorklist PROVE BlocksShowInstructions'
  OBVIOUS
<1>1. /\ pass = "trace" /\ queue = << >> /\ pass' = "overlaps" /\ todo' = Starts(flow)
      /\ UNCHANGED <<prog, queue, flow, merges>>
  BY DEF FinishWorklist
<1>2. prog \in Programs /\ IsFlow(flow)
  BY DEF Inv, PiecesExist, TypeOK
<1>3. Queued = {} /\ Queued' = {}
  BY <1>1 DEF Queued
<1>4. BlocksFit' /\ RangesDisjoint' /\ MergesFollowJumps'
  BY <1>1 DEF BlocksShowInstructions, BlocksFit, RangesDisjoint, MergesFollowJumps
<1>5. TrimmedInOrder'
  <2>1. \A b \in Starts(flow) : Traversed(b)'
    BY <1>1 DEF BlocksShowInstructions, TrimmedInOrder, Traversed
  <2> QED  BY <1>1, <2>1 DEF TrimmedInOrder
<1>6. CoversReachableCode'
  <2>1. /\ Covered(prog, flow) \subseteq Reachable(prog)
        /\ prog.entry \in Covered(prog, flow)
        /\ \A a \in Covered(prog, flow) : GoesTo(prog, a) \subseteq Covered(prog, flow)
    BY <1>1, <1>3 DEF BlocksShowInstructions, CoverageGrows, LedTo
  <2>2. Reachable(prog) \subseteq Covered(prog, flow)
    BY <1>2, <2>1, ReachableCodeFacts
  <2> QED  BY <1>1, <2>1, <2>2 DEF CoversReachableCode
<1>7. CoverageGrows'
  BY <1>1, <1>3 DEF BlocksShowInstructions, CoverageGrows, LedTo
<1> QED  BY <1>4, <1>5, <1>6, <1>7 DEF BlocksShowInstructions
-----------------------------------------------------------------------------
(* fixOverlaps: the instructions trimmed.                                  *)

\* What upper_bound and lower_bound return: the first block start of a set, or behind the
\* last one a number below every address.
LEMMA FirstStartFacts ==
    ASSUME Inv, pass = "overlaps", NEW S \in SUBSET Starts(flow)
    PROVE  /\ S # {} => FirstStart(S) \in S /\ \A x \in S : FirstStart(S) <= x
           /\ S = {} => FirstStart(S) \in Nat /\ \A x \in Addresses(prog) : FirstStart(S) < x
<1>1. /\ prog \in Programs /\ Starts(flow) \subseteq Addresses(prog)
      /\ Addresses(prog) \in SUBSET Nat
  BY ProgramFacts, CodeFacts DEF Inv, PiecesExist, StartsDecoded
<1>2. ASSUME S # {} PROVE FirstStart(S) \in S /\ \A x \in S : FirstStart(S) <= x
  <2>1. S \in SUBSET Nat
    BY <1>1
  <2> QED  BY <1>2, <2>1, MinOfNaturals DEF FirstStart
<1>3. ASSUME S = {}
      PROVE  FirstStart(S) \in Nat /\ \A x \in Addresses(prog) : FirstStart(S) < x
  <2>1. FirstStart(S) = Cardinality(Starts(flow))
    BY <1>3 DEF FirstStart
  <2>2. /\ Cardinality(Starts(flow)) <= Cardinality(Addresses(prog))
        /\ Cardinality(Starts(flow)) \in Nat /\ Cardinality(Addresses(prog)) \in Nat
    BY <1>1, ProgramFacts, FS_Subset, FS_CardinalityType
  <2>3. ASSUME NEW x \in Addresses(prog) PROVE Cardinality(Starts(flow)) < x
    <3>1. Cardinality(Addresses(prog)) < x /\ x \in Nat
      BY <1>1, ProgramFacts
    <3> QED  BY <2>2, <3>1
  <2> QED  BY <2>1, <2>2, <2>3
<1> QED  BY <1>2, <1>3

\* A block that is still to be trimmed is one straight run.
LEMMA TodoFacts ==
    ASSUME Inv, BlocksShowInstructions, pass = "overlaps", NEW b \in todo
    PROVE  LET last == LastAddr(flow.blocks[b])
           IN  /\ prog \in Programs /\ b \in Starts(flow) /\ b \in Nat /\ last \in Nat
               /\ last \in Addresses(prog) /\ b <= last
               /\ flow.blocks[b].ranges = << <<b, last>> >>
               /\ last = Min(BlockEnds(prog, b))
               /\ Straight(prog, <<b, last>>)
<1> DEFINE last == Min(BlockEnds(prog, b))
<1>1. prog \in Programs /\ Fits(prog, flow) /\ b \in Starts(flow)
  BY RunningFits DEF BlocksShowInstructions, Running, Inv, PiecesExist, TodoPresent
<1>2. flow.blocks[b].ranges = << <<b, last>> >>
  BY DEF BlocksShowInstructions, TrimmedInOrder, Traversed
<1> HIDE DEF last
<1>3. LastAddr(flow.blocks[b]) = last /\ Straight(prog, <<b, last>>)
  BY <1>1, <1>2, BlockFacts
<1>4. b \in Addresses(prog) /\ last \in Addresses(prog) /\ b <= last
  BY <1>3 DEF Straight
<1> QED  BY <1>1, <1>2, <1>3, <1>4, ProgramFacts DEF last

\* The test of fixOverlaps, with its end iterators, finds the blocks that another block
\* starts in.
LEMMA OverlapMeaning ==
    ASSUME Inv, BlocksShowInstructions, pass = "overlaps", NEW b \in todo
    PROVE  Overlaps(b) <=> \E s \in Starts(flow) : b < s /\ s <= LastAddr(flow.blocks[b])
<1> DEFINE last  == LastAddr(flow.blocks[b])
           later == {s \in Starts(flow) : s > b}
           from  == {s \in Starts(flow) : s >= last}
<1>1. /\ prog \in Programs /\ b \in Nat /\ last \in Nat /\ last \in Addresses(prog) /\ b <= last
  BY TodoFacts
<1>2. /\ Starts(flow) \subseteq Addresses(prog) /\ Addresses(prog) \in SUBSET Nat
  BY <1>1, ProgramFacts, CodeFacts DEF Inv, PiecesExist, StartsDecoded
<1> DEFINE after == StartAfter(b)
           lower == StartFrom(last)
<1>3. Overlaps(b) <=> b # last /\ (after # lower \/ lower = last)
  BY DEF Overlaps
<1>4. /\ later # {} => after \in later /\ \A x \in later : after <= x
      /\ later = {} => after \in Nat /\ \A x \in Addresses(prog) : after < x
  <2>1. later \in SUBSET Starts(flow)
    OBVIOUS
  <2> QED  BY <2>1, FirstStartFacts DEF StartAfter
<1>5. /\ from # {} => lower \in from /\ \A x \in from : lower <= x
      /\ from = {} => lower \in Nat /\ \A x \in Addresses(prog) : lower < x
  <2>1. from \in SUBSET Starts(flow)
    OBVIOUS
  <2>2. lower = FirstStart(from)
    BY DEF StartFrom
  <2> HIDE DEF from, lower
  <2> QED  BY <2>1, <2>2, FirstStartFacts
<1>6. \A x \in Starts(flow) : x \in Nat /\ (x \in later <=> b < x) /\ (x \in from <=> last <= x)
  BY <1>1, <1>2
<1>7. later = {s \in Starts(flow) : s > b} /\ from = {s \in Starts(flow) : s >= last}
  OBVIOUS
<1>8. later \subseteq Starts(flow) /\ from \subseteq Starts(flow)
  OBVIOUS
<1>9. (\A s \in Starts(flow) : ~(b < s /\ s <= last)) /\ b # last => after = lower
  <2>1. SUFFICES ASSUME \A s \in Starts(flow) : ~(b < s /\ s <= last), b # last
                 PROVE  later = from
    BY DEF StartAfter, StartFrom
  <2> HIDE DEF later, from, last
  <2>2. ASSUME NEW s \in Starts(flow) PROVE b < s <=> last <= s
    <3>1. s \in Nat /\ ~(b < s /\ s <= last)
      BY <1>6, <2>1
    <3> QED  BY <1>1, <2>1, <3>1
  <2> QED  BY <1>6, <1>8, <2>2
<1> HIDE DEF later, from, after, lower, last
<1>10. ASSUME NEW s \in Starts(flow), b < s, s <= last PROVE Overlaps(b)
  <2>1. s \in Nat /\ s \in later /\ after \in later /\ after <= s /\ after \in Nat
    BY <1>4, <1>6, <1>8, <1>10
  <2>2. b # last
    BY <1>1, <1>10, <2>1
  <2>3. CASE from = {}
    <3>1. lower < after
      BY <1>2, <1>5, <1>8, <2>1, <2>3
    <3>2. after # lower
      BY <1>5, <2>1, <2>3, <3>1
    <3> QED  BY <1>3, <2>2, <3>2
  <2>4. CASE from # {}
    <3>1. lower \in Nat /\ last <= lower
      BY <1>5, <1>6, <1>8, <2>4
    <3>2. after <= last
      BY <1>1, <1>10, <2>1
    <3>3. after # lower \/ lower = last
      BY <1>1, <2>1, <3>1, <3>2
    <3> QED  BY <1>3, <2>2, <3>3
  <2> QED  BY <2>3, <2>4
<1>11. ASSUME Overlaps(b) PROVE \E s \in Starts(flow) : b < s /\ s <= last
  <2>1. b # last /\ b < last
    BY <1>1, <1>3, <1>11
  <2>2. CASE lower = last
    <3>1. from # {}
      BY <1>1, <1>5, <2>2
    <3> QED  BY <1>1, <1>5, <1>8, <2>1, <2>2, <3>1
  <2>3. CASE after # lower
    BY <1>9, <2>1, <2>3
  <2> QED  BY <1>3, <1>11, <2>2, <2>3
<1> QED  BY <1>10, <1>11 DEF last
\* The blocks ahead of the one fixOverlaps looks at.
LEMMA TodoOrder ==
    ASSUME Inv, BlocksShowInstructions, pass = "overlaps", todo # {}
    PROVE  /\ Min(todo) \in todo /\ Min(todo) \in Starts(flow)
           /\ \A b \in todo \ {Min(todo)} : \A c \in Starts(flow) :
                 b < c => c \in todo \ {Min(todo)}
           /\ \A b \in Starts(flow) \ todo :
                 /\ Len(flow.blocks[b].ranges) = 1
                 /\ \A c \in Starts(flow) : ~(b < c /\ c <= LastAddr(flow.blocks[b]))
<1>1. todo \in SUBSET Nat /\ todo \subseteq Starts(flow) /\ Starts(flow) \in SUBSET Nat
  BY FlowFields DEF Inv, PiecesExist, TypeOK, TodoPresent
<1>2. Min(todo) \in todo /\ \A x \in todo : Min(todo) <= x
  BY <1>1, MinOfNaturals
<1>3. /\ \A b \in todo : \A c \in Starts(flow) : b < c => c \in todo
      /\ \A b \in Starts(flow) \ todo :
            /\ Len(flow.blocks[b].ranges) = 1
            /\ \A c \in Starts(flow) : ~(b < c /\ c <= LastAddr(flow.blocks[b]))
  BY DEF BlocksShowInstructions, TrimmedInOrder
<1> DEFINE m == Min(todo)
<1> HIDE DEF m
<1>4. ASSUME NEW b \in todo, NEW c \in Starts(flow), b < c, m \in todo, \A x \in todo : m <= x
      PROVE  c \in todo /\ c # m
  BY <1>1, <1>3, <1>4
<1>5. \A b \in todo \ {m} : \A c \in Starts(flow) : b < c => c \in todo \ {m}
  BY <1>2, <1>4 DEF m
<1> QED  BY <1>1, <1>2, <1>3, <1>5 DEF m

\* A block without overlap stays as it was traced.
LEMMA KeepBlockShape == Inv /\ BlocksShowInstructions /\ KeepBlock => BlocksShowInstructions'
<1> SUFFICES ASSUME Inv, BlocksShowInstructions, KeepBlock PROVE BlocksShowInstructions'
  OBVIOUS
<1> DEFINE b == Min(todo)
<1>1. /\ pass = "overlaps" /\ todo # {} /\ ~Overlaps(b) /\ todo' = todo \ {b}
      /\ UNCHANGED <<prog, pass, queue, visited, flow, merges>>
  BY DEF KeepBlock
<1>2. b \in todo
  BY <1>1, TodoOrder
<1>3. /\ \A s \in Starts(flow) : ~(b < s /\ s <= LastAddr(flow.blocks[b]))
      /\ Len(flow.blocks[b].ranges) = 1
  <2>1. \A s \in Starts(flow) : ~(b < s /\ s <= LastAddr(flow.blocks[b]))
    BY <1>1, <1>2, OverlapMeaning
  <2>2. flow.blocks[b].ranges = << <<b, LastAddr(flow.blocks[b])>> >>
    BY <1>1, <1>2, TodoFacts
  <2> QED  BY <2>1, <2>2
<1>4. TrimmedInOrder'
  <2>1. \A c \in todo' : Traversed(c)'
    BY <1>1 DEF BlocksShowInstructions, TrimmedInOrder, Traversed
  <2>2. \A x \in todo' : \A c \in Starts(flow) : x < c => c \in todo'
    BY <1>1, TodoOrder
  <2>3. \A x \in Starts(flow) \ todo' :
           /\ Len(flow.blocks[x].ranges) = 1
           /\ \A c \in Starts(flow) : ~(x < c /\ c <= LastAddr(flow.blocks[x]))
    <3> TAKE x \in Starts(flow) \ todo'
    <3>1. x = b \/ x \in Starts(flow) \ todo
      BY <1>1
    <3> HIDE DEF b
    <3> QED  BY <1>1, <1>3, <3>1, TodoOrder
  <2> QED  BY <1>1, <2>1, <2>2, <2>3 DEF TrimmedInOrder
<1>5. BlocksFit' /\ RangesDisjoint' /\ MergesFollowJumps'
  BY <1>1 DEF BlocksShowInstructions, BlocksFit, RangesDisjoint, MergesFollowJumps
<1>6. CoverageGrows' /\ CoversReachableCode'
  BY <1>1 DEF BlocksShowInstructions, CoverageGrows, LedTo, CoversReachableCode, Traced, Queued
<1> QED  BY <1>4, <1>5, <1>6 DEF BlocksShowInstructions

\* A block another one starts in keeps what is in front of that one, and leads to it: both
\* end with the same instruction, so the other covers the rest and has the same out-edges.
LEMMA TrimOverlapShape == Inv /\ BlocksShowInstructions /\ TrimOverlap => BlocksShowInstructions'
<1> SUFFICES ASSUME Inv, BlocksShowInstructions, TrimOverlap, ~Abort
             PROVE  BlocksShowInstructions'
  BY AbortShape
<1> DEFINE b    == Min(todo)
           next == StartAfter(b)
           m    == Max({a \in Addresses(prog) : a < next})
           kept == next - prog.insn[m].size
           last == LastAddr(flow.blocks[b])
           run  == InsnsIn(prog, <<b, last>>)
<1>1. /\ pass = "overlaps" /\ todo # {} /\ Overlaps(b)
  BY DEF TrimOverlap
<1>2. /\ todo' = todo \ {b} /\ b \in todo /\ b \in Starts(flow) /\ b < next
      /\ next \in Starts(flow) /\ \A x \in Starts(flow) : b < x => next <= x
      /\ IsFlow(flow') /\ Starts(flow') = Starts(flow)
      /\ (flow').edges = EdgesAvoiding(flow, b) \cup (IncomingKept(b, next) \cup {<<b, next>>})
      /\ (flow').preExit = flow.preExit \ {b}
      /\ (flow').blocks[b] = NewBlock(<< <<b, kept>> >>, "NORMAL")
      /\ \A x \in Starts(flow) \ {b} : (flow').blocks[x] = flow.blocks[x]
      /\ UNCHANGED <<prog, pass, queue, visited, merges>>
  BY TrimOverlapStep
<1>3. /\ prog \in Programs /\ b \in Nat /\ last \in Nat /\ last \in Addresses(prog) /\ b <= last
      /\ flow.blocks[b].ranges = << <<b, last>> >>
      /\ last = Min(BlockEnds(prog, b)) /\ Straight(prog, <<b, last>>)
  BY <1>1, <1>2, TodoFacts
<1>4. Fits(prog, flow) /\ Starts(flow) \in SUBSET Nat
  BY <1>1, RunningFits, FlowFields DEF BlocksShowInstructions, Running, Fits
<1>5. \E s \in Starts(flow) : b < s /\ s <= last
  BY <1>1, <1>2, OverlapMeaning
<1>6. next \in Nat /\ next <= last
  BY <1>2, <1>3, <1>4, <1>5
<1>7. next \in todo
  BY <1>1, <1>2 DEF BlocksShowInstructions, TrimmedInOrder
<1> DEFINE end == LastAddr(flow.blocks[next])
<1>8. /\ flow.blocks[next].ranges = << <<next, end>> >> /\ end = Min(BlockEnds(prog, next))
      /\ end \in Nat /\ next <= end
  BY <1>1, <1>7, TodoFacts
<1>9. /\ next \in run /\ next # b /\ b \in Code(prog) /\ next \in Code(prog)
  <2>1. b \in Code(prog) /\ next \in Code(prog)
    BY <1>1, <1>2 DEF Inv, PiecesExist, StartsDecoded
  <2>2. next \in Addresses(prog)
    BY <1>3, <2>1, CodeFacts
  <2> QED  BY <1>2, <1>3, <1>6, <2>1, <2>2 DEF InsnsIn
<1> HIDE DEF b, next, last, m, end
<1>10. end = last
  <2>1. BlockEnds(prog, b) \in SUBSET Nat /\ BlockEnds(prog, next) \in SUBSET Nat
    BY <1>3, ProgramFacts DEF BlockEnds
  <2>2. BlockEnds(prog, b) # {} /\ BlockEnds(prog, next) # {}
    BY <1>3, <1>9, CodeFacts DEF ClosedCode
  <2>3. /\ last \in BlockEnds(prog, b) /\ \A x \in BlockEnds(prog, b) : last <= x
        /\ end \in BlockEnds(prog, next) /\ \A x \in BlockEnds(prog, next) : end <= x
    BY <1>3, <1>8, <2>1, <2>2, MinOfNaturals
  <2>4. last \in BlockEnds(prog, next)
    BY <1>6, <2>3 DEF BlockEnds
  <2>5. end \in BlockEnds(prog, b)
    <3>1. b <= end
      BY <1>2, <1>3, <1>6, <1>8
    <3> QED  BY <2>3, <3>1 DEF BlockEnds
  <2>6. end <= last /\ last <= end
    BY <2>3, <2>4, <2>5
  <2> QED  BY <1>3, <1>8, <2>6
<1>11. /\ m \in run /\ m < next /\ Following(prog, m) = next
       /\ m \in Nat /\ m # last /\ kept = m
  <2>1. m \in InsnsIn(prog, <<b, last>>) /\ m < next /\ Following(prog, m) = next
    BY <1>3, <1>9, StraightBefore DEF m
  <2>2. m \in Addresses(prog) /\ m \in Nat
    BY <1>3, <2>1, ProgramFacts DEF InsnsIn
  <2>3. prog.insn[m].size \in Nat /\ next = m + prog.insn[m].size
    BY <1>3, <2>1, <2>2, InstructionFacts DEF Following
  <2>4. kept = m
    BY <2>2, <2>3
  <2>5. m # last
    BY <1>3, <1>6, <2>1, <2>2
  <2> QED  BY <2>1, <2>2, <2>4, <2>5
<1> HIDE DEF kept
<1>12. (flow').blocks[b].ranges = << <<b, m>> >>
  BY <1>2, <1>11 DEF NewBlock
<1>13. flow.blocks[next].ranges = << <<next, last>> >>
  BY <1>8, <1>10
<1>14. <<b, b>> \in flow.edges => <<next, b>> \in flow.edges
  <2>1. /\ \A s : <<b, s>> \in flow.edges <=> s \in GoesTo(prog, last)
        /\ \A s : <<next, s>> \in flow.edges <=> s \in GoesTo(prog, last)
    BY <1>2, <1>3, <1>4, <1>10, BlockFacts DEF last, end
  <2> QED  BY <2>1
<1>15. \A x, s : <<x, s>> \in (flow').edges <=>
                    IF x = b THEN s = next ELSE <<x, s>> \in flow.edges
  <2>1. \A x, s : <<x, s>> \in EdgesAvoiding(flow, b) <=>
                     <<x, s>> \in flow.edges /\ x # b /\ s # b
    BY DEF EdgesAvoiding
  <2>2. \A x, s : <<x, s>> \in IncomingKept(b, next) <=>
                     <<x, s>> \in flow.edges /\ s = b /\ x # b
    <3> TAKE x, s
    <3>1. <<x, s>> \in IncomingKept(b, next) <=>
             <<x, s>> \in flow.edges /\ s = b /\ ~(x = b /\ <<next, b>> \in flow.edges)
      BY DEF IncomingKept
    <3> QED  BY <1>14, <3>1
  <2> TAKE x, s
  <2>3. <<x, s>> \in (flow').edges <=>
           \/ <<x, s>> \in EdgesAvoiding(flow, b)
           \/ <<x, s>> \in IncomingKept(b, next)
           \/ x = b /\ s = next
    BY <1>2
  <2> QED  BY <2>1, <2>2, <2>3
<1>16. Fits(prog, flow') /\ Covered(prog, flow') = Covered(prog, flow)
  <2> DEFINE g == flow'
  <2>1. /\ IsFlow(g) /\ Starts(g) = Starts(flow) /\ g.blocks[b].ranges = << <<b, m>> >>
        /\ \A x \in Starts(flow) \ {b} : g.blocks[x].ranges = flow.blocks[x].ranges
        /\ g.preExit = flow.preExit \ {b}
    BY <1>2, <1>12
  <2>2. \A x, s : <<x, s>> \in g.edges <=>
                     IF x = b THEN s = next ELSE <<x, s>> \in flow.edges
    BY <1>15
  <2>3. b # next /\ m \in InsnsIn(prog, <<b, last>>) /\ m # last /\ Following(prog, m) = next
    BY <1>9, <1>11
  <2> HIDE DEF g, run
  <2>4. Fits(prog, g) /\ Covered(prog, g) = Covered(prog, flow)
    BY <1>2, <1>3, <1>4, <1>13, <2>1, <2>2, <2>3, TrimFits
  <2> QED  BY <2>4 DEF g
<1>17. TrimmedInOrder'
  <2>1. \A x \in todo' : Traversed(x)'
    <3> TAKE x \in todo'
    <3>1. x \in Starts(flow) \ {b} /\ Traversed(x)
      BY <1>1, <1>2 DEF BlocksShowInstructions, TrimmedInOrder, Inv, PiecesExist, TodoPresent
    <3> QED  BY <1>2, <3>1 DEF Traversed
  <2>2. \A x \in todo' : \A c \in Starts(flow') : x < c => c \in todo'
    BY <1>1, <1>2, TodoOrder DEF b
  <2>3. ASSUME NEW x \in Starts(flow) \ todo'
        PROVE  /\ Len((flow').blocks[x].ranges) = 1
               /\ \A c \in Starts(flow) : ~(x < c /\ c <= LastAddr((flow').blocks[x]))
    <3>1. CASE x = b
      <4>1. Len((flow').blocks[b].ranges) = 1 /\ LastAddr((flow').blocks[b]) = m
        BY <1>12 DEF LastAddr
      <4>2. \A c \in Starts(flow) : ~(b < c /\ c <= m)
        <5> TAKE c \in Starts(flow)
        <5>1. c \in Nat /\ (b < c => next <= c)
          BY <1>2, <1>4
        <5> QED  BY <1>6, <1>11, <5>1
      <4> QED  BY <3>1, <4>1, <4>2
    <3>2. CASE x # b
      <4>1. x \in Starts(flow) \ todo /\ (flow').blocks[x] = flow.blocks[x]
        BY <1>2, <2>3, <3>2
      <4> QED  BY <1>1, <4>1, TodoOrder
    <3> QED  BY <3>1, <3>2
  <2> QED  BY <1>1, <1>2, <2>1, <2>2, <2>3 DEF TrimmedInOrder
<1>18. BlocksFit' /\ RangesDisjoint' /\ MergesFollowJumps'
  BY <1>1, <1>2, <1>16 DEF Fits, BlocksFit, RangesDisjoint, MergesFollowJumps
<1>19. CoverageGrows' /\ CoversReachableCode'
  BY <1>1, <1>2, <1>16 DEF BlocksShowInstructions, CoverageGrows, LedTo, CoversReachableCode, Traced,
                           Queued
<1> QED  BY <1>17, <1>18, <1>19 DEF BlocksShowInstructions

\* When every block has been looked at, none starts in another.
LEMMA FinishOverlapsShape ==
    Inv /\ BlocksShowInstructions /\ FinishOverlaps => BlocksShowInstructions'
<1> SUFFICES ASSUME Inv, BlocksShowInstructions, FinishOverlaps PROVE BlocksShowInstructions'
  OBVIOUS
<1>1. /\ pass = "overlaps" /\ todo = {} /\ pass' = "merge" /\ merges' = JumpMerges(flow)
      /\ UNCHANGED <<prog, queue, flow>>
  BY DEF FinishOverlaps
<1>2. prog \in Programs /\ IsFlow(flow) /\ Fits(prog, flow)
  BY <1>1, RunningFits DEF BlocksShowInstructions, Running, Fits
<1>3. BlocksFit' /\ TrimmedInOrder'
  BY <1>1 DEF BlocksShowInstructions, BlocksFit, TrimmedInOrder
<1>4. Disjoint(flow)
  <2>1. ASSUME NEW b \in Starts(flow), NEW c \in Starts(flow), b < c,
               NEW i \in DOMAIN flow.blocks[b].ranges, NEW j \in DOMAIN flow.blocks[c].ranges
        PROVE  flow.blocks[b].ranges[i][2] < flow.blocks[c].ranges[j][1]
    <3>1. /\ Len(flow.blocks[b].ranges) = 1 /\ Len(flow.blocks[c].ranges) = 1
          /\ ~(c <= LastAddr(flow.blocks[b]))
      BY <1>1, <2>1 DEF BlocksShowInstructions, TrimmedInOrder
    <3>2. /\ i = 1 /\ flow.blocks[b].ranges[1][2] = LastAddr(flow.blocks[b])
          /\ LastAddr(flow.blocks[b]) \in Nat
      BY <1>2, <3>1, BlockFacts, ProgramFacts
    <3>3. j = 1 /\ flow.blocks[c].ranges[1][1] = c /\ c \in Nat
      BY <1>2, <3>1, BlockFacts, ProgramFacts
    <3> QED  BY <3>1, <3>2, <3>3
  <2>2. ASSUME NEW b \in Starts(flow), NEW i \in DOMAIN flow.blocks[b].ranges PROVE i = 1
    <3>1. Len(flow.blocks[b].ranges) = 1
      BY <1>1 DEF BlocksShowInstructions, TrimmedInOrder
    <3> QED  BY <1>2, <3>1, BlockFacts
  <2> SUFFICES ASSUME NEW b \in Starts(flow), NEW c \in Starts(flow),
                      NEW i \in DOMAIN flow.blocks[b].ranges,
                      NEW j \in DOMAIN flow.blocks[c].ranges
               PROVE  \/ b = c /\ i = j
                      \/ flow.blocks[b].ranges[i][2] < flow.blocks[c].ranges[j][1]
                      \/ flow.blocks[c].ranges[j][2] < flow.blocks[b].ranges[i][1]
    BY DEF Disjoint
  <2>3. b \in Nat /\ c \in Nat
    BY <1>2, FlowFields
  <2>4. b = c \/ b < c \/ c < b
    BY <2>3
  <2> QED  BY <2>1, <2>2, <2>4
<1>5. RangesDisjoint'
  BY <1>1, <1>4 DEF RangesDisjoint
<1>6. MergesFollowJumps'
  <2>1. \A m \in JumpMerges(flow) : \A a \in Predecessors(flow, m[2]) :
           prog.insn[LastAddr(flow.blocks[a])].kind = "jump"
    BY DEF JumpMerges
  <2> QED  BY <1>1, <2>1 DEF MergesFollowJumps
<1>7. CoverageGrows' /\ CoversReachableCode'
  BY <1>1 DEF BlocksShowInstructions, CoverageGrows, LedTo, CoversReachableCode, Traced, Queued
<1> QED  BY <1>3, <1>5, <1>6, <1>7 DEF BlocksShowInstructions
-----------------------------------------------------------------------------
(* Second part: the theorems.                                              *)

\* A step that changes nothing keeps the shape.
LEMMA StutterShape == BlocksShowInstructions /\ UNCHANGED vars => BlocksShowInstructions'
<1> SUFFICES ASSUME BlocksShowInstructions, UNCHANGED vars PROVE BlocksShowInstructions'
  OBVIOUS
<1>1. UNCHANGED <<prog, pass, queue, visited, flow, todo, merges, pending, current>>
  BY DEF vars
<1>2. BlocksFit' /\ TrimmedInOrder' /\ RangesDisjoint'
  BY <1>1 DEF BlocksShowInstructions, BlocksFit, TrimmedInOrder, Traversed, RangesDisjoint
<1>3. CoverageGrows' /\ CoversReachableCode' /\ MergesFollowJumps'
  BY <1>1 DEF BlocksShowInstructions, CoverageGrows, LedTo, CoversReachableCode, Traced,
              MergesFollowJumps, Queued
<1> QED  BY <1>2, <1>3 DEF BlocksShowInstructions

\* Every step of the generator keeps the shape.
LEMMA StepShape == Inv /\ BlocksShowInstructions /\ [Next]_vars => BlocksShowInstructions'
<1> SUFFICES ASSUME Inv, BlocksShowInstructions, [Next]_vars PROVE BlocksShowInstructions'
  OBVIOUS
<1>1. CASE SkipCandidate   BY <1>1, SkipCandidateShape
<1>2. CASE TraceBlock      BY <1>2, TraceBlockShape
<1>3. CASE FinishWorklist  BY <1>3, FinishWorklistShape
<1>4. CASE KeepBlock       BY <1>4, KeepBlockShape
<1>5. CASE TrimOverlap     BY <1>5, TrimOverlapShape
<1>6. CASE FinishOverlaps  BY <1>6, FinishOverlapsShape
<1>7. CASE MergeBlock      BY <1>7, MergeBlockShape
<1>8. CASE FinishMerge     BY <1>8, FinishMergeShape
<1>9. CASE StartBlock      BY <1>9, StartBlockShape
<1>10. CASE SplitAtCall    BY <1>10, SplitAtCallShape
<1>11. CASE FinishCalls    BY <1>11, FinishCallsShape
<1>12. CASE Symbolize      BY <1>12, SymbolizeShape
<1>13. CASE Terminated     BY <1>13, StutterShape DEF Terminated
<1>14. CASE UNCHANGED vars BY <1>14, StutterShape
<1> QED  BY <1>1, <1>2, <1>3, <1>4, <1>5, <1>6, <1>7, <1>8, <1>9, <1>10, <1>11, <1>12,
            <1>13, <1>14 DEF Next

\* The two parts of the invariant together.
LEMMA BlocksAlwaysShowInstructions == Spec => [](Inv /\ BlocksShowInstructions)
BY InitInv, InitShape, StepInv, StepShape, PTL DEF Spec

\* In every run of the generator, on every section that is well formed, no pass adds, drops
\* or redirects a transfer of control: whatever has been traced, trimmed, merged or split,
\* the flow shows exactly the transfers of the instructions it covers.
THEOREM ControlFlowIsPreserved == Spec => []ControlFlowPreserved
<1>1. Inv /\ BlocksShowInstructions => ControlFlowPreserved
  <2> SUFFICES ASSUME Inv, BlocksShowInstructions, Running
               PROVE  Arrows(prog, flow) = ProgramArrows(prog, Covered(prog, flow))
    BY DEF ControlFlowPreserved
  <2>1. prog \in Programs /\ Fits(prog, flow)
    BY RunningFits DEF BlocksShowInstructions
  <2> QED  BY <2>1, FittingArrows
<1> QED  BY <1>1, BlocksAlwaysShowInstructions, PTL

\* Once the worklist is empty, the blocks cover the instructions that can be reached from
\* the function entry and no other, and no later pass loses one or takes one in.
THEOREM ReachableCodeIsCovered == Spec => []CoversReachableCode
<1>1. Inv /\ BlocksShowInstructions => CoversReachableCode
  BY DEF BlocksShowInstructions
<1> QED  BY <1>1, BlocksAlwaysShowInstructions, PTL

\* Behind fixOverlaps no instruction is in two blocks, or twice in one.
THEOREM BlocksNeverOverlap == Spec => []NoOverlap
<1>1. Inv /\ BlocksShowInstructions => NoOverlap
  <2> SUFFICES ASSUME Inv, BlocksShowInstructions,
                      pass \in {"merge", "calls", "symbolize", "done"},
                      NEW b \in Starts(flow), NEW c \in Starts(flow),
                      NEW i \in DOMAIN flow.blocks[b].ranges,
                      NEW j \in DOMAIN flow.blocks[c].ranges, ~(b = c /\ i = j),
                      NEW a \in InsnsIn(prog, flow.blocks[b].ranges[i]),
                      a \in InsnsIn(prog, flow.blocks[c].ranges[j])
               PROVE  FALSE
    BY DEF NoOverlap
  <2>1. /\ flow.blocks[b].ranges \in Seq(AddrRange) /\ flow.blocks[c].ranges \in Seq(AddrRange)
    BY FlowFields DEF Inv, PiecesExist, TypeOK, Block
  <2>2. /\ flow.blocks[b].ranges[i] \in AddrRange /\ flow.blocks[c].ranges[j] \in AddrRange
    BY <2>1
  <2>3. \/ flow.blocks[b].ranges[i][2] < flow.blocks[c].ranges[j][1]
        \/ flow.blocks[c].ranges[j][2] < flow.blocks[b].ranges[i][1]
    BY DEF BlocksShowInstructions, RangesDisjoint, Disjoint
  <2>4. a \in Nat
    BY ProgramFacts DEF Inv, InsnsIn
  <2> QED  BY <2>2, <2>3, <2>4 DEF InsnsIn, AddrRange
<1> QED  BY <1>1, BlocksAlwaysShowInstructions, PTL

\* The exit markers are on the blocks that end with a return and on no other, from the end
\* of the worklist on, whatever is trimmed, merged or split.
THEOREM ExitsAreMarked == Spec => []ExitsMarked
<1>1. Inv /\ BlocksShowInstructions => ExitsMarked
  <2> SUFFICES ASSUME Inv, BlocksShowInstructions, Traced PROVE ExitsMarked
    BY DEF ExitsMarked
  <2>1. flow.preExit \subseteq Starts(flow)
    BY DEF Inv, PiecesExist, NoDanglingEdges
  <2>2. \A b \in Starts(flow) :
           b \in flow.preExit <=> prog.insn[LastAddr(flow.blocks[b])].kind = "ret"
    BY DEF BlocksShowInstructions, BlocksFit, BlockFits
  <2> QED  BY <2>1, <2>2 DEF ExitsMarked
<1> QED  BY <1>1, BlocksAlwaysShowInstructions, PTL

-----------------------------------------------------------------------------
(* Third part: which block an instruction is in.                           *)

InBlock(p, f, b, a) == \E i \in DOMAIN f.blocks[b].ranges : a \in InsnsIn(p, f.blocks[b].ranges[i])

\* Every instruction that is covered is in a block; the first and the last of a block are.
LEMMA InBlockFacts ==
    ASSUME NEW p \in Programs, NEW f, Fits(p, f)
    PROVE  /\ \A a : a \in Covered(p, f) <=> \E b \in Starts(f) : InBlock(p, f, b, a)
           /\ \A b \in Starts(f) : InBlock(p, f, b, b) /\ InBlock(p, f, b, LastAddr(f.blocks[b]))
<1>1. \A a : a \in Covered(p, f) <=> \E b \in Starts(f) : InBlock(p, f, b, a)
  BY CoveredFacts DEF InBlock
<1>2. ASSUME NEW b \in Starts(f)
      PROVE  InBlock(p, f, b, b) /\ InBlock(p, f, b, LastAddr(f.blocks[b]))
  <2> DEFINE r == f.blocks[b].ranges
             n == Len(r)
  <2>1. /\ 1 \in DOMAIN r /\ n \in DOMAIN r /\ \A i \in DOMAIN r : Straight(p, r[i])
        /\ r[1][1] = b /\ LastAddr(f.blocks[b]) = r[n][2]
    BY BlockFacts
  <2>2. Straight(p, r[1]) /\ Straight(p, r[n])
    BY <2>1
  <2> HIDE DEF r, n
  <2>3. r[1][1] \in InsnsIn(p, r[1])
    BY <2>2, ProgramFacts DEF Straight, InsnsIn
  <2>4. r[n][2] \in InsnsIn(p, r[n])
    BY <2>2, ProgramFacts DEF Straight, InsnsIn
  <2> QED  BY <2>1, <2>3, <2>4 DEF InBlock, r
<1> QED  BY <1>1, <1>2

\* In a flow whose ranges do not meet, an instruction is in one range of one block.
LEMMA OneBlock ==
    ASSUME NEW p \in Programs, NEW f, Fits(p, f), Disjoint(f),
           NEW b \in Starts(f), NEW i \in DOMAIN f.blocks[b].ranges,
           NEW c \in Starts(f), NEW j \in DOMAIN f.blocks[c].ranges,
           NEW a \in InsnsIn(p, f.blocks[b].ranges[i]), a \in InsnsIn(p, f.blocks[c].ranges[j])
    PROVE  b = c /\ i = j
<1>1. f.blocks[b].ranges \in Seq(AddrRange) /\ f.blocks[c].ranges \in Seq(AddrRange)
  BY BlockFacts
<1>2. f.blocks[b].ranges[i] \in AddrRange /\ f.blocks[c].ranges[j] \in AddrRange
  BY <1>1
<1>3. a \in Nat
  BY ProgramFacts DEF InsnsIn
<1>4. \/ b = c /\ i = j
      \/ f.blocks[b].ranges[i][2] < f.blocks[c].ranges[j][1]
      \/ f.blocks[c].ranges[j][2] < f.blocks[b].ranges[i][1]
  BY DEF Disjoint
<1> QED  BY <1>2, <1>3, <1>4 DEF InsnsIn, AddrRange

\* The same, without the ranges.
LEMMA InOneBlock ==
    ASSUME NEW p \in Programs, NEW f, Fits(p, f), Disjoint(f),
           NEW b \in Starts(f), NEW c \in Starts(f), NEW a, InBlock(p, f, b, a), InBlock(p, f, c, a)
    PROVE  b = c
<1>1. PICK i \in DOMAIN f.blocks[b].ranges : a \in InsnsIn(p, f.blocks[b].ranges[i])
  BY DEF InBlock
<1>2. PICK j \in DOMAIN f.blocks[c].ranges : a \in InsnsIn(p, f.blocks[c].ranges[j])
  BY DEF InBlock
<1> QED  BY <1>1, <1>2, OneBlock

\* Control stays in a block, behind its start, or leaves it from its last instruction along
\* an edge.
LEMMA BlockStep ==
    ASSUME NEW p \in Programs, NEW f, Fits(p, f), Disjoint(f),
           NEW b \in Starts(f), NEW a, InBlock(p, f, b, a), NEW s \in GoesTo(p, a)
    PROVE  \/ a = LastAddr(f.blocks[b]) /\ <<b, s>> \in f.edges
           \/ InBlock(p, f, b, s) /\ s # b
<1> DEFINE r == f.blocks[b].ranges
           n == Len(r)
<1>1. PICK i \in DOMAIN r : a \in InsnsIn(p, r[i])
  BY DEF InBlock
<1>2. /\ r \in Seq(AddrRange) /\ n \in DOMAIN r /\ 1 \in DOMAIN r /\ DOMAIN r = 1 .. n /\ n \in Nat
      /\ \A j \in DOMAIN r : Straight(p, r[j])
      /\ r[1][1] = b /\ LastAddr(f.blocks[b]) = r[n][2]
      /\ \A x : <<b, x>> \in f.edges <=> x \in GoesTo(p, LastAddr(f.blocks[b]))
  BY BlockFacts
<1>3. Joined(p, r)
  BY DEF Fits, BlockFits
<1>4. Straight(p, r[i]) /\ Straight(p, r[1]) /\ b \in Addresses(p) /\ b \in Nat
  <2>1. Straight(p, r[i]) /\ Straight(p, r[1])
    BY <1>2
  <2>2. b \in Addresses(p)
    BY <1>2, <2>1 DEF Straight
  <2> QED  BY <2>1, <2>2, ProgramFacts
<1>5. b \in InsnsIn(p, r[1])
  BY <1>2, <1>4, ProgramFacts DEF Straight, InsnsIn
<1>6. \A j \in DOMAIN r : b \in InsnsIn(p, r[j]) => j = 1
  BY <1>2, <1>5, OneBlock
<1>7. CASE a # r[i][2]
  <2>1. /\ a \in Nat /\ Following(p, a) \in InsnsIn(p, r[i]) /\ a < Following(p, a)
        /\ GoesTo(p, a) = {Following(p, a)}
    BY <1>1, <1>4, <1>7, StraightStep
  <2>2. s \in InsnsIn(p, r[i]) /\ a < s
    BY <2>1
  <2>3. s # b
    <3>1. SUFFICES ASSUME s = b PROVE FALSE
      OBVIOUS
    <3>2. i = 1
      BY <1>6, <2>2, <3>1
    <3>3. b <= a
      BY <1>1, <1>2, <3>2 DEF InsnsIn
    <3> QED  BY <1>4, <2>1, <2>2, <3>1, <3>3
  <2> QED  BY <2>2, <2>3 DEF InBlock
<1>8. CASE a = r[i][2] /\ i = n
  BY <1>2, <1>8
<1>9. CASE a = r[i][2] /\ i # n
  <2>1. i + 1 \in DOMAIN r /\ i + 1 # 1
    BY <1>2, <1>9
  <2>2. p.insn[a].kind = "jump" /\ p.insn[a].target = r[i + 1][1]
    BY <1>3, <1>9, <2>1 DEF Joined
  <2>3. GoesTo(p, a) = {p.insn[a].target}
    <3>1. Targets(p, a) = <<p.insn[a].target>> /\ GoesTo(p, a) = TargetSet(p, a)
      BY <2>2 DEF Targets, GoesTo, EndsBlock
    <3> QED  BY <3>1 DEF TargetSet
  <2>4. Straight(p, r[i + 1])
    BY <1>2, <2>1
  <2>5. s \in InsnsIn(p, r[i + 1])
    BY <2>2, <2>3, <2>4, ProgramFacts DEF Straight, InsnsIn
  <2>6. s # b
    BY <1>6, <2>1, <2>5
  <2> QED  BY <2>1, <2>5, <2>6 DEF InBlock
<1> QED  BY <1>7, <1>8, <1>9
-----------------------------------------------------------------------------
(* Calls.                                                                  *)

\* The first two parts of the inductive invariant.
Shaped == Inv /\ BlocksShowInstructions

\* Some of the calls in S are in a block if one of its ranges meets S.
LEMMA CallsInBlock ==
    ASSUME NEW p, NEW f, NEW b, NEW S \in SUBSET Addresses(p)
    PROVE  /\ \A i \in DOMAIN f.blocks[b].ranges :
                 InRange(S, f.blocks[b].ranges[i]) = S \cap InsnsIn(p, f.blocks[b].ranges[i])
           /\ HasOneOf(S, f.blocks[b]) <=> \E c \in S : InBlock(p, f, b, c)
BY DEF InRange, InsnsIn, HasOneOf, InBlock

\* What is known of the calls while they are looked at.
LEMMA CallFacts ==
    ASSUME Shaped
    PROVE  /\ prog \in Programs /\ IsFlow(flow)
           /\ flow.callLocs \in SUBSET Addresses(prog) /\ pending \in SUBSET flow.callLocs
           /\ pending \in SUBSET Addresses(prog) /\ Handled \in SUBSET Addresses(prog)
           /\ \A b \in Starts(flow) :
                 CallRanges(b) # {} <=> \E c \in pending : InBlock(prog, flow, b, c)
           /\ \A b \in current : b \in Starts(flow)
           /\ current # {} => pass \in {"calls", "aborted"}
           /\ pass \in {"merge", "calls", "symbolize", "done"} =>
                 Fits(prog, flow) /\ Disjoint(flow)
<1>1. /\ prog \in Programs /\ IsFlow(flow)
      /\ flow.callLocs \in SUBSET Addresses(prog) /\ pending \in SUBSET flow.callLocs
      /\ current # {} => pass \in {"calls", "aborted"}
      /\ \A b \in current : b \in Starts(flow)
  BY DEF Shaped, Inv, PiecesExist, TypeOK, CallsDecoded, CurrentHasCall
<1>2. pending \in SUBSET Addresses(prog) /\ Handled \in SUBSET Addresses(prog)
  BY <1>1 DEF Handled
<1>3. ASSUME NEW b \in Starts(flow)
      PROVE  CallRanges(b) # {} <=> \E c \in pending : InBlock(prog, flow, b, c)
  <2>1. CallRanges(b) # {} <=> HasOneOf(pending, flow.blocks[b])
    BY DEF CallRanges, HasOneOf
  <2> QED  BY <1>2, <2>1, CallsInBlock
<1>4. pass \in {"merge", "calls", "symbolize", "done"} => Fits(prog, flow) /\ Disjoint(flow)
  BY RunningFits DEF Shaped, BlocksShowInstructions, RangesDisjoint, Running
<1> QED  BY <1>1, <1>2, <1>3, <1>4

\* Once tracing is over the flow covers the same instructions in every state, so the calls
\* that are known stay those that are covered.
LEMMA LaterCallsKnown ==
    ASSUME Shaped, Shaped', CallsKnown, Traced, Traced', UNCHANGED prog,
           (flow').callLocs = flow.callLocs
    PROVE  CallsKnown'
<1>1. Covered(prog, flow) = Reachable(prog) /\ Covered(prog', flow') = Reachable(prog')
  BY DEF Shaped, BlocksShowInstructions, CoversReachableCode
<1> QED  BY <1>1 DEF CallsKnown

\* At the start there are no blocks and no calls.
LEMMA InitCalls == Init => CallsEndBlocks
<1> SUFFICES ASSUME Init PROVE CallsEndBlocks
  OBVIOUS
<1>1. /\ pass = "trace" /\ Starts(flow) = {} /\ flow.callLocs = {}
  BY DEF Init, EmptyFlow, Starts
<1>2. Covered(prog, flow) = {}
  BY <1>1 DEF Covered
<1> QED  BY <1>1, <1>2 DEF CallsEndBlocks, CallsUntouched, CallsTracked, CallsKnown, OneCallPerBlock

\* When the process dies, the calls are as they were.
LEMMA AbortCalls == CallsEndBlocks /\ Abort /\ pass # "done" => CallsEndBlocks'
BY DEF Abort, CallsEndBlocks, CallsUntouched, CallsTracked, CallsKnown, OneCallPerBlock

\* What happens to the worklist does not matter, nor to the selected merges.
LEMMA SameCalls ==
    ASSUME CallsEndBlocks, pass \in {"trace", "overlaps", "merge"},
           pass' \in {"trace", "overlaps", "merge"}, UNCHANGED <<prog, flow>>
    PROVE  CallsEndBlocks'
BY DEF CallsEndBlocks, CallsUntouched, CallsTracked, CallsKnown, OneCallPerBlock

\* A new block comes with its calls.
LEMMA TraceBlockCalls == Shaped /\ CallsEndBlocks /\ TraceBlock => CallsEndBlocks'
<1> SUFFICES ASSUME Shaped, CallsEndBlocks, TraceBlock PROVE CallsEndBlocks'
  OBVIOUS
<1> DEFINE start == Head(queue)
           last  == Min(BlockEnds(prog, start))
           run   == InsnsIn(prog, <<start, last>>)
<1>1. /\ pass = "trace" /\ pass' = "trace" /\ UNCHANGED prog
      /\ Starts(flow') = Starts(flow) \cup {start}
      /\ (flow').callLocs = flow.callLocs \cup CallsIn(prog, start, last)
      /\ (flow').blocks[start] = NewBlock(<< <<start, last>> >>, "NORMAL")
      /\ \A b \in Starts(flow) : (flow').blocks[b] = flow.blocks[b]
  BY TraceBlockStep DEF Shaped
<1>2. Covered(prog, flow') = Covered(prog, flow) \cup run
  BY TraceBlockFits DEF Shaped
<1>3. CallsIn(prog, start, last) = {a \in run : prog.insn[a].kind = "call"}
  BY DEF CallsIn, InsnsIn
<1> HIDE DEF start, last, run
<1>4. CallsKnown'
  BY <1>1, <1>2, <1>3 DEF CallsEndBlocks, CallsKnown
<1>5. (flow').blocks[start].type = "NORMAL" /\ (flow').blocks[start].callees = {}
  BY <1>1 DEF NewBlock
<1>6. CallsUntouched'
  BY <1>1, <1>5 DEF CallsEndBlocks, CallsUntouched
<1> QED  BY <1>1, <1>4, <1>6 DEF CallsEndBlocks, CallsTracked, OneCallPerBlock

\* A block that is trimmed is new, too.
LEMMA TrimOverlapCalls ==
    Shaped /\ Shaped' /\ CallsEndBlocks /\ TrimOverlap => CallsEndBlocks'
<1> SUFFICES ASSUME Shaped, Shaped', CallsEndBlocks, TrimOverlap, ~Abort PROVE CallsEndBlocks'
  BY AbortCalls DEF TrimOverlap
<1> DEFINE b    == Min(todo)
           next == StartAfter(b)
           last == next - prog.insn[Max({a \in Addresses(prog) : a < next})].size
<1>1. /\ pass = "overlaps" /\ UNCHANGED <<prog, pass>>
      /\ Starts(flow') = Starts(flow) /\ (flow').callLocs = flow.callLocs
      /\ (flow').blocks[b] = NewBlock(<< <<b, last>> >>, "NORMAL")
      /\ \A x \in Starts(flow) \ {b} : (flow').blocks[x] = flow.blocks[x]
  BY TrimOverlapStep DEF Shaped
<1> HIDE DEF b, last
<1>2. CallsKnown'
  BY <1>1, LaterCallsKnown DEF CallsEndBlocks, Traced
<1>3. (flow').blocks[b].type = "NORMAL" /\ (flow').blocks[b].callees = {}
  BY <1>1 DEF NewBlock
<1>4. CallsUntouched'
  BY <1>1, <1>3 DEF CallsEndBlocks, CallsUntouched
<1> QED  BY <1>1, <1>2, <1>4 DEF CallsEndBlocks, CallsTracked, OneCallPerBlock

\* A block that takes in another one has its own type and callees.
LEMMA MergeBlockCalls ==
    Shaped /\ Shaped' /\ CallsEndBlocks /\ MergeBlock => CallsEndBlocks'
<1> SUFFICES ASSUME Shaped, Shaped', CallsEndBlocks, MergeBlock, ~Abort PROVE CallsEndBlocks'
  BY AbortCalls DEF MergeBlock
<1>1. PICK m \in merges : \E A \in Starts(flow) :
        /\ pass = "merge" /\ UNCHANGED <<prog, pass>>
        /\ A # m[2] /\ Starts(flow') = Starts(flow) \ {m[2]}
        /\ (flow').callLocs = flow.callLocs
        /\ (flow').blocks[A] = [flow.blocks[A] EXCEPT !.ranges = @ \o flow.blocks[m[2]].ranges]
        /\ \A x \in Starts(flow') \ {A} : (flow').blocks[x] = flow.blocks[x]
  BY MergeBlockStep DEF Shaped
<1>2. PICK A \in Starts(flow) :
        /\ pass = "merge" /\ UNCHANGED <<prog, pass>>
        /\ A # m[2] /\ Starts(flow') = Starts(flow) \ {m[2]}
        /\ (flow').callLocs = flow.callLocs
        /\ (flow').blocks[A] = [flow.blocks[A] EXCEPT !.ranges = @ \o flow.blocks[m[2]].ranges]
        /\ \A x \in Starts(flow') \ {A} : (flow').blocks[x] = flow.blocks[x]
  BY <1>1
<1>3. CallsKnown'
  BY <1>2, LaterCallsKnown DEF CallsEndBlocks, Traced
<1>4. flow.blocks[A] \in Block
  BY CallFacts, FlowFields
<1>5. /\ (flow').blocks[A].type = flow.blocks[A].type
      /\ (flow').blocks[A].callees = flow.blocks[A].callees
  BY <1>2, <1>4 DEF Block
<1>6. CallsUntouched'
  BY <1>2, <1>5 DEF CallsEndBlocks, CallsUntouched
<1> QED  BY <1>2, <1>3, <1>6 DEF CallsEndBlocks, CallsTracked, OneCallPerBlock

\* When the calls are about to be looked at, none is handled, and a block with a call
\* is among those to look at.
LEMMA FinishMergeCalls ==
    Shaped /\ Shaped' /\ CallsEndBlocks /\ FinishMerge => CallsEndBlocks'
<1> SUFFICES ASSUME Shaped, Shaped', CallsEndBlocks, FinishMerge PROVE CallsEndBlocks'
  OBVIOUS
<1>1. /\ pass = "merge" /\ pass' = IF flow.callLocs = {} THEN "symbolize" ELSE "calls"
      /\ todo' = IF flow.callLocs = {} THEN {} ELSE Starts(flow)
      /\ pending' = flow.callLocs /\ UNCHANGED <<prog, flow, current>>
  BY DEF FinishMerge
<1>2. current = {}
  BY <1>1, CallFacts
<1>3. CallsKnown'
  BY <1>1, LaterCallsKnown DEF CallsEndBlocks, Traced
<1>4. CallsUntouched'
  BY <1>1 DEF CallsEndBlocks, CallsUntouched
<1>5. Handled' = {} /\ \A b \in Starts(flow) : flow.blocks[b].type = "NORMAL"
  BY <1>1 DEF CallsEndBlocks, CallsUntouched, Handled
<1>6. CallsTracked'
  <2>1. ASSUME NEW b \in Starts(flow), (CallRanges(b) # {})' PROVE b \in todo'
    <3>1. flow.callLocs # {}
      BY <1>1, <2>1 DEF CallRanges, InRange
    <3> QED  BY <1>1, <3>1
  <2>2. pass' # "calls" => pending' = {} /\ current' = {}
    BY <1>1, <1>2
  <2>3. ASSUME NEW b \in Starts(flow) PROVE (flow').blocks[b].type # "CALL"
    BY <1>1, <1>5
  <2> QED  BY <1>1, <1>2, <1>5, <2>1, <2>2, <2>3 DEF CallsTracked
<1> QED  BY <1>1, <1>3, <1>4, <1>6 DEF CallsEndBlocks, OneCallPerBlock
\* A block that is taken for its calls gets type CALL if it has one.
LEMMA StartBlockCalls ==
    Shaped /\ Shaped' /\ CallsEndBlocks /\ StartBlock => CallsEndBlocks'
<1> SUFFICES ASSUME Shaped, Shaped', CallsEndBlocks, StartBlock PROVE CallsEndBlocks'
  OBVIOUS
<1>1. PICK b \in todo :
        /\ pass = "calls" /\ current = {} /\ b \in Starts(flow) /\ todo' = todo \ {b}
        /\ Starts(flow') = Starts(flow)
        /\ \A x \in Starts(flow) : (flow').blocks[x].ranges = flow.blocks[x].ranges
        /\ \A x \in Starts(flow) : (flow').blocks[x].callees = flow.blocks[x].callees
        /\ \A x \in Starts(flow) : (flow').blocks[x].type =
              IF x = b /\ CallRanges(b) # {} THEN "CALL" ELSE flow.blocks[x].type
        /\ (flow').callLocs = flow.callLocs
        /\ current' = IF CallRanges(b) = {} THEN {} ELSE {b}
        /\ UNCHANGED <<prog, pass, pending>>
  BY StartBlockStep DEF Shaped
<1>2. CallsKnown'
  BY <1>1, LaterCallsKnown DEF CallsEndBlocks, Traced
<1>3. CallsUntouched'
  BY <1>1 DEF CallsEndBlocks, CallsUntouched
<1>4. /\ Handled' = Handled
      /\ \A x \in Starts(flow) : LastAddr((flow').blocks[x]) = LastAddr(flow.blocks[x])
      /\ \A x \in Starts(flow) : CallRanges(x)' = CallRanges(x)
  BY <1>1 DEF Handled, LastAddr, CallRanges
<1>5. /\ \A x \in Starts(flow) :
            /\ flow.blocks[x].type = "CALL" <=> LastAddr(flow.blocks[x]) \in Handled
            /\ CallRanges(x) # {} => x \in todo
      /\ \A a \in Handled : \E x \in Starts(flow) : LastAddr(flow.blocks[x]) = a
  BY <1>1 DEF CallsEndBlocks, CallsTracked
<1>6. CallsTracked'
  <2>1. ASSUME NEW x \in Starts(flow)
        PROVE  /\ (flow').blocks[x].type = "CALL" <=>
                     x \in current' \/ LastAddr((flow').blocks[x]) \in Handled'
               /\ (CallRanges(x))' # {} => x \in todo' \cup current'
    <3>1. CASE x = b
      BY <1>1, <1>4, <1>5, <3>1
    <3>2. CASE x # b
      BY <1>1, <1>4, <1>5, <3>2
    <3> QED  BY <3>1, <3>2
  <2>2. \A a \in Handled' : \E x \in Starts(flow) : LastAddr((flow').blocks[x]) = a
    BY <1>4, <1>5
  <2> QED  BY <1>1, <2>1, <2>2 DEF CallsTracked
<1> QED  BY <1>1, <1>2, <1>3, <1>6 DEF CallsEndBlocks, OneCallPerBlock

\* A call that was handled before and is in the block being looked at ends it.
LEMMA HandledEnds ==
    ASSUME Shaped, CallsTracked, pass \in {"calls", "symbolize", "done"},
           NEW b \in Starts(flow), NEW c \in Handled, InBlock(prog, flow, b, c)
    PROVE  c = LastAddr(flow.blocks[b])
<1>1. prog \in Programs /\ Fits(prog, flow) /\ Disjoint(flow)
  BY CallFacts
<1>2. PICK x \in Starts(flow) : LastAddr(flow.blocks[x]) = c
  BY DEF CallsTracked
<1>3. InBlock(prog, flow, x, c)
  BY <1>1, <1>2, InBlockFacts
<1> QED  BY <1>1, <1>2, <1>3, InOneBlock

\* What is split off behind a call: the calls in it are handled.
LEMMA SplitOffCalls ==
    ASSUME Shaped, Shaped', CallsTracked, pass = "calls", UNCHANGED prog,
           NEW b \in current, (flow').callLocs = flow.callLocs,
           IsSplit(prog, flow, flow', b, NextRange(b), NextCall(b))
    PROVE  LET next == Following(prog, NextCall(b))
           IN  /\ \A x \in Starts(flow) \ {b} : \A a :
                     InBlock(prog, flow', x, a) <=> InBlock(prog, flow, x, a)
               /\ \A a : InBlock(prog, flow', b, a) => InBlock(prog, flow, b, a)
               /\ \A c \in flow.callLocs : InBlock(prog, flow', next, c) => c \in Handled
               /\ \A a : InBlock(prog, flow', next, a) => InBlock(prog, flow, b, a)
<1> DEFINE r    == flow.blocks[b].ranges
           i    == NextRange(b)
           call == NextCall(b)
           next == Following(prog, call)
           g    == flow'
           rear == g.blocks[next].ranges
<1>1. /\ prog \in Programs /\ Fits(prog, flow) /\ b \in Starts(flow) /\ next \notin Starts(flow)
      /\ \A x \in Starts(flow) \ {b} : g.blocks[x].ranges = flow.blocks[x].ranges
      /\ IsCut(prog, r, i, call, g.blocks[b].ranges, rear)
  BY CallFacts DEF IsSplit
<1>2. /\ i \in DOMAIN r /\ call \in Nat
      /\ \A c \in pending : r[i][1] <= c /\ c <= r[i][2] => c <= call
      /\ \A j \in DOMAIN r : j > i => InRange(pending, r[j]) = {}
  BY NextCallFacts DEF Shaped
<1> HIDE DEF i, call, g
<1>3. \A x \in Starts(flow) \ {b} : \A a : InBlock(prog, g, x, a) <=> InBlock(prog, flow, x, a)
  BY <1>1 DEF InBlock
<1>4. \A a : InBlock(prog, g, b, a) => InBlock(prog, flow, b, a)
  <2>1. \A j \in DOMAIN g.blocks[b].ranges :
           j \in DOMAIN r /\ InsnsIn(prog, g.blocks[b].ranges[j]) \subseteq InsnsIn(prog, r[j])
    BY <1>1, CutParts DEF Part
  <2> QED  BY <2>1 DEF InBlock
<1>5. ASSUME NEW a, InBlock(prog, g, next, a)
      PROVE  InBlock(prog, flow, b, a) /\ (a \in flow.callLocs => a \in Handled)
  <2>1. PICK j \in DOMAIN rear : a \in InsnsIn(prog, rear[j])
    BY <1>5 DEF InBlock
  <2> DEFINE h == (i + j) - 1
  <2>2. /\ j \in Nat \ {0} /\ h \in DOMAIN r /\ Part(prog, rear[j], r[h])
    BY <1>1, CutParts
  <2>3. a \in InsnsIn(prog, r[h])
    BY <2>1, <2>2 DEF Part
  <2>4. /\ DOMAIN r = 1 .. Len(r) /\ i \in Nat /\ call < next /\ next \in Nat
        /\ rear[1] = <<next, r[i][2]>>
    <3>1. /\ DOMAIN r = 1 .. Len(r) /\ Len(r) \in Nat /\ i \in 1 .. Len(r)
          /\ call < next /\ next \in Nat
      BY <1>1, CutFacts
    <3>2. rear[1] = <<next, r[i][2]>>
      BY <1>1, CutRanges
    <3> QED  BY <3>1, <3>2
  <2>5. SUFFICES ASSUME a \in pending PROVE FALSE
    BY <2>2, <2>3 DEF InBlock, Handled
  <2>6. CASE j = 1
    <3>1. h = i /\ a \in Nat
      BY <1>1, <2>1, <2>4, <2>6, ProgramFacts DEF InsnsIn
    <3>2. next <= a /\ r[i][1] <= a /\ a <= r[i][2]
      BY <2>1, <2>3, <2>4, <2>6, <3>1 DEF InsnsIn
    <3>3. a <= call
      BY <1>2, <2>5, <3>2
    <3> QED  BY <1>2, <2>4, <3>1, <3>2, <3>3
  <2>7. CASE j # 1
    <3>1. h > i
      BY <2>2, <2>4, <2>7
    <3>2. a \in InRange(pending, r[h])
      BY <2>3, <2>5 DEF InsnsIn, InRange
    <3> QED  BY <1>2, <2>2, <3>1, <3>2
  <2> QED  BY <2>6, <2>7
<1> QED  BY <1>3, <1>4, <1>5 DEF g, call, next

\* The type of the block that is split off says whether it ends with a call.
LEMMA SplitOffType ==
    ASSUME Shaped, Shaped', CallsTracked, pass = "calls", UNCHANGED <<prog, pass>>,
           NEW b \in current, (flow').callLocs = flow.callLocs,
           IsSplit(prog, flow, flow', b, NextRange(b), NextCall(b))
    PROVE  LET next == Following(prog, NextCall(b))
               range == flow.blocks[b].ranges[NextRange(b)]
           IN  /\ HasCalls(flow', next) <=> LastAddr(flow.blocks[b]) \in Handled
               /\ (\E c \in InRange(flow.callLocs, range) : ~(c <= NextCall(b)))
                     => LastAddr(flow.blocks[b]) \in Handled
<1> DEFINE r    == flow.blocks[b].ranges
           i    == NextRange(b)
           call == NextCall(b)
           next == Following(prog, call)
           g    == flow'
           rear == g.blocks[next].ranges
           end  == LastAddr(flow.blocks[b])
<1>1. /\ prog \in Programs /\ Fits(prog, flow) /\ Fits(prog, g) /\ b \in Starts(flow)
      /\ flow.callLocs \in SUBSET Addresses(prog) /\ next \in Starts(g)
  <2>1. Fits(prog, g)
    BY CallFacts, SplitFits
  <2> QED  BY <2>1, CallFacts DEF IsSplit
<1>2. LastAddr(g.blocks[next]) = end
  BY <1>1, SplitFits
<1>3. /\ \A c \in flow.callLocs : InBlock(prog, g, next, c) => c \in Handled
      /\ \A a : InBlock(prog, g, next, a) => InBlock(prog, flow, b, a)
  BY SplitOffCalls
<1>4. /\ i \in DOMAIN r
      /\ \A c \in pending : r[i][1] <= c /\ c <= r[i][2] => c <= call
  BY NextCallFacts DEF Shaped
<1>5. /\ Len(rear) \in DOMAIN rear /\ Straight(prog, rear[Len(rear)])
      /\ LastAddr(g.blocks[next]) = rear[Len(rear)][2]
  BY <1>1, BlockFacts
<1> HIDE DEF i, call, next, g
<1>6. HasCalls(g, next) <=> end \in Handled
  <2> DEFINE l == rear[Len(rear)]
  <2>1. HasCalls(g, next) <=> \E c \in g.callLocs : l[1] <= c /\ c <= l[2]
    BY DEF HasCalls
  <2>2. g.callLocs = flow.callLocs
    BY DEF g
  <2>3. ASSUME NEW c \in flow.callLocs, l[1] <= c, c <= l[2] PROVE end \in Handled
    <3>1. InBlock(prog, g, next, c)
      BY <1>1, <1>5, <2>3 DEF InBlock, InsnsIn
    <3>2. c = end
      BY <1>1, <1>3, <3>1, HandledEnds
    <3> QED  BY <1>3, <3>1, <3>2
  <2>4. ASSUME end \in Handled PROVE end \in flow.callLocs /\ l[1] <= end /\ end <= l[2]
    <3>1. l[1] \in Nat /\ l[2] \in Nat /\ l[1] <= l[2]
      BY <1>1, <1>5, ProgramFacts DEF Straight
    <3> QED  BY <1>2, <1>5, <2>4, <3>1 DEF Handled
  <2> HIDE DEF l, end
  <2> QED  BY <2>1, <2>2, <2>3, <2>4
<1>7. ASSUME NEW c \in InRange(flow.callLocs, r[i]), ~(c <= call)
      PROVE  end \in Handled
  <2>1. c \in Handled
    BY <1>4, <1>7 DEF InRange, Handled
  <2>2. InBlock(prog, flow, b, c)
    BY <1>1, <1>4, <1>7 DEF InRange, InBlock, InsnsIn
  <2>3. c = end
    BY <1>1, <2>1, <2>2, HandledEnds
  <2> QED  BY <2>1, <2>3
<1> QED  BY <1>6, <1>7 DEF g, i, call, next
\* A call that ends its block, or that its block is split behind, is handled.
LEMMA SplitAtCallCalls ==
    Shaped /\ Shaped' /\ CallsEndBlocks /\ SplitAtCall => CallsEndBlocks'
<1> SUFFICES ASSUME Shaped, Shaped', CallsEndBlocks, SplitAtCall, ~Abort PROVE CallsEndBlocks'
  BY AbortCalls DEF SplitAtCall
<1>1. PICK b \in current :
        LET r == flow.blocks[b].ranges
            call == NextCall(b)
            next == Following(prog, call)
            first == \A c \in InRange(flow.callLocs, r[NextRange(b)]) : c <= call
        IN  /\ pass = "calls" /\ b \in Starts(flow) /\ pending' = pending \ {call}
            /\ current' = IF HasOneOf(pending', (flow').blocks[b]) THEN {b} ELSE {}
            /\ UNCHANGED <<prog, pass>>
            /\ \/ call = LastAddr(flow.blocks[b]) /\ UNCHANGED <<flow, todo>>
               \/ /\ call # LastAddr(flow.blocks[b]) /\ todo' = todo \cup {next}
                  /\ next \notin Starts(flow)
                  /\ Starts(flow') = Starts(flow) \cup {next}
                  /\ (flow').callLocs = flow.callLocs
                  /\ (flow').blocks[b].type = flow.blocks[b].type
                  /\ (flow').blocks[b].callees = flow.blocks[b].callees
                  /\ (flow').blocks[next].callees = {}
                  /\ (flow').blocks[next].type =
                        IF first THEN IF HasCalls(flow', next) THEN "CALL" ELSE "NORMAL"
                        ELSE flow.blocks[b].type
                  /\ \A x \in Starts(flow) \ {b} : (flow').blocks[x] = flow.blocks[x]
  BY SplitAtCallStep DEF Shaped
<1> DEFINE call == NextCall(b)
           next == Following(prog, call)
           end  == LastAddr(flow.blocks[b])
<1>2. /\ prog \in Programs /\ Fits(prog, flow) /\ Disjoint(flow) /\ IsFlow(flow)
      /\ flow.callLocs \in SUBSET Addresses(prog) /\ pending \in SUBSET flow.callLocs
  BY <1>1, CallFacts
<1>3. /\ \A x \in Starts(flow) : CallRanges(x) # {} <=> \E c \in pending : InBlock(prog, flow, x, c)
      /\ \A x \in Starts(flow') :
            CallRanges(x)' # {} <=> \E c \in pending' : InBlock(prog, flow', x, c)
  <2>1. /\ pending' \in SUBSET Addresses(prog)
        /\ \A x : CallRanges(x)' # {} <=> HasOneOf(pending', (flow').blocks[x])
    BY <1>1, <1>2 DEF CallRanges, HasOneOf
  <2> QED  BY <2>1, CallFacts, CallsInBlock
<1>4. current' \subseteq {b} /\ (CallRanges(b)' # {} => b \in current') /\ current = {b}
  <2>1. CallRanges(b)' # {} => HasOneOf(pending', (flow').blocks[b])
    BY DEF CallRanges, HasOneOf
  <2>2. \A x, y \in current : x = y
    BY <1>1 DEF CallsEndBlocks, CallsTracked
  <2> QED  BY <1>1, <2>1, <2>2
<1>5. call \in pending /\ InBlock(prog, flow, b, call)
  <2>1. /\ NextRange(b) \in DOMAIN flow.blocks[b].ranges
        /\ call \in InsnsIn(prog, flow.blocks[b].ranges[NextRange(b)])
        /\ call \in pending
    BY NextCallFacts DEF InsnsIn, Shaped
  <2> QED  BY <2>1 DEF InBlock
<1>6. (flow').callLocs = flow.callLocs /\ Handled' = Handled \cup {call}
  BY <1>1, <1>2, <1>5 DEF Handled
<1>7. CallsKnown'
  BY <1>1, <1>6, LaterCallsKnown DEF CallsEndBlocks, Traced
<1>8. OneCallPerBlock'
  BY <1>1 DEF OneCallPerBlock
<1>9. /\ \A x \in Starts(flow) :
            /\ flow.blocks[x].type = "CALL" <=> x = b \/ LastAddr(flow.blocks[x]) \in Handled
            /\ CallRanges(x) # {} => x \in todo \cup {b}
      /\ \A a \in Handled : \E x \in Starts(flow) : LastAddr(flow.blocks[x]) = a
      /\ CallsTracked
  BY <1>1, <1>4 DEF CallsEndBlocks, CallsTracked
<1>10. \A x \in Starts(flow) \ {b} : LastAddr(flow.blocks[x]) # call
  <2>1. SUFFICES ASSUME NEW x \in Starts(flow) \ {b}, LastAddr(flow.blocks[x]) = call PROVE FALSE
    OBVIOUS
  <2>2. InBlock(prog, flow, x, call)
    BY <1>2, <2>1, InBlockFacts
  <2> QED  BY <1>1, <1>2, <1>5, <2>1, <2>2, InOneBlock
<1>11. CASE call = end
  <2>1. UNCHANGED <<flow, todo>>
    BY <1>1, <1>11
  <2>2. CallsUntouched'
    BY <1>1, <2>1 DEF CallsEndBlocks, CallsUntouched
  <2>3. ASSUME NEW x \in Starts(flow')
        PROVE  /\ (flow').blocks[x].type = "CALL" <=>
                     x \in current' \/ LastAddr((flow').blocks[x]) \in Handled'
               /\ (CallRanges(x))' # {} => x \in todo' \cup current'
    <3>1. CASE x = b
      BY <1>4, <1>6, <1>9, <1>11, <2>1, <3>1
    <3>2. CASE x # b
      <4>1. (CallRanges(x))' # {} => CallRanges(x) # {}
        BY <1>1, <1>3, <2>1
      <4> QED  BY <1>4, <1>6, <1>9, <1>10, <2>1, <3>2, <4>1
    <3> QED  BY <3>1, <3>2
  <2>4. ASSUME NEW a \in Handled' PROVE \E x \in Starts(flow') : LastAddr((flow').blocks[x]) = a
    BY <1>1, <1>6, <1>9, <1>11, <2>1, <2>4
  <2>5. CallsTracked'
    BY <1>1, <1>4, <2>3, <2>4 DEF CallsTracked
  <2> QED  BY <1>7, <1>8, <2>2, <2>5 DEF CallsEndBlocks
<1>12. CASE call # end
  <2>1. /\ todo' = todo \cup {next}
        /\ next \notin Starts(flow) /\ Starts(flow') = Starts(flow) \cup {next}
        /\ (flow').blocks[b].type = flow.blocks[b].type
        /\ (flow').blocks[b].callees = flow.blocks[b].callees
        /\ (flow').blocks[next].callees = {}
        /\ (flow').blocks[next].type =
              IF \A c \in InRange(flow.callLocs, flow.blocks[b].ranges[NextRange(b)]) : c <= call
              THEN IF HasCalls(flow', next) THEN "CALL" ELSE "NORMAL"
              ELSE flow.blocks[b].type
        /\ \A x \in Starts(flow) \ {b} : (flow').blocks[x] = flow.blocks[x]
    BY <1>1, <1>12
  <2>2. IsSplit(prog, flow, flow', b, NextRange(b), call)
    <3>1. PICK x \in current : \/ UNCHANGED flow
                               \/ IsSplit(prog, flow, flow', x, NextRange(x), NextCall(x))
      BY SplitAtCallSplits DEF Shaped
    <3>2. x = b
      BY <1>4
    <3>3. ~UNCHANGED flow
      BY <2>1
    <3> QED  BY <3>1, <3>2, <3>3
  <2>3. LastAddr((flow').blocks[b]) = call /\ LastAddr((flow').blocks[next]) = end
    BY <1>2, <2>2, SplitFits
  <2>4. /\ \A x \in Starts(flow) \ {b} : \A a :
              InBlock(prog, flow', x, a) <=> InBlock(prog, flow, x, a)
        /\ \A a : InBlock(prog, flow', b, a) => InBlock(prog, flow, b, a)
    BY <1>1, <1>6, <1>9, <2>2, SplitOffCalls
  <2>5. (flow').blocks[next].type = "CALL" <=> end \in Handled
    <3>1. /\ HasCalls(flow', next) <=> end \in Handled
          /\ (\E c \in InRange(flow.callLocs, flow.blocks[b].ranges[NextRange(b)]) : ~(c <= call))
                => end \in Handled
      BY <1>1, <1>6, <1>9, <2>2, SplitOffType
    <3>2. flow.blocks[b].type = "CALL"
      BY <1>1, <1>9
    <3> HIDE DEF call, next, end
    <3> QED  BY <2>1, <3>1, <3>2
  <2>6. CallsUntouched'
    <3>1. \A x \in Starts(flow) : flow.blocks[x].callees = {}
      BY <1>1 DEF CallsEndBlocks, CallsUntouched
    <3>2. \A x \in Starts(flow') : (flow').blocks[x].callees = {}
      BY <2>1, <3>1
    <3> QED  BY <1>1, <3>2 DEF CallsUntouched
  <2> HIDE DEF call, next, end
  <2>7. ASSUME NEW x \in Starts(flow')
        PROVE  /\ (flow').blocks[x].type = "CALL" <=>
                     x \in current' \/ LastAddr((flow').blocks[x]) \in Handled'
               /\ (CallRanges(x))' # {} => x \in todo' \cup current'
    <3>1. CASE x = b
      BY <1>1, <1>4, <1>6, <1>9, <2>1, <2>3, <3>1
    <3>2. CASE x = next
      <4>1. x # b /\ x \notin current' /\ x \in todo'
        BY <1>1, <1>4, <2>1, <3>2
      <4>2. LastAddr((flow').blocks[x]) \in Handled' <=> end \in Handled
        BY <1>6, <1>12, <2>3, <3>2
      <4> QED  BY <2>5, <3>2, <4>1, <4>2
    <3>3. CASE x # b /\ x # next
      <4>1. x \in Starts(flow) \ {b} /\ (flow').blocks[x] = flow.blocks[x]
        BY <2>1, <3>3
      <4>2. (CallRanges(x))' # {} => CallRanges(x) # {}
        BY <1>1, <1>3, <2>4, <4>1
      <4>3. LastAddr((flow').blocks[x]) \in Handled' <=> LastAddr(flow.blocks[x]) \in Handled
        BY <1>6, <1>10, <4>1
      <4> QED  BY <1>4, <1>9, <2>1, <3>3, <4>1, <4>2, <4>3
    <3> QED  BY <3>1, <3>2, <3>3
  <2>8. ASSUME NEW a \in Handled' PROVE \E x \in Starts(flow') : LastAddr((flow').blocks[x]) = a
    <3>1. CASE a = call
      BY <1>1, <2>1, <2>3, <3>1
    <3>2. CASE a # call
      <4>1. PICK x \in Starts(flow) : LastAddr(flow.blocks[x]) = a
        BY <1>6, <1>9, <2>8, <3>2
      <4>2. CASE x = b
        BY <2>1, <2>3, <4>1, <4>2 DEF end
      <4>3. CASE x # b
        BY <2>1, <4>1, <4>3
      <4> QED  BY <4>2, <4>3
    <3> QED  BY <3>1, <3>2
  <2>9. CallsTracked'
    BY <1>1, <1>4, <2>7, <2>8 DEF CallsTracked
  <2> QED  BY <1>7, <1>8, <2>6, <2>9 DEF CallsEndBlocks
<1> QED  BY <1>11, <1>12
\* When no call is left, all are handled.
LEMMA FinishCallsCalls ==
    Shaped /\ Shaped' /\ CallsEndBlocks /\ FinishCalls => CallsEndBlocks'
<1> SUFFICES ASSUME Shaped, Shaped', CallsEndBlocks, FinishCalls, ~Abort PROVE CallsEndBlocks'
  BY AbortCalls DEF FinishCalls
<1>1. /\ pass = "calls" /\ pass' = "symbolize" /\ current = {} /\ pending = {}
      /\ UNCHANGED <<prog, flow, pending, current>>
  BY DEF FinishCalls
<1>2. CallsKnown' /\ CallsUntouched' /\ OneCallPerBlock'
  BY <1>1 DEF CallsEndBlocks, CallsKnown, CallsUntouched, OneCallPerBlock
<1>3. Handled' = Handled /\ \A b : CallRanges(b)' = {}
  BY <1>1 DEF Handled, CallRanges, InRange
<1>4. CallsTracked'
  BY <1>1, <1>3 DEF CallsEndBlocks, CallsTracked
<1> QED  BY <1>2, <1>4 DEF CallsEndBlocks

\* The call sites of a block are the known calls in it.
LEMMA CallSitesInBlock ==
    ASSUME NEW p, NEW f, NEW b, f.callLocs \in SUBSET Addresses(p)
    PROVE  \A a : a \in CallSites(f, f.blocks[b]) <=> a \in f.callLocs /\ InBlock(p, f, b, a)
BY DEF CallSites, InRange, InBlock, InsnsIn

\* When all calls are handled, the call sites of a block are its last instruction, if that
\* is a call, and the type of the block says so.
LEMMA OneCallSite ==
    ASSUME Shaped, CallsEndBlocks, pass = "symbolize", NEW b \in Starts(flow)
    PROVE  LET blk == flow.blocks[b]
               end == LastAddr(blk)
           IN  /\ prog.insn[end].kind = "call" =>
                     blk.type = "CALL" /\ CallSites(flow, blk) = {end}
               /\ prog.insn[end].kind # "call" =>
                     blk.type = "NORMAL" /\ CallSites(flow, blk) = {}
               /\ blk.callees = {}
               /\ \A a \in CallSites(flow, blk) : prog.insn[a].kind = "call"
<1> DEFINE blk == flow.blocks[b]
           end == LastAddr(blk)
<1>1. /\ prog \in Programs /\ Fits(prog, flow) /\ IsFlow(flow)
      /\ flow.callLocs \in SUBSET Addresses(prog)
  BY CallFacts
<1>2. current = {} /\ Handled = flow.callLocs /\ CallsTracked
  BY DEF CallsEndBlocks, CallsTracked, Handled
<1>3. blk.type \in {"NORMAL", "CALL"} /\ blk.callees = {}
  BY <1>1, FlowFields DEF Block, CallsEndBlocks, CallsUntouched
<1>4. /\ blk.type = "CALL" <=> end \in flow.callLocs
  BY <1>2 DEF CallsTracked
<1>5. InBlock(prog, flow, b, end) /\ end \in Covered(prog, flow)
  BY <1>1, InBlockFacts
<1>6. \A a \in flow.callLocs : prog.insn[a].kind = "call"
  BY DEF CallsEndBlocks, CallsKnown
<1>7. end \in flow.callLocs <=> prog.insn[end].kind = "call"
  BY <1>5 DEF CallsEndBlocks, CallsKnown
<1>8. \A a : a \in CallSites(flow, blk) <=> a \in flow.callLocs /\ InBlock(prog, flow, b, a)
  BY <1>1, CallSitesInBlock
<1>9. \A a \in flow.callLocs : InBlock(prog, flow, b, a) => a = end
  BY <1>2, HandledEnds
<1> HIDE DEF end, blk
<1>10. \A a : a \in CallSites(flow, blk) <=> a = end /\ prog.insn[end].kind = "call"
  BY <1>5, <1>7, <1>8, <1>9
<1> QED  BY <1>3, <1>4, <1>6, <1>7, <1>8, <1>10 DEF end, blk

\* Naming the callees gives every block its one callee.
LEMMA SymbolizeCalls ==
    Shaped /\ Shaped' /\ CallsEndBlocks /\ Symbolize => CallsEndBlocks'
<1> SUFFICES ASSUME Shaped, Shaped', CallsEndBlocks, Symbolize, ~Abort PROVE CallsEndBlocks'
  BY AbortCalls DEF Symbolize
<1>1. /\ pass = "symbolize" /\ pass' = "done" /\ UNCHANGED <<prog, pending, current>>
      /\ flow' = [flow EXCEPT !.blocks =
            [b \in Starts(flow) |->
               [flow.blocks[b] EXCEPT !.callees =
                   IF flow.blocks[b].type = "CALL"
                   THEN CallSites(flow, flow.blocks[b]) ELSE @]]]
  BY DEF Symbolize
<1>2. /\ IsFlow(flow') /\ Starts(flow') = Starts(flow) /\ (flow').callLocs = flow.callLocs
      /\ \A b \in Starts(flow) :
            /\ (flow').blocks[b].ranges = flow.blocks[b].ranges
            /\ (flow').blocks[b].type = flow.blocks[b].type
            /\ (flow').blocks[b].callees =
                  IF flow.blocks[b].type = "CALL"
                  THEN CallSites(flow, flow.blocks[b]) ELSE flow.blocks[b].callees
  BY <1>1, CallFacts, SymbolizedFlow
<1>3. CallsKnown'
  BY <1>1, <1>2, LaterCallsKnown DEF CallsEndBlocks, Traced
<1>4. CallsUntouched'
  BY <1>1 DEF CallsUntouched
<1>5. \A b \in Starts(flow) : LastAddr((flow').blocks[b]) = LastAddr(flow.blocks[b])
  BY <1>2 DEF LastAddr
<1>6. /\ pending = {} /\ current = {} /\ CallsTracked
  BY <1>1 DEF CallsEndBlocks, CallsTracked
<1>7. Handled' = Handled /\ \A b : CallRanges(b)' = {}
  BY <1>1, <1>2, <1>6 DEF Handled, CallRanges, InRange
<1>8. CallsTracked'
  <2>1. ASSUME NEW a \in Handled' PROVE \E b \in Starts(flow') : LastAddr((flow').blocks[b]) = a
    <3>1. PICK b \in Starts(flow) : LastAddr(flow.blocks[b]) = a
      BY <1>1, <1>6, <1>7, <2>1 DEF CallsTracked
    <3> QED  BY <1>2, <1>5, <3>1
  <2>2. ASSUME NEW b \in Starts(flow)
        PROVE  (flow').blocks[b].type = "CALL" <=> LastAddr((flow').blocks[b]) \in Handled'
    BY <1>1, <1>2, <1>5, <1>6, <1>7 DEF CallsTracked
  <2> QED  BY <1>1, <1>2, <1>6, <1>7, <2>1, <2>2 DEF CallsTracked
<1>9. ASSUME NEW b \in Starts(flow')
      PROVE  LET blk   == (flow').blocks[b]
                 calls == {a \in CallSites(flow', blk) : prog.insn[a].kind = "call"}
             IN  IF prog.insn[LastAddr(blk)].kind = "call"
                 THEN /\ blk.type = "CALL"
                      /\ calls = {LastAddr(blk)} /\ blk.callees = calls
                 ELSE blk.type = "NORMAL" /\ calls = {} /\ blk.callees = {}
  <2> DEFINE old == flow.blocks[b]
             blk == (flow').blocks[b]
             end == LastAddr(blk)
             sites == CallSites(flow', blk)
             calls == {a \in sites : prog.insn[a].kind = "call"}
  <2>1. /\ LastAddr(old) = end /\ blk.type = old.type
        /\ blk.callees = IF old.type = "CALL" THEN CallSites(flow, old) ELSE old.callees
    BY <1>2, <1>5, <1>9
  <2>2. sites = CallSites(flow, old)
    BY <1>2, <1>9 DEF CallSites
  <2>3. /\ prog.insn[end].kind = "call" => old.type = "CALL" /\ CallSites(flow, old) = {end}
        /\ prog.insn[end].kind # "call" => old.type = "NORMAL" /\ CallSites(flow, old) = {}
        /\ old.callees = {}
        /\ \A a \in CallSites(flow, old) : prog.insn[a].kind = "call"
    BY <1>1, <1>2, <1>9, <2>1, OneCallSite
  <2>4. calls = sites
    BY <2>2, <2>3
  <2> HIDE DEF sites, end, blk, old
  <2>5. CASE prog.insn[end].kind = "call"
    <3>1. blk.type = "CALL" /\ calls = {end} /\ blk.callees = calls
      BY <2>1, <2>2, <2>3, <2>4, <2>5
    <3> QED  BY <2>5, <3>1 DEF sites, end, blk
  <2>6. CASE prog.insn[end].kind # "call"
    <3>1. blk.type = "NORMAL" /\ calls = {} /\ blk.callees = {}
      BY <2>1, <2>2, <2>3, <2>4, <2>6
    <3> QED  BY <2>6, <3>1 DEF sites, end, blk
  <2> QED  BY <2>5, <2>6
<1>10. OneCallPerBlock'
  <2>1. prog' = prog
    BY <1>1
  <2> QED  BY <1>9, <2>1 DEF OneCallPerBlock
<1> QED  BY <1>3, <1>4, <1>8, <1>10 DEF CallsEndBlocks

\* Where nothing changes, the calls stay as they are.
LEMMA StutterCalls == CallsEndBlocks /\ UNCHANGED vars => CallsEndBlocks'
<1> SUFFICES ASSUME CallsEndBlocks, UNCHANGED vars PROVE CallsEndBlocks'
  OBVIOUS
<1>1. UNCHANGED <<prog, pass, flow, todo, pending, current>>
  BY DEF vars
<1>2. CallsUntouched' /\ CallsKnown'
  BY <1>1 DEF CallsEndBlocks, CallsUntouched, CallsKnown
<1>3. CallsTracked'
  BY <1>1 DEF CallsEndBlocks, CallsTracked, Handled, CallRanges
<1>4. OneCallPerBlock'
  BY <1>1 DEF CallsEndBlocks, OneCallPerBlock
<1> QED  BY <1>2, <1>3, <1>4 DEF CallsEndBlocks

\* Every step keeps the third part of the inductive invariant.
LEMMA StepCalls == Shaped /\ Shaped' /\ CallsEndBlocks /\ [Next]_vars => CallsEndBlocks'
<1> SUFFICES ASSUME Shaped, Shaped', CallsEndBlocks, [Next]_vars PROVE CallsEndBlocks'
  OBVIOUS
<1>1. CASE SkipCandidate \/ FinishWorklist \/ KeepBlock \/ FinishOverlaps
  <2>1. /\ pass \in {"trace", "overlaps", "merge"} /\ pass' \in {"trace", "overlaps", "merge"}
        /\ UNCHANGED <<prog, flow>>
    BY <1>1 DEF SkipCandidate, FinishWorklist, KeepBlock, FinishOverlaps
  <2> QED  BY <2>1, SameCalls
<1>2. CASE TraceBlock
  BY <1>2, TraceBlockCalls
<1>3. CASE TrimOverlap
  BY <1>3, TrimOverlapCalls
<1>4. CASE MergeBlock
  BY <1>4, MergeBlockCalls
<1>5. CASE FinishMerge
  BY <1>5, FinishMergeCalls
<1>6. CASE StartBlock
  BY <1>6, StartBlockCalls
<1>7. CASE SplitAtCall
  BY <1>7, SplitAtCallCalls
<1>8. CASE FinishCalls
  BY <1>8, FinishCallsCalls
<1>9. CASE Symbolize
  BY <1>9, SymbolizeCalls
<1>10. CASE UNCHANGED vars
  BY <1>10, StutterCalls
<1> QED
  BY <1>1, <1>2, <1>3, <1>4, <1>5, <1>6, <1>7, <1>8, <1>9, <1>10 DEF Next, Terminated

\* The first three parts of the inductive invariant hold in every state.
LEMMA CallsAlwaysEndBlocks == Spec => [](Shaped /\ CallsEndBlocks)
<1>1. Spec => []Shaped
  BY BlocksAlwaysShowInstructions, PTL DEF Shaped
<1>2. Init => CallsEndBlocks
  BY InitCalls
<1>3. Shaped /\ Shaped' /\ CallsEndBlocks /\ [Next]_vars => CallsEndBlocks'
  BY StepCalls
<1> QED  BY <1>1, <1>2, <1>3, PTL DEF Spec

\* When the generator is done, a block has at most one call, at its end, and says so with
\* its type and its one callee (manageFuncCallBlocks, symbolize).
THEOREM CallsEndTheirBlocks == Spec => []OneCallPerBlock
<1>1. CallsEndBlocks => OneCallPerBlock
  BY DEF CallsEndBlocks
<1> QED  BY <1>1, CallsAlwaysEndBlocks, PTL
-----------------------------------------------------------------------------
(* The entry block stays, and no assertion fails.                          *)

\* The block at the function entry is entered there only.
LEMMA EntryIsStart ==
    ASSUME Shaped, pass \in {"merge", "calls", "symbolize", "done"}, flow.postEntry = prog.entry
    PROVE  /\ prog.entry \in Starts(flow) /\ InBlock(prog, flow, prog.entry, prog.entry)
           /\ \A b \in Starts(flow) : InBlock(prog, flow, b, prog.entry) => b = prog.entry
<1>1. prog \in Programs /\ Fits(prog, flow) /\ Disjoint(flow)
  BY CallFacts
<1>2. prog.entry \in Starts(flow)
  BY DEF Shaped, Inv, PiecesExist, NoDanglingEdges, Traced
<1>3. InBlock(prog, flow, prog.entry, prog.entry)
  BY <1>1, <1>2, InBlockFacts
<1> QED  BY <1>1, <1>2, <1>3, InOneBlock

\* fixOverlaps puts a block back up to one that starts inside it.
LEMMA TrimOverlapLives == Shaped /\ TrimOverlap => pass' # "aborted"
<1> SUFFICES ASSUME Shaped, TrimOverlap PROVE pass' # "aborted"
  OBVIOUS
<1> DEFINE b     == Min(todo)
           later == {x \in Starts(flow) : x > b}
<1>1. pass = "overlaps" /\ todo # {} /\ Overlaps(b)
  BY DEF TrimOverlap
<1>2. b \in todo /\ b \in Nat
  BY <1>1, TodoOrder, TodoFacts DEF Shaped
<1>3. \E s \in Starts(flow) : b < s
  BY <1>1, <1>2, OverlapMeaning DEF Shaped
<1>4. /\ Starts(flow) \in SUBSET Addresses(prog) /\ Addresses(prog) \in SUBSET Nat
  BY <1>1, ProgramFacts, CodeFacts DEF Shaped, Inv, PiecesExist, StartsDecoded
<1>5. later # {}
  BY <1>2, <1>3, <1>4
<1>6. StartAfter(b) \in later
  <2>1. later \in SUBSET Starts(flow)
    OBVIOUS
  <2>2. FirstStart(later) \in later
    <3> HIDE DEF later
    <3> QED  BY <1>1, <1>5, <2>1, FirstStartFacts DEF Shaped
  <2> QED  BY <2>2 DEF StartAfter
<1>7. StartAfter(b) \in Addresses(prog)
  BY <1>4, <1>6
<1> QED  BY <1>1, <1>7 DEF TrimOverlap

\* A block that is not the entry block and that only itself leads to would not be reached.
LEMMA NoLoneLoop ==
    ASSUME Shaped, pass = "merge", flow.postEntry = prog.entry,
           NEW B \in Starts(flow), B # prog.entry
    PROVE  Predecessors(flow, B) # {B}
<1> SUFFICES ASSUME Predecessors(flow, B) = {B} PROVE FALSE
  OBVIOUS
<1> DEFINE T == {a \in Covered(prog, flow) : ~InBlock(prog, flow, B, a)}
<1>1. /\ prog \in Programs /\ Fits(prog, flow) /\ Disjoint(flow) /\ IsFlow(flow)
      /\ \A e \in flow.edges : e[2] \in Starts(flow)
      /\ Covered(prog, flow) = Reachable(prog)
  BY CallFacts DEF Shaped, Inv, PiecesExist, NoDanglingEdges, Traced, BlocksShowInstructions,
                   CoversReachableCode
<1>2. prog.entry \in T
  <2>1. prog.entry \in Covered(prog, flow)
    BY <1>1, ReachableCodeFacts
  <2>2. ~InBlock(prog, flow, B, prog.entry)
    BY EntryIsStart
  <2> QED  BY <2>1, <2>2
<1>3. ASSUME NEW a \in T, NEW s \in GoesTo(prog, a) PROVE s \in T
  <2>1. s \in Covered(prog, flow)
    BY <1>1, <1>3, ReachableCodeFacts
  <2>2. SUFFICES ASSUME InBlock(prog, flow, B, s) PROVE FALSE
    BY <2>1
  <2>3. PICK c \in Starts(flow) : InBlock(prog, flow, c, a)
    BY <1>1, InBlockFacts
  <2>4. c # B
    BY <2>3
  <2>5. \/ a = LastAddr(flow.blocks[c]) /\ <<c, s>> \in flow.edges
        \/ InBlock(prog, flow, c, s) /\ s # c
    BY <1>1, <2>3, BlockStep
  <2>6. CASE <<c, s>> \in flow.edges
    <3>1. <<c, s>>[2] \in Starts(flow)
      BY <1>1, <2>6
    <3>2. s \in Starts(flow) /\ InBlock(prog, flow, s, s)
      BY <1>1, <3>1, InBlockFacts
    <3>3. s = B
      BY <1>1, <2>2, <3>2, InOneBlock
    <3>4. c \in Predecessors(flow, B)
      BY <2>6, <3>3 DEF Predecessors
    <3> QED  BY <2>4, <3>4
  <2>7. CASE InBlock(prog, flow, c, s)
    BY <1>1, <2>2, <2>3, <2>4, <2>7, InOneBlock
  <2> QED  BY <2>5, <2>6, <2>7
<1>4. Reachable(prog) \subseteq T
  <2> HIDE DEF T
  <2>1. \A a \in T : GoesTo(prog, a) \subseteq T
    BY <1>3
  <2> QED  BY <1>1, <1>2, <2>1, ReachableCodeFacts
<1>5. B \in Covered(prog, flow) /\ InBlock(prog, flow, B, B)
  BY <1>1, InBlockFacts
<1> QED  BY <1>1, <1>4, <1>5

\* A block that is merged is not the entry block, and the block it goes into is another.
LEMMA MergeBlockLives ==
    ASSUME Shaped, MergeBlock, flow.postEntry = prog.entry,
           \A m \in merges : m[2] # prog.entry
    PROVE  pass' # "aborted" /\ (flow').postEntry = prog.entry /\ merges' \subseteq merges
<1>1. PICK m \in merges :
        LET B         == m[2]
            A         == CHOOSE a \in Predecessors(flow, B) : TRUE
            exits     == {<<A, s>> : s \in Successors(flow, B)}
            blk       == flow.blocks[B]
            removed   == RemoveBlockUpdatingEntry(flow, B)
            extended  == AddEdges(InsertBlockAddrRanges(removed, A, blk.ranges), exits)
        IN  IF MayRemove(flow, B) /\ A \in Starts(removed)
            THEN /\ flow' = IF exits = {}
                            THEN [extended EXCEPT !.preExit = @ \cup {A}]
                            ELSE extended
                 /\ merges' = merges \ {m}
                 /\ UNCHANGED <<prog, pass, queue, visited, todo, pending, current>>
            ELSE Abort
  BY DEF MergeBlock
<1> DEFINE B == m[2]
           A == CHOOSE a \in Predecessors(flow, B) : TRUE
           removed == RemoveBlockUpdatingEntry(flow, B)
<1>2. /\ pass = "merge" /\ B \in Starts(flow) /\ B # prog.entry
      /\ \E a \in Starts(flow) : Predecessors(flow, B) = {a}
  BY DEF MergeBlock, Shaped, Inv, PiecesExist, MergesSound
<1>3. A \in Starts(flow) /\ Predecessors(flow, B) = {A}
  <2>1. PICK a \in Starts(flow) : Predecessors(flow, B) = {a}
    BY <1>2
  <2>2. A = a
    BY <2>1
  <2> QED  BY <2>1, <2>2
<1>4. A # B
  BY <1>2, <1>3, NoLoneLoop
<1>5. MayRemove(flow, B)
  BY <1>2 DEF MayRemove
<1>6. Starts(removed) = Starts(flow) \ {B}
  <2>1. IsFlow(flow)
    BY CallFacts
  <2> QED  BY <2>1 DEF RemoveBlockUpdatingEntry, RemoveBlock, Starts
<1>7. UNCHANGED <<prog, pass>> /\ merges' = merges \ {m}
  BY <1>1, <1>3, <1>4, <1>5, <1>6
<1>8. pass' # "aborted"
  BY <1>2, <1>7
<1>9. (flow').postEntry = flow.postEntry
  <2>1. PICK n \in merges :
          pass = "merge" /\ (n[2] # flow.postEntry => (flow').postEntry = flow.postEntry)
    <3>1. ~Abort
      BY <1>8 DEF Abort
    <3> QED  BY <3>1, MergeBlockStep DEF Shaped
  <2> QED  BY <2>1
<1> QED  BY <1>7, <1>8, <1>9

\* Behind a call that does not end its block no block starts, and the rest can be cut off.
LEMMA SplitAtCallLives == Shaped /\ SplitAtCall => pass' # "aborted"
<1> SUFFICES ASSUME Shaped, SplitAtCall PROVE pass' # "aborted"
  OBVIOUS
<1>1. PICK b \in current :
        LET call == NextCall(b)
            size == prog.insn[call].size
        IN  pass = "calls" /\ (\/ pass' = pass
                               \/ call # LastAddr(flow.blocks[b]) /\ ~MaySplit(flow, b, call, size))
  BY DEF SplitAtCall, NextCall, NextRange
<1> DEFINE r    == flow.blocks[b].ranges
           i    == NextRange(b)
           call == NextCall(b)
           next == Following(prog, call)
<1>2. SUFFICES ASSUME call # LastAddr(flow.blocks[b]) PROVE MaySplit(flow, b, call, prog.insn[call].size)
  BY <1>1
<1>3. /\ prog \in Programs /\ Fits(prog, flow) /\ Disjoint(flow) /\ b \in Starts(flow)
  BY <1>1, CallFacts
<1>4. i \in DOMAIN r /\ r[i][1] <= call /\ call \in Nat
  BY NextCallFacts DEF Shaped
<1>5. IsCut(prog, r, i, call, KeptRanges(r, next, prog.insn[call].size), CutOff(r, next))
  BY <1>1, <1>2, CallIsCut DEF Shaped
<1> HIDE DEF i, call
<1>6. /\ Straight(prog, <<next, r[i][2]>>) /\ r[i][1] <= next /\ call < next /\ next \in Nat
      /\ \A a : a \in InsnsIn(prog, r[i]) <=> \/ a \in InsnsIn(prog, <<r[i][1], call>>)
                                              \/ a \in InsnsIn(prog, <<next, r[i][2]>>)
      /\ \A j \in DOMAIN r : r[j][1] \in Nat
  BY <1>3, <1>5, CutFacts
<1>7. next <= r[i][2] /\ next \in InsnsIn(prog, r[i])
  <2>1. next <= r[i][2] /\ next \in Addresses(prog)
    BY <1>6 DEF Straight
  <2>2. next \in InsnsIn(prog, <<next, r[i][2]>>)
    BY <1>6, <2>1 DEF InsnsIn
  <2> QED  BY <1>6, <2>1, <2>2
<1>8. i \in Holding(r, next)
  BY <1>4, <1>6, <1>7 DEF Holding
<1>9. next \notin Starts(flow)
  <2> HIDE DEF next
  <2>1. SUFFICES ASSUME next \in Starts(flow) PROVE FALSE
    OBVIOUS
  <2>2. InBlock(prog, flow, next, next) /\ InBlock(prog, flow, b, next)
    BY <1>3, <1>4, <1>7, <2>1, InBlockFacts DEF InBlock
  <2>3. next = b
    BY <1>3, <2>1, <2>2, InOneBlock
  <2>4. 1 \in DOMAIN r /\ r[1][1] = b /\ Straight(prog, r[1])
    BY <1>3, BlockFacts
  <2>5. b \in InsnsIn(prog, r[1])
    BY <1>6, <2>3, <2>4 DEF Straight, InsnsIn
  <2>6. i = 1
    BY <1>3, <1>4, <1>7, <2>3, <2>4, <2>5, OneBlock
  <2> QED  BY <1>4, <1>6, <2>3, <2>4, <2>6
<1> QED  BY <1>2, <1>8, <1>9 DEF MaySplit, Following

\* A call that is not handled is in a block that will be looked at.
LEMMA FinishCallsLives == Shaped /\ CallsEndBlocks /\ FinishCalls => pass' # "aborted"
<1> SUFFICES ASSUME Shaped, CallsEndBlocks, pass = "calls", current = {}, todo = {}, pending # {}
             PROVE  FALSE
  BY DEF FinishCalls
<1>1. PICK c \in pending : TRUE
  OBVIOUS
<1>2. prog \in Programs /\ Fits(prog, flow) /\ c \in flow.callLocs
  BY CallFacts
<1>3. c \in Covered(prog, flow)
  BY <1>2 DEF CallsEndBlocks, CallsKnown
<1>4. PICK b \in Starts(flow) : InBlock(prog, flow, b, c)
  BY <1>2, <1>3, InBlockFacts
<1>5. CallRanges(b) # {}
  BY <1>1, <1>4, CallFacts
<1> QED  BY <1>5 DEF CallsEndBlocks, CallsTracked

\* A block of type CALL has a call site.
LEMMA SymbolizeLives == Shaped /\ CallsEndBlocks /\ Symbolize => pass' # "aborted"
<1> SUFFICES ASSUME Shaped, CallsEndBlocks, pass = "symbolize", NEW b \in Starts(flow),
                    flow.blocks[b].type = "CALL", CallSites(flow, flow.blocks[b]) = {}
             PROVE  FALSE
  BY DEF Symbolize
<1> QED  BY OneCallSite
\* Where the way back to the entry is not one jump, the entry block is not selected.
LEMMA EntryNotSelected ==
    ASSUME Shaped, Shaped', FinishOverlaps, ~LoneEntryJump(prog), flow.postEntry = prog.entry,
           NEW m \in JumpMerges(flow)
    PROVE  m[2] # prog.entry
<1> SUFFICES ASSUME m[2] = prog.entry PROVE LoneEntryJump(prog)
  OBVIOUS
<1> DEFINE A == m[1]
           a == LastAddr(flow.blocks[A])
<1>1. pass = "overlaps" /\ pass' = "merge" /\ UNCHANGED <<prog, flow>>
  BY DEF FinishOverlaps
<1>2. /\ m \in flow.edges /\ Predecessors(flow, prog.entry) = {A}
      /\ prog.insn[a].kind = "jump"
  BY DEF JumpMerges
<1>3. /\ prog \in Programs /\ IsFlow(flow) /\ Fits(prog, flow)
      /\ \A e \in flow.edges : e[1] \in Starts(flow)
      /\ prog.entry \in Starts(flow)
      /\ Covered(prog, flow) = Reachable(prog)
  BY <1>1, RunningFits DEF Shaped, Inv, PiecesExist, TypeOK, NoDanglingEdges, Traced,
       BlocksShowInstructions, CoversReachableCode, Running
<1>4. Disjoint(flow)
  <2>1. Disjoint(flow')
    BY <1>1 DEF Shaped, BlocksShowInstructions, RangesDisjoint
  <2> QED  BY <1>1, <2>1
<1>5. A \in Starts(flow) /\ <<A, prog.entry>> \in flow.edges
  <2>1. m = <<m[1], m[2]>>
    BY <1>2, <1>3, FlowFields
  <2> QED  BY <1>2, <1>3, <2>1
<1> HIDE DEF A
<1>6. a \in Reachable(prog) /\ prog.entry \in GoesTo(prog, a)
  <2>1. InBlock(prog, flow, A, a)
    BY <1>3, <1>5, InBlockFacts
  <2>2. a \in Covered(prog, flow)
    BY <1>3, <1>5, <2>1, InBlockFacts
  <2>3. prog.entry \in GoesTo(prog, a)
    BY <1>3, <1>5, BlockFacts
  <2> QED  BY <1>3, <2>2, <2>3
<1>7. ASSUME NEW b \in Reachable(prog), prog.entry \in GoesTo(prog, b) PROVE b = a
  <2>1. PICK c \in Starts(flow) : InBlock(prog, flow, c, b)
    BY <1>3, InBlockFacts
  <2>2. \/ b = LastAddr(flow.blocks[c]) /\ <<c, prog.entry>> \in flow.edges
        \/ InBlock(prog, flow, c, prog.entry) /\ prog.entry # c
    BY <1>3, <1>4, <1>7, <2>1, BlockStep
  <2>3. CASE b = LastAddr(flow.blocks[c]) /\ <<c, prog.entry>> \in flow.edges
    <3>1. c \in Predecessors(flow, prog.entry)
      BY <2>3 DEF Predecessors
    <3> QED  BY <1>2, <2>3, <3>1
  <2>4. CASE InBlock(prog, flow, c, prog.entry) /\ prog.entry # c
    <3>1. InBlock(prog, flow, prog.entry, prog.entry)
      BY <1>3, InBlockFacts
    <3> QED  BY <1>3, <1>4, <2>4, <3>1, InOneBlock
  <2> QED  BY <2>2, <2>3, <2>4
<1> HIDE DEF a
<1>8. {b \in Reachable(prog) : prog.entry \in GoesTo(prog, b)} = {a}
  BY <1>6, <1>7
<1> QED  BY <1>2, <1>6, <1>8 DEF LoneEntryJump

\* The entry marker is on the function entry at the start.
LEMMA InitEntry == Init => EntryUntouched
BY DEF Init, EmptyFlow, EntryUntouched, NoAssertionFails

\* Every step keeps the last part of the inductive invariant.
LEMMA StepEntry ==
    Shaped /\ Shaped' /\ CallsEndBlocks /\ EntryUntouched /\ [Next]_vars => EntryUntouched'
<1> SUFFICES ASSUME Shaped, Shaped', CallsEndBlocks, EntryUntouched, [Next]_vars,
                    ~LoneEntryJump(prog)'
             PROVE  /\ (flow').postEntry = prog'.entry
                    /\ pass' = "merge" => \A m \in merges' : m[2] # prog'.entry
                    /\ pass' # "aborted"
  BY DEF EntryUntouched, NoAssertionFails
<1>1. prog' = prog
  BY DEF Next, vars, SkipCandidate, TraceBlock, FinishWorklist, KeepBlock, TrimOverlap,
         FinishOverlaps, MergeBlock, FinishMerge, StartBlock, SplitAtCall, FinishCalls, Symbolize,
         Terminated, Abort
<1>2. /\ ~LoneEntryJump(prog) /\ flow.postEntry = prog.entry /\ pass # "aborted"
      /\ pass = "merge" => \A m \in merges : m[2] # prog.entry
  BY <1>1 DEF EntryUntouched, NoAssertionFails
<1>3. CASE SkipCandidate \/ FinishWorklist \/ KeepBlock \/ FinishMerge \/ UNCHANGED vars
  BY <1>1, <1>2, <1>3 DEF SkipCandidate, FinishWorklist, KeepBlock, FinishMerge, vars
<1>4. CASE TraceBlock
  BY <1>1, <1>2, <1>4, TraceBlockStep DEF Shaped
<1>5. CASE TrimOverlap
  <2>1. pass' # "aborted" /\ ~Abort
    BY <1>5, TrimOverlapLives DEF Abort
  <2>2. pass = "overlaps" /\ pass' = pass /\ (flow').postEntry = flow.postEntry
    BY <1>5, <2>1, TrimOverlapStep DEF Shaped
  <2> QED  BY <1>1, <1>2, <2>2
<1>6. CASE FinishOverlaps
  <2>1. pass' = "merge" /\ merges' = JumpMerges(flow) /\ flow' = flow
    BY <1>6 DEF FinishOverlaps
  <2> QED  BY <1>1, <1>2, <1>6, <2>1, EntryNotSelected
<1>7. CASE MergeBlock
  <2>1. pass = "merge"
    BY <1>7 DEF MergeBlock
  <2> QED  BY <1>1, <1>2, <1>7, <2>1, MergeBlockLives
<1>8. CASE StartBlock
  BY <1>1, <1>2, <1>8, StartBlockStep DEF Shaped
<1>9. CASE SplitAtCall
  <2>1. pass' # "aborted" /\ ~Abort
    BY <1>9, SplitAtCallLives DEF Abort
  <2>2. pass = "calls" /\ pass' = pass /\ (flow').postEntry = flow.postEntry
    BY <1>9, <2>1, SplitAtCallStep DEF Shaped
  <2> QED  BY <1>1, <1>2, <2>2
<1>10. CASE FinishCalls
  <2>1. pass' # "aborted" /\ ~Abort
    BY <1>10, FinishCallsLives DEF Abort
  <2>2. pass' = "symbolize" /\ flow' = flow
    BY <1>10, <2>1 DEF FinishCalls
  <2> QED  BY <1>1, <1>2, <2>2
<1>11. CASE Symbolize
  <2>1. pass' # "aborted" /\ ~Abort
    BY <1>11, SymbolizeLives DEF Abort
  <2>2. /\ pass' = "done"
        /\ flow' = [flow EXCEPT !.blocks =
              [b \in Starts(flow) |->
                 [flow.blocks[b] EXCEPT !.callees =
                     IF flow.blocks[b].type = "CALL"
                     THEN CallSites(flow, flow.blocks[b]) ELSE @]]]
    BY <1>11, <2>1 DEF Symbolize
  <2>3. (flow').postEntry = flow.postEntry
    BY <2>2, CallFacts, SymbolizedFlow
  <2> QED  BY <1>1, <1>2, <2>2, <2>3
<1> QED
  BY <1>3, <1>4, <1>5, <1>6, <1>7, <1>8, <1>9, <1>10, <1>11 DEF Next, Terminated

-----------------------------------------------------------------------------
(* The complete invariant, and the refinement.                             *)

\* The inductive invariant the runs check holds in every state.
THEOREM InvariantHolds == Spec => [](prog \in Programs /\ InductiveInvariant)
<1>1. Spec => [](Shaped /\ CallsEndBlocks)
  BY CallsAlwaysEndBlocks
<1>2. Init => EntryUntouched
  BY InitEntry
<1>3. Shaped /\ Shaped' /\ CallsEndBlocks /\ EntryUntouched /\ [Next]_vars => EntryUntouched'
  BY StepEntry
<1>4. Shaped /\ CallsEndBlocks /\ EntryUntouched => prog \in Programs /\ InductiveInvariant
  BY DEF Shaped, Inv, InductiveInvariant
<1> QED  BY <1>1, <1>2, <1>3, <1>4, PTL DEF Spec

\* The entry marker stays on the function entry, unless the one way back to the entry is a
\* jump (mergeJumpBlocks would merge the entry block into the block of that jump).
THEOREM EntryStays == Spec => [](~LoneEntryJump(prog) => EntryKept)
<1>1. InductiveInvariant => (~LoneEntryJump(prog) => EntryKept)
  BY DEF InductiveInvariant, EntryUntouched, EntryKept
<1> QED  BY <1>1, InvariantHolds, PTL

\* Nor does any assertion of the generator or of Flow fail, with the same exception.
THEOREM AssertionsHold == Spec => [](~LoneEntryJump(prog) => NoAssertionFails)
<1>1. InductiveInvariant => (~LoneEntryJump(prog) => NoAssertionFails)
  BY DEF InductiveInvariant, EntryUntouched
<1> QED  BY <1>1, InvariantHolds, PTL

-----------------------------------------------------------------------------
(* FlowGenerator implements InsnGraph.                                     *)
\* What the steps of the generator that are mapped start from, and end in.
Sound == prog \in Programs /\ ~LoneEntryJump(prog) /\ InductiveInvariant

Exits == {LastAddr(flow.blocks[b]) : b \in flow.preExit}

-----------------------------------------------------------------------------
(* The abstract state is a function of the instructions that are covered.  *)

\* A return is the last instruction of its block.
LEMMA ReturnEndsBlock ==
    ASSUME NEW p \in Programs, NEW f, Fits(p, f),
           NEW b \in Starts(f), NEW a, InBlock(p, f, b, a), p.insn[a].kind = "ret"
    PROVE  a = LastAddr(f.blocks[b])
<1> DEFINE r == f.blocks[b].ranges
<1>1. PICK i \in DOMAIN r : a \in InsnsIn(p, r[i])
  BY DEF InBlock
<1>2. /\ DOMAIN r = 1 .. Len(r) /\ Len(r) \in Nat /\ Straight(p, r[i])
      /\ LastAddr(f.blocks[b]) = r[Len(r)][2]
  BY BlockFacts
<1>3. EndsBlock(p, a)
  BY DEF EndsBlock
<1>4. a = r[i][2]
  BY <1>1, <1>2, <1>3, StraightStep
<1>5. i = Len(r)
  <2>1. SUFFICES ASSUME i # Len(r) PROVE FALSE
    OBVIOUS
  <2>2. i + 1 \in DOMAIN r
    BY <1>2, <2>1
  <2>3. p.insn[r[i][2]].kind = "jump"
    BY <2>2 DEF Fits, BlockFits, Joined
  <2> QED  BY <1>4, <2>3
<1> QED  BY <1>2, <1>4, <1>5

\* Transfers, entry and exits are those of the covered instructions, which in the end are
\* those that can be reached.
ShowsCovered ==
    /\ Arrows(prog, flow) = ProgramArrows(prog, Covered(prog, flow))
    /\ Exits = {a \in Covered(prog, flow) : prog.insn[a].kind = "ret"}
    /\ flow.postEntry = prog.entry
    /\ pass # "trace" => Covered(prog, flow) = Reachable(prog)

\* The flow of a sound state is determined by what it covers.
LEMMA AbstractState == Sound => ShowsCovered
<1> SUFFICES ASSUME Sound PROVE ShowsCovered
  OBVIOUS
<1>1. /\ prog \in Programs /\ flow.postEntry = prog.entry /\ Running
      /\ pass # "trace" => Covered(prog, flow) = Reachable(prog)
  BY DEF Sound, InductiveInvariant, EntryUntouched, NoAssertionFails, Running, Traced,
         BlocksShowInstructions, CoversReachableCode
<1>2. Fits(prog, flow) /\ flow.preExit \subseteq Starts(flow)
  BY <1>1, RunningFits DEF Sound, InductiveInvariant, Inv, BlocksShowInstructions
<1>3. Arrows(prog, flow) = ProgramArrows(prog, Covered(prog, flow))
  BY <1>1, <1>2, FittingArrows
<1>4. ASSUME NEW b \in flow.preExit
      PROVE  LastAddr(flow.blocks[b]) \in {a \in Covered(prog, flow) : prog.insn[a].kind = "ret"}
  <2>1. prog.insn[LastAddr(flow.blocks[b])].kind = "ret"
    BY <1>2 DEF Fits, BlockFits
  <2>2. InBlock(prog, flow, b, LastAddr(flow.blocks[b]))
    BY <1>1, <1>2, InBlockFacts
  <2> QED  BY <1>1, <1>2, <2>1, <2>2, InBlockFacts
<1>5. ASSUME NEW a \in Covered(prog, flow), prog.insn[a].kind = "ret"
      PROVE  \E b \in flow.preExit : LastAddr(flow.blocks[b]) = a
  <2>1. PICK b \in Starts(flow) : InBlock(prog, flow, b, a)
    BY <1>1, <1>2, InBlockFacts
  <2>2. LastAddr(flow.blocks[b]) = a
    BY <1>1, <1>2, <1>5, <2>1, ReturnEndsBlock
  <2>3. b \in flow.preExit
    BY <1>2, <1>5, <2>2 DEF Fits, BlockFits
  <2> QED  BY <2>2, <2>3
<1>6. Exits = {a \in Covered(prog, flow) : prog.insn[a].kind = "ret"}
  BY <1>4, <1>5 DEF Exits
<1> QED  BY <1>1, <1>3, <1>6 DEF ShowsCovered

\* Where a step covers nothing new, before the worklist is done or after it, it is
\* invisible.
LEMMA Invisible ==
    ASSUME Sound, Sound', UNCHANGED prog, Covered(prog, flow') = Covered(prog, flow),
           pass = "trace" <=> pass' = "trace"
    PROVE  UNCHANGED Promise!vars
<1>1. ShowsCovered
  BY AbstractState
<1>2. ShowsCovered'
  BY AbstractState, PTL
<1>3. (pass # "trace") = (pass' # "trace")
  OBVIOUS
<1> QED  BY <1>1, <1>2, <1>3 DEF Promise!vars, ShowsCovered, Exits
-----------------------------------------------------------------------------
(* InsnGraph reads programs as FlowGenerator does.                         *)

\* The operators of Program are the same in both modules.
LEMMA SamePrograms ==
    ASSUME NEW p
    PROVE  /\ Promise!Addresses(p) = Addresses(p)
           /\ \A a : Promise!BlockEnds(p, a) = BlockEnds(p, a)
           /\ \A S : Promise!Min(S) = Min(S)
           /\ \A S : Promise!ProgramArrows(p, S) = ProgramArrows(p, S)
<1>1. Promise!Addresses(p) = Addresses(p)
  BY DEF Promise!Addresses, Addresses
<1>2. \A a : Promise!EndsBlock(p, a) = EndsBlock(p, a)
  BY DEF Promise!EndsBlock, EndsBlock
<1>3. \A a : Promise!BlockEnds(p, a) = BlockEnds(p, a)
  BY <1>1, <1>2 DEF Promise!BlockEnds, BlockEnds
<1>4. \A S : Promise!Min(S) = Min(S)
  BY DEF Promise!Min, Min
<1>5. \A a : Promise!Following(p, a) = Following(p, a)
  BY DEF Promise!Following, Following
<1>6. \A a : Promise!Targets(p, a) = Targets(p, a)
  BY <1>5 DEF Promise!Targets, Targets
<1>7. \A a : Promise!TargetSet(p, a) = TargetSet(p, a)
  BY <1>6 DEF Promise!TargetSet, TargetSet
<1>8. \A a : Promise!GoesTo(p, a) = GoesTo(p, a)
  BY <1>2, <1>5, <1>7 DEF Promise!GoesTo, GoesTo
<1>9. \A S : Promise!ProgramArrows(p, S) = ProgramArrows(p, S)
  BY <1>8 DEF Promise!ProgramArrows, ProgramArrows
<1> QED  BY <1>1, <1>3, <1>4, <1>9

\* Nor is there a difference in what they take for granted.
LEMMA SameAssumption == ASSUME NEW p, WellFormed(p) PROVE Promise!WellFormed(p)
<1>1. \A S : Promise!ClosedCode(p, S) = ClosedCode(p, S)
  BY DEF Promise!ClosedCode, ClosedCode, Promise!BlockEnds, BlockEnds, Promise!Addresses, Addresses,
         Promise!EndsBlock, EndsBlock, Promise!Min, Min, Promise!Following, Following,
         Promise!TargetSet, TargetSet, Promise!Targets, Targets
<1>2. \A S : Promise!IsFiniteSet(S) = IsFiniteSet(S)
  BY DEF Promise!IsFiniteSet, IsFiniteSet
<1>3. \A S : Promise!Cardinality(S) = Cardinality(S)
  BY DEF Promise!Cardinality, Cardinality
<1>4. Promise!Addresses(p) = Addresses(p) /\ Promise!Instruction = Instruction
  BY DEF Promise!Addresses, Addresses, Promise!Instruction, Instruction, Promise!Kinds, Kinds
<1>5. \A a : Promise!Following(p, a) = Following(p, a)
  BY DEF Promise!Following, Following
<1> QED  BY <1>1, <1>2, <1>3, <1>4, <1>5 DEF Promise!WellFormed, WellFormed

-----------------------------------------------------------------------------
(* The initial state and the steps.                                        *)

\* At the start nothing is known.
LEMMA InitPromise == Init => Promise!Init
<1> SUFFICES ASSUME Init PROVE Promise!Init
  OBVIOUS
<1>1. /\ WellFormed(prog) /\ Starts(flow) = {} /\ flow.edges = {} /\ flow.preExit = {}
      /\ flow.postEntry = prog.entry /\ pass = "trace"
  BY ProgramsWellFormed DEF Init, EmptyFlow, Starts
<1>2. Covered(prog, flow) = {} /\ Arrows(prog, flow) = {}
  BY <1>1 DEF Covered, Arrows
<1>3. {LastAddr(flow.blocks[b]) : b \in flow.preExit} = {}
  BY <1>1
<1>4. (pass # "trace") = FALSE
  BY <1>1
<1> QED  BY <1>1, <1>2, <1>3, <1>4, SameAssumption DEF Promise!Init

\* A candidate that is covered starts a run that is covered: in the trace every block goes
\* on to the next instruction that ends one.
LEMMA CoveredRun ==
    ASSUME Sound, pass = "trace", NEW start \in Covered(prog, flow), start \in Code(prog)
    PROVE  InsnsIn(prog, <<start, Min(BlockEnds(prog, start))>>) \subseteq Covered(prog, flow)
<1> DEFINE last == Min(BlockEnds(prog, start))
<1>1. /\ prog \in Programs
      /\ \A b \in Starts(flow) : b \in Code(prog) /\ Traversed(b)
  BY DEF Sound, InductiveInvariant, PiecesExist, StartsDecoded, BlocksShowInstructions,
         TrimmedInOrder
<1>2. PICK b \in Starts(flow) : InBlock(prog, flow, b, start)
  BY DEF Covered, InBlock
<1> DEFINE end == Min(BlockEnds(prog, b))
<1>3. flow.blocks[b].ranges = << <<b, end>> >>
  BY <1>1 DEF Traversed
<1>4. /\ EndsBlock(prog, end) /\ end \in InsnsIn(prog, <<b, end>>)
      /\ Addresses(prog) \in SUBSET Nat /\ start \in Addresses(prog)
      /\ b \in Nat
  BY <1>1, RunIsStraight, ProgramFacts, CodeFacts
<1> HIDE DEF end
<1>5. start \in InsnsIn(prog, <<b, end>>)
  BY <1>2, <1>3 DEF InBlock
<1>6. b <= start /\ start <= end /\ end \in Nat
  BY <1>4, <1>5 DEF InsnsIn
<1>7. end \in BlockEnds(prog, start)
  BY <1>4, <1>6 DEF BlockEnds, InsnsIn
<1>8. last \in Nat /\ last <= end
  <2>1. BlockEnds(prog, start) \in SUBSET Nat
    BY <1>4 DEF BlockEnds
  <2>2. last \in BlockEnds(prog, start) /\ \A x \in BlockEnds(prog, start) : last <= x
    BY <1>7, <2>1, MinOfNaturals
  <2> QED  BY <1>7, <2>1, <2>2
<1> HIDE DEF last
<1>9. ASSUME NEW a \in InsnsIn(prog, <<start, last>>) PROVE a \in Covered(prog, flow)
  <2>1. a \in Addresses(prog) /\ a \in Nat /\ start <= a /\ a <= last /\ start \in Nat
    BY <1>4, <1>9 DEF InsnsIn
  <2>2. b <= a /\ a <= end
    BY <1>4, <1>6, <1>8, <2>1
  <2>3. a \in InsnsIn(prog, <<b, end>>)
    BY <2>1, <2>2 DEF InsnsIn
  <2>4. 1 \in DOMAIN flow.blocks[b].ranges /\ flow.blocks[b].ranges[1] = <<b, end>>
    BY <1>3
  <2> QED  BY <2>3, <2>4 DEF Covered
<1> QED  BY <1>9 DEF last

\* Tracing a candidate that is not covered explores its run.
LEMMA TraceBlockExplores ==
    Sound /\ Sound' /\ TraceBlock => Promise!Explore \/ UNCHANGED Promise!vars
<1> SUFFICES ASSUME Sound, Sound', TraceBlock PROVE Promise!Explore \/ UNCHANGED Promise!vars
  OBVIOUS
<1> DEFINE start == Head(queue)
           last  == Min(BlockEnds(prog, start))
           run   == InsnsIn(prog, <<start, last>>)
           known == Covered(prog, flow)
<1>1. Inv /\ BlocksShowInstructions /\ ShowsCovered
  BY AbstractState DEF Sound, InductiveInvariant, Inv
<1>2. ShowsCovered'
  BY AbstractState, PTL
<1>3. /\ pass = "trace" /\ pass' = "trace" /\ queue # << >>
      /\ start \in Code(prog) /\ UNCHANGED prog
      /\ Queued = {start} \cup {Tail(queue)[i] : i \in DOMAIN Tail(queue)}
  BY <1>1, TraceBlockStep
<1>4. Covered(prog, flow') = known \cup run
  BY <1>1, TraceBlockFits
<1>5. CASE start \in known
  <2>1. run \subseteq known
    BY <1>3, <1>5, CoveredRun
  <2>2. Covered(prog, flow') = known
    BY <1>4, <2>1
  <2> QED  BY <1>3, <2>2, Invisible
<1>6. CASE start \notin known
  <2>1. run = Promise!Run(start)
    BY SamePrograms DEF InsnsIn, Promise!Run
  <2>2. start \in LedTo
    BY <1>1, <1>3 DEF BlocksShowInstructions, CoverageGrows
  <2> HIDE DEF start, run, last
  <2>3. start \in Promise!Frontier
    <3>1. CASE start = prog.entry
      BY <1>6, <3>1 DEF Promise!Frontier
    <3>2. CASE start # prog.entry
      <4>1. PICK a \in known : start \in GoesTo(prog, a)
        BY <2>2, <3>2 DEF LedTo
      <4>2. <<a, start>> \in Arrows(prog, flow)
        BY <1>1, <4>1 DEF ShowsCovered, ProgramArrows
      <4>3. <<a, start>>[2] = start
        OBVIOUS
      <4> QED  BY <1>6, <4>2, <4>3 DEF Promise!Frontier
    <3> QED  BY <3>1, <3>2
  <2>4. Covered(prog', flow') = known \cup run
    BY <1>3, <1>4
  <2>5. Arrows(prog', flow') = Arrows(prog, flow) \cup ProgramArrows(prog, run)
    <3>1. /\ Arrows(prog, flow) = ProgramArrows(prog, known)
          /\ Arrows(prog', flow') = ProgramArrows(prog, known \cup run)
      BY <1>1, <1>2, <1>3, <2>4 DEF ShowsCovered
    <3>2. ProgramArrows(prog, known \cup run) = ProgramArrows(prog, known) \cup ProgramArrows(prog, run)
      BY DEF ProgramArrows
    <3> QED  BY <3>1, <3>2
  <2>6. Exits' = Exits \cup Promise!Returns(run)
    BY <1>1, <1>2, <1>3, <2>4 DEF ShowsCovered, Promise!Returns
  <2>7. (flow').postEntry = flow.postEntry
    BY <1>1, <1>2, <1>3 DEF ShowsCovered
  <2>8. Promise!ProgramArrows(prog, run) = ProgramArrows(prog, run)
    BY SamePrograms
  <2>9. ~(pass # "trace") /\ (pass' # "trace") = (pass # "trace")
    BY <1>3
  <2> HIDE DEF known
  <2>10. Promise!Explore
    BY <1>3, <2>1, <2>3, <2>4, <2>5, <2>6, <2>7, <2>8, <2>9 DEF Promise!Explore, Exits, known
  <2> QED  BY <2>10
<1> QED  BY <1>5, <1>6

\* An empty worklist means that everything control can go to is known.
LEMMA FinishWorklistFinishes == Sound /\ FinishWorklist => Promise!Finish
<1> SUFFICES ASSUME Sound, FinishWorklist PROVE Promise!Finish
  OBVIOUS
<1>1. /\ pass = "trace" /\ queue = << >> /\ pass' = "overlaps" /\ UNCHANGED <<prog, flow>>
  BY DEF FinishWorklist
<1>2. Queued = {}
  BY <1>1 DEF Queued
<1>3. LedTo \subseteq Covered(prog, flow)
  BY <1>1, <1>2 DEF Sound, InductiveInvariant, BlocksShowInstructions, CoverageGrows
<1>4. Arrows(prog, flow) = ProgramArrows(prog, Covered(prog, flow))
  BY AbstractState DEF ShowsCovered
<1>5. Promise!Frontier = {}
  <2>1. \A t \in Arrows(prog, flow) : t[2] \in LedTo
    BY <1>4 DEF ProgramArrows, LedTo
  <2>2. prog.entry \in LedTo
    BY DEF LedTo
  <2> QED  BY <1>3, <2>1, <2>2 DEF Promise!Frontier
<1>6. ~(pass # "trace") /\ (pass' # "trace") = TRUE
  BY <1>1
<1> QED  BY <1>1, <1>5, <1>6 DEF Promise!Finish

\* What is rewritten behind the trace covers what can be reached, before and after.
LEMMA LaterStepsInvisible ==
    ASSUME Sound, Sound', UNCHANGED prog, pass # "trace", pass' # "trace"
    PROVE  UNCHANGED Promise!vars
<1>1. ShowsCovered
  BY AbstractState
<1>2. ShowsCovered'
  BY AbstractState, PTL
<1>3. Covered(prog, flow') = Covered(prog, flow)
  BY <1>1, <1>2 DEF ShowsCovered
<1> QED  BY <1>3, Invisible

\* Every step of the generator is a step of InsnGraph or invisible.
LEMMA StepPromise == Sound /\ Sound' /\ [Next]_vars => [Promise!Next]_(Promise!vars)
<1> SUFFICES ASSUME Sound, Sound', [Next]_vars PROVE Promise!Next \/ UNCHANGED Promise!vars
  OBVIOUS
<1>1. CASE TraceBlock
  BY <1>1, TraceBlockExplores DEF Promise!Next
<1>2. CASE FinishWorklist
  BY <1>2, FinishWorklistFinishes DEF Promise!Next
<1>3. CASE SkipCandidate \/ UNCHANGED vars
  <2>1. UNCHANGED <<prog, pass, flow>>
    BY <1>3 DEF SkipCandidate, vars
  <2> QED  BY <2>1, Invisible
<1>4. CASE \/ KeepBlock \/ TrimOverlap \/ FinishOverlaps \/ MergeBlock \/ FinishMerge
           \/ StartBlock \/ SplitAtCall \/ FinishCalls \/ Symbolize
  <2>1. pass # "trace" /\ pass' # "trace" /\ UNCHANGED prog
    BY <1>4 DEF KeepBlock, TrimOverlap, FinishOverlaps, MergeBlock, FinishMerge, StartBlock,
                SplitAtCall, FinishCalls, Symbolize, Abort
  <2> QED  BY <2>1, LaterStepsInvisible
<1> QED  BY <1>1, <1>2, <1>3, <1>4 DEF Next, Terminated

\* FlowGenerator implements the safety part of InsnGraph: starting at the function entry,
\* runs of instructions become known with their transfers until nothing is left, and from
\* then on no pass changes what the flow shows (the fairness part of InsnSpec is
\* checked by TLC).
THEOREM GeneratorImplementsInsnGraph ==
    ASSUME \A p \in Programs : ~LoneEntryJump(p)
    PROVE  Spec => Promise!Init /\ [][Promise!Next]_(Promise!vars)
<1>1. Spec => []Sound
  <2>1. prog \in Programs /\ InductiveInvariant => Sound
    BY DEF Sound
  <2> QED  BY <2>1, InvariantHolds, PTL
<1>2. Init => Promise!Init
  BY InitPromise
<1>3. Sound /\ Sound' /\ [Next]_vars => [Promise!Next]_(Promise!vars)
  BY StepPromise
<1> QED  BY <1>1, <1>2, <1>3, PTL DEF Spec
-----------------------------------------------------------------------------
(* Chains of ranges.                                                       *)

\* The ranges of a chain and the instructions they are made of.
LEMMA ChainFacts ==
    ASSUME NEW p \in Programs, NEW r, Chain(p, r)
    PROVE  /\ r \in Seq(AddrRange) /\ Len(r) \in Nat \ {0} /\ DOMAIN r = 1 .. Len(r)
           /\ 1 \in DOMAIN r /\ Len(r) \in DOMAIN r
           /\ \A a : a \in Body(p, r) <=> \E i \in DOMAIN r : a \in InsnsIn(p, r[i])
           /\ \A i \in DOMAIN r : /\ r[i][1] \in InsnsIn(p, r[i]) /\ r[i][2] \in InsnsIn(p, r[i])
                                  /\ r[i][1] \in Body(p, r) /\ r[i][2] \in Body(p, r)
           /\ Body(p, r) \subseteq Addresses(p)
<1>1. r \in Seq(AddrRange) /\ r # << >>
  BY DEF Chain
<1>2. Len(r) \in Nat \ {0} /\ DOMAIN r = 1 .. Len(r)
  BY <1>1, EmptySeq, LenProperties
<1>3. 1 \in DOMAIN r /\ Len(r) \in DOMAIN r
  BY <1>2
<1>4. \A a : a \in Body(p, r) <=> \E i \in DOMAIN r : a \in InsnsIn(p, r[i])
  BY DEF Body
<1>5. ASSUME NEW i \in DOMAIN r
      PROVE  r[i][1] \in InsnsIn(p, r[i]) /\ r[i][2] \in InsnsIn(p, r[i])
  <2>1. Straight(p, r[i])
    BY DEF Chain
  <2> QED  BY <2>1, ProgramFacts DEF Straight, InsnsIn
<1>6. Body(p, r) \subseteq Addresses(p)
  BY <1>4 DEF InsnsIn
<1> QED  BY <1>1, <1>2, <1>3, <1>4, <1>5, <1>6

\* The ranges of a block of the generator are a chain: jumps led from one to the next.
LEMMA JoinedIsChain ==
    ASSUME NEW p \in Programs, NEW r \in Seq(AddrRange), Joined(p, r)
    PROVE  Chain(p, r)
<1>1. ASSUME NEW i \in DOMAIN r, i + 1 \in DOMAIN r
      PROVE  GoesTo(p, r[i][2]) = {r[i + 1][1]}
  <2> DEFINE a == r[i][2]
  <2>1. p.insn[a].kind = "jump" /\ p.insn[a].target = r[i + 1][1]
    BY <1>1 DEF Joined
  <2> HIDE DEF a
  <2>2. Targets(p, a) = <<p.insn[a].target>> /\ GoesTo(p, a) = TargetSet(p, a)
    BY <2>1 DEF Targets, GoesTo, EndsBlock
  <2>3. TargetSet(p, a) = {p.insn[a].target}
    BY <2>2 DEF TargetSet
  <2> QED  BY <2>1, <2>2, <2>3 DEF a
<1> QED  BY <1>1 DEF Joined, Chain

\* Control goes through a chain from its first to its last instruction.
LEMMA ChainStep ==
    ASSUME NEW p \in Programs, NEW r, Chain(p, r),
           NEW a \in Body(p, r), a # r[Len(r)][2]
    PROVE  \E s \in Body(p, r) : GoesTo(p, a) = {s}
<1>1. PICK i \in DOMAIN r : a \in InsnsIn(p, r[i])
  BY ChainFacts
<1>2. Straight(p, r[i])
  BY DEF Chain
<1>3. CASE a # r[i][2]
  <2>1. GoesTo(p, a) = {Following(p, a)} /\ Following(p, a) \in InsnsIn(p, r[i])
    BY <1>1, <1>2, <1>3, StraightStep
  <2> QED  BY <2>1, ChainFacts
<1>4. CASE a = r[i][2]
  <2>1. i + 1 \in DOMAIN r
    BY <1>4, ChainFacts
  <2>2. GoesTo(p, a) = {r[i + 1][1]}
    BY <1>4, <2>1 DEF Chain
  <2> QED  BY <2>1, <2>2, ChainFacts
<1> QED  BY <1>3, <1>4

\* Control goes on behind a return or a fork only from the end of a chain.
LEMMA ReturnEndsChain ==
    ASSUME NEW p \in Programs, NEW r, Chain(p, r), NEW a \in Body(p, r), p.insn[a].kind = "ret"
    PROVE  a = r[Len(r)][2]
<1>1. GoesTo(p, a) = {}
  BY ChainFacts, NowhereFromReturns
<1>2. CASE a # r[Len(r)][2]
  <2>1. PICK s \in Body(p, r) : GoesTo(p, a) = {s}
    BY <1>2, ChainStep
  <2> QED  BY <1>1, <2>1
<1> QED  BY <1>2

IsJoin(p, r, q, j) ==
    /\ Chain(p, j)
    /\ \A a : a \in Body(p, j) <=> a \in Body(p, r) \/ a \in Body(p, q)
    /\ j[1][1] = r[1][1] /\ j[Len(j)][2] = q[Len(q)][2]

\* Two chains of which the first leads to the second are one chain.
LEMMA ChainJoin ==
    ASSUME NEW p \in Programs, NEW r, Chain(p, r), NEW q, Chain(p, q),
           GoesTo(p, r[Len(r)][2]) = {q[1][1]}, NEW j, j = r \o q
    PROVE  IsJoin(p, r, q, j)
<1>1. /\ r \in Seq(AddrRange) /\ Len(r) \in Nat \ {0} /\ DOMAIN r = 1 .. Len(r)
      /\ q \in Seq(AddrRange) /\ Len(q) \in Nat \ {0} /\ DOMAIN q = 1 .. Len(q)
  BY ChainFacts
<1>2. /\ j \in Seq(AddrRange) /\ Len(j) = Len(r) + Len(q) /\ DOMAIN j = 1 .. Len(j)
      /\ \A i \in DOMAIN r : j[i] = r[i]
      /\ \A i \in DOMAIN q : j[Len(r) + i] = q[i]
  BY <1>1
<1>3. ASSUME NEW i \in DOMAIN j
      PROVE  \/ i \in DOMAIN r
             \/ \E k \in DOMAIN q : i = Len(r) + k
  <2>1. i \in DOMAIN r \/ (i - Len(r) \in DOMAIN q /\ i = Len(r) + (i - Len(r)))
    BY <1>1, <1>2
  <2> QED  BY <2>1
<1>4. /\ \A i \in DOMAIN r : i \in DOMAIN j
      /\ \A k \in DOMAIN q : Len(r) + k \in DOMAIN j
      /\ j # << >>
  BY <1>1, <1>2
<1>5. ASSUME NEW i \in DOMAIN j PROVE Straight(p, j[i])
  <2>1. CASE i \in DOMAIN r
    BY <1>2, <2>1 DEF Chain
  <2>2. CASE \E k \in DOMAIN q : i = Len(r) + k
    BY <1>2, <2>2 DEF Chain
  <2> QED  BY <1>3, <2>1, <2>2
<1>6. ASSUME NEW i \in DOMAIN j, i + 1 \in DOMAIN j
      PROVE  GoesTo(p, j[i][2]) = {j[i + 1][1]}
  <2>1. CASE i \in DOMAIN r /\ i + 1 \in DOMAIN r
    <3>1. j[i] = r[i] /\ j[i + 1] = r[i + 1] /\ GoesTo(p, r[i][2]) = {r[i + 1][1]}
      BY <1>2, <2>1 DEF Chain
    <3> QED  BY <3>1
  <2>2. CASE i \in DOMAIN r /\ i + 1 \notin DOMAIN r
    <3>1. i = Len(r) /\ i + 1 = Len(r) + 1 /\ 1 \in DOMAIN q
      BY <1>1, <2>2
    <3>2. j[i] = r[i] /\ j[i + 1] = q[1]
      BY <1>2, <2>2, <3>1
    <3> QED  BY <3>1, <3>2
  <2>3. CASE \E k \in DOMAIN q : i = Len(r) + k
    <3>1. PICK k \in DOMAIN q : i = Len(r) + k
      BY <2>3
    <3>2. i + 1 = Len(r) + (k + 1) /\ k + 1 \in DOMAIN q
      <4>1. k \in Nat /\ 1 <= k /\ i + 1 <= Len(r) + Len(q)
        BY <1>1, <1>2, <1>6
      <4> QED  BY <1>1, <3>1, <4>1
    <3>3. j[i] = q[k] /\ j[i + 1] = q[k + 1]
      BY <1>2, <3>1, <3>2
    <3>4. GoesTo(p, q[k][2]) = {q[k + 1][1]}
      BY <3>2 DEF Chain
    <3> QED  BY <3>3, <3>4
  <2> QED  BY <1>3, <2>1, <2>2, <2>3
<1>7. Chain(p, j)
  BY <1>2, <1>4, <1>5, <1>6 DEF Chain
<1>8. ASSUME NEW a PROVE a \in Body(p, j) <=> a \in Body(p, r) \/ a \in Body(p, q)
  <2>1. ASSUME NEW i \in DOMAIN j, a \in InsnsIn(p, j[i])
        PROVE  a \in Body(p, r) \/ a \in Body(p, q)
    <3>1. CASE i \in DOMAIN r
      BY <1>2, <2>1, <3>1 DEF Body
    <3>2. CASE \E k \in DOMAIN q : i = Len(r) + k
      BY <1>2, <2>1, <3>2 DEF Body
    <3> QED  BY <1>3, <3>1, <3>2
  <2>2. ASSUME a \in Body(p, r) PROVE a \in Body(p, j)
    BY <1>2, <1>4, <2>2 DEF Body
  <2>3. ASSUME a \in Body(p, q) PROVE a \in Body(p, j)
    BY <1>2, <1>4, <2>3 DEF Body
  <2> QED  BY <1>7, <2>1, <2>2, <2>3, ChainFacts
<1>9. j[1] = r[1] /\ j[Len(j)] = q[Len(q)]
  BY <1>1, <1>2
<1> QED  BY <1>7, <1>8, <1>9 DEF IsJoin

\* The transfers inside a chain and those of its last instruction are the transfers of
\* its instructions.
LEMMA ChainArrows ==
    ASSUME NEW p \in Programs, NEW r, Chain(p, r)
    PROVE  (UNION {Along(p, r[i]) : i \in DOMAIN r})
           \cup {<<r[i][2], r[i + 1][1]>> : i \in 1 .. Len(r) - 1}
           \cup {<<r[Len(r)][2], s>> : s \in GoesTo(p, r[Len(r)][2])}
             = ProgramArrows(p, Body(p, r))
<1> DEFINE Inner == UNION {Along(p, r[i]) : i \in DOMAIN r}
           Links == {<<r[i][2], r[i + 1][1]>> : i \in 1 .. Len(r) - 1}
           Outer == {<<r[Len(r)][2], s>> : s \in GoesTo(p, r[Len(r)][2])}
<1>1. \A x : x \in ProgramArrows(p, Body(p, r)) <=>
               \E a \in Body(p, r) : \E s \in GoesTo(p, a) : x = <<a, s>>
  BY DEF ProgramArrows
<1>2. \A i \in DOMAIN r : Along(p, r[i]) = ProgramArrows(p, InsnsIn(p, r[i]) \ {r[i][2]})
  BY StraightArrows DEF Chain
<1>3. ASSUME NEW i \in DOMAIN r, NEW x \in Along(p, r[i])
      PROVE  x \in ProgramArrows(p, Body(p, r))
  <2>1. PICK a \in InsnsIn(p, r[i]) : \E s \in GoesTo(p, a) : x = <<a, s>>
    BY <1>2 DEF ProgramArrows
  <2>2. a \in Body(p, r)
    BY ChainFacts
  <2> QED  BY <1>1, <2>1, <2>2
<1>4. ASSUME NEW i \in 1 .. Len(r) - 1
      PROVE  /\ i \in DOMAIN r /\ r[i][2] \in Body(p, r)
             /\ GoesTo(p, r[i][2]) = {r[i + 1][1]}
  <2>1. i \in DOMAIN r /\ i + 1 \in DOMAIN r
    BY ChainFacts
  <2> QED  BY <2>1, ChainFacts DEF Chain
<1>5. ASSUME NEW x \in Links PROVE x \in ProgramArrows(p, Body(p, r))
  <2>1. PICK i \in 1 .. Len(r) - 1 : x = <<r[i][2], r[i + 1][1]>>
    OBVIOUS
  <2> QED  BY <1>1, <1>4, <2>1
<1>6. ASSUME NEW x \in Outer PROVE x \in ProgramArrows(p, Body(p, r))
  <2>1. r[Len(r)][2] \in Body(p, r)
    BY ChainFacts
  <2> QED  BY <1>1, <2>1
<1>7. ASSUME NEW a \in Body(p, r), NEW s \in GoesTo(p, a)
      PROVE  <<a, s>> \in Inner \cup Links \cup Outer
  <2>1. PICK i \in DOMAIN r : a \in InsnsIn(p, r[i])
    BY ChainFacts
  <2>2. CASE a # r[i][2]
    <3>1. <<a, s>> \in ProgramArrows(p, InsnsIn(p, r[i]) \ {r[i][2]})
      BY <2>1, <2>2 DEF ProgramArrows
    <3>2. <<a, s>> \in Along(p, r[i])
      BY <1>2, <3>1
    <3> QED  BY <3>2
  <2>3. CASE a = r[i][2] /\ i # Len(r)
    <3>1. i \in 1 .. Len(r) - 1
      BY <2>3, ChainFacts
    <3>2. s = r[i + 1][1]
      BY <1>4, <2>3, <3>1
    <3>3. <<a, s>> \in Links
      BY <2>3, <3>1, <3>2
    <3> QED  BY <3>3
  <2>4. CASE a = r[i][2] /\ i = Len(r)
    BY <2>4
  <2> QED  BY <2>2, <2>3, <2>4
<1> HIDE DEF Inner, Links, Outer
<1>8. Inner \subseteq ProgramArrows(p, Body(p, r))
  BY <1>3 DEF Inner
<1>9. Inner \cup Links \cup Outer = ProgramArrows(p, Body(p, r))
  BY <1>1, <1>5, <1>6, <1>7, <1>8
<1> QED  BY <1>9 DEF Inner, Links, Outer

-----------------------------------------------------------------------------
(* Nodes and edges.                                                        *)

\* Successors and predecessors, edge by edge.
LEMMA EdgeFacts ==
    ASSUME NEW c, c.edge \subseteq Int \X Int
    PROVE  /\ \A n, m : m \in Succs(c, n) <=> <<n, m>> \in c.edge
           /\ \A n, m : n \in Preds(c, m) <=> <<n, m>> \in c.edge
<1>1. ASSUME NEW n, NEW m PROVE m \in Succs(c, n) <=> <<n, m>> \in c.edge
  <2>1. ASSUME m \in Succs(c, n) PROVE <<n, m>> \in c.edge
    <3>1. PICK e \in c.edge : e[1] = n /\ e[2] = m
      BY <2>1 DEF Succs
    <3>2. e = <<e[1], e[2]>>
      OBVIOUS
    <3> QED  BY <3>1, <3>2
  <2>2. ASSUME <<n, m>> \in c.edge PROVE m \in Succs(c, n)
    <3> DEFINE e == <<n, m>>
    <3>1. e \in c.edge /\ e[1] = n /\ e[2] = m
      BY <2>2
    <3> HIDE DEF e
    <3> QED  BY <3>1 DEF Succs
  <2> QED  BY <2>1, <2>2
<1>2. ASSUME NEW n, NEW m PROVE n \in Preds(c, m) <=> <<n, m>> \in c.edge
  <2>1. ASSUME n \in Preds(c, m) PROVE <<n, m>> \in c.edge
    <3>1. PICK e \in c.edge : e[1] = n /\ e[2] = m
      BY <2>1 DEF Preds
    <3>2. e = <<e[1], e[2]>>
      OBVIOUS
    <3> QED  BY <3>1, <3>2
  <2>2. ASSUME <<n, m>> \in c.edge PROVE n \in Preds(c, m)
    <3> DEFINE e == <<n, m>>
    <3>1. e \in c.edge /\ e[1] = n /\ e[2] = m
      BY <2>2
    <3> HIDE DEF e
    <3> QED  BY <3>1 DEF Preds
  <2> QED  BY <2>1, <2>2
<1> QED  BY <1>1, <1>2

\* The nodes of a graph with all its parts.
LEMMA NodeFacts ==
    ASSUME NEW c, HasParts(c)
    PROVE  /\ c.node \subseteq Int /\ NoExit \notin c.node /\ IsFiniteSet(c.node)
           /\ c.edge \subseteq c.node \X c.node /\ c.entry = EntryId
           /\ \A n, m : m \in Succs(c, n) <=> <<n, m>> \in c.edge
           /\ \A n, m : n \in Preds(c, m) <=> <<n, m>> \in c.edge
           /\ \A n : n \in Callees(c) <=> n \in c.node /\ c.type[n] = "FunctionCall"
           /\ \A n : n \in Blocks(c) <=> /\ n \in c.node /\ n \notin Callees(c)
                                         /\ c.ranges[n] # << >>
           /\ EntryId \in c.node /\ EntryId \notin Blocks(c) /\ EntryId \notin Callees(c)
           /\ c.exit \in c.node \cup {NoExit} /\ c.exit \notin Callees(c) /\ c.exit # EntryId
           /\ \A n \in c.node : \/ n \in Blocks(c) \/ n \in Callees(c)
                                \/ n = EntryId \/ n = c.exit
<1>1. /\ c.node \subseteq Int /\ NoExit \notin c.node /\ IsFiniteSet(c.node)
      /\ c.edge \subseteq c.node \X c.node
      /\ EntryId \in c.node /\ EntryId \notin Blocks(c) /\ EntryId \notin Callees(c)
      /\ c.exit \in c.node \cup {NoExit} /\ c.exit \notin Callees(c) /\ c.exit # EntryId
      /\ \A n \in c.node : n \in Blocks(c) \/ n \in Callees(c) \/ n = EntryId \/ n = c.exit
  BY DEF HasParts
<1>2. c.entry = EntryId
  BY DEF HasParts
<1>3. c.edge \subseteq Int \X Int
  BY <1>1
<1>4. \A n : n \in Callees(c) <=> n \in c.node /\ c.type[n] = "FunctionCall"
  BY DEF Callees
<1>5. \A n : n \in Blocks(c) <=> n \in c.node /\ n \notin Callees(c) /\ c.ranges[n] # << >>
  BY DEF Blocks
<1> QED  BY <1>1, <1>2, <1>3, <1>4, <1>5, EdgeFacts

\* Where control goes from the nodes of a graph that shows the program.
LEMMA ShowsFacts ==
    ASSUME NEW p \in Programs, NEW c, Shows(p, c)
    PROVE  /\ HasParts(c)
           /\ \A n \in Blocks(c) :
                 /\ Chain(p, c.ranges[n]) /\ Body(p, c.ranges[n]) \subseteq Reachable(p)
                 /\ FirstOf(c, n) \in Body(p, c.ranges[n])
                 /\ LastOf(c, n) \in Body(p, c.ranges[n]) /\ LastOf(c, n) \in Addresses(p)
                 /\ LastOf(c, n) = c.ranges[n][Len(c.ranges[n])][2]
                 /\ FirstOf(c, n) = c.ranges[n][1][1]
           /\ \A n \in Blocks(c) : \A a \in Body(p, c.ranges[n]) : a # LastOf(c, n) =>
                 \E s \in Body(p, c.ranges[n]) : GoesTo(p, a) = {s}
           /\ \A n, m \in Blocks(c) : \A a :
                 a \in Body(p, c.ranges[n]) /\ a \in Body(p, c.ranges[m]) => n = m
           /\ \A a \in Reachable(p) : \E n \in Blocks(c) : a \in Body(p, c.ranges[n])
<1>1. HasParts(c) /\ Parted(p, c) /\ \A n \in Blocks(c) : BlockShown(p, c, n)
  BY DEF Shows
<1>2. ASSUME NEW n \in Blocks(c)
      PROVE  /\ Chain(p, c.ranges[n]) /\ Body(p, c.ranges[n]) \subseteq Reachable(p)
             /\ FirstOf(c, n) \in Body(p, c.ranges[n])
             /\ LastOf(c, n) \in Body(p, c.ranges[n]) /\ LastOf(c, n) \in Addresses(p)
  <2>1. Chain(p, c.ranges[n]) /\ Body(p, c.ranges[n]) \subseteq Reachable(p)
    BY <1>1 DEF BlockShown
  <2>2. FirstOf(c, n) \in Body(p, c.ranges[n]) /\ LastOf(c, n) \in Body(p, c.ranges[n])
    BY <2>1, ChainFacts DEF FirstOf, LastOf
  <2> QED  BY <2>1, <2>2, ChainFacts
<1>3. ASSUME NEW n \in Blocks(c), NEW a, a \in Body(p, c.ranges[n]), a # LastOf(c, n)
      PROVE  \E s \in Body(p, c.ranges[n]) : GoesTo(p, a) = {s}
  BY <1>2, <1>3, ChainStep DEF LastOf
<1>4. ASSUME NEW n \in Blocks(c), NEW m \in Blocks(c), NEW a,
             a \in Body(p, c.ranges[n]), a \in Body(p, c.ranges[m])
      PROVE  n = m
  BY <1>1, <1>4 DEF Parted
<1>5. \A a \in Reachable(p) : \E n \in Blocks(c) : a \in Body(p, c.ranges[n])
  BY <1>1 DEF Parted
<1> QED  BY <1>1, <1>2, <1>3, <1>4, <1>5 DEF FirstOf, LastOf

\* A block ends with the only call, or the only return, it may have, and there control
\* goes where its successors start.
LEMMA BlockLeads ==
    ASSUME NEW p \in Programs, NEW c, Shows(p, c), NEW n \in Blocks(c)
    PROVE  LET last == LastOf(c, n)
               kind == p.insn[last].kind
           IN  /\ \A a \in Body(p, c.ranges[n]) : p.insn[a].kind \in {"call", "ret"} => a = last
               /\ kind = "call" =>
                     \E m \in Callees(c) :
                        /\ Succs(c, n) = {m} /\ Preds(c, m) = {n}
                        /\ c.ranges[m] = << <<last, last>> >>
                        /\ LeadTo(p, c, Succs(c, m), last)
               /\ kind = "ret" =>
                     /\ GoesTo(p, last) = {}
                     /\ \/ n = c.exit /\ Succs(c, n) = {}
                        \/ /\ c.exit \in c.node /\ c.exit \notin Blocks(c)
                           /\ Succs(c, n) = {c.exit}
               /\ kind \notin {"call", "ret"} => LeadTo(p, c, Succs(c, n), last)
<1> DEFINE last == LastOf(c, n)
           kind == p.insn[last].kind
<1>1. BlockShown(p, c, n) /\ HasParts(c) /\ Left(p, c)
  BY DEF Shows
<1>2. ASSUME NEW a \in Body(p, c.ranges[n]), p.insn[a].kind \in {"call", "ret"} PROVE a = last
  <2>1. CASE p.insn[a].kind = "call"
    BY <1>1, <2>1 DEF BlockShown
  <2>2. CASE p.insn[a].kind = "ret"
    BY <2>2, ShowsFacts, ReturnEndsChain
  <2> QED  BY <1>2, <2>1, <2>2
<1>3. ASSUME kind = "call"
      PROVE  \E m \in Callees(c) :
                /\ Succs(c, n) = {m} /\ Preds(c, m) = {n}
                /\ c.ranges[m] = << <<last, last>> >>
                /\ LeadTo(p, c, Succs(c, m), last)
  <2>1. PICK m \in Callees(c) : Succs(c, n) = {m}
    BY <1>1, <1>3 DEF BlockShown
  <2>2. PICK k \in Blocks(c) :
            /\ Preds(c, m) = {k} /\ Succs(c, k) = {m}
            /\ c.ranges[m] = << <<LastOf(c, k), LastOf(c, k)>> >>
            /\ LeadTo(p, c, Succs(c, m), LastOf(c, k))
    BY DEF Shows, CallShown
  <2>3. n \in Preds(c, m)
    BY <1>1, <2>1, NodeFacts
  <2>4. k = n
    BY <2>2, <2>3
  <2> QED  BY <2>1, <2>2, <2>4
<1>4. ASSUME kind = "ret"
      PROVE  /\ GoesTo(p, last) = {}
             /\ \/ n = c.exit /\ Succs(c, n) = {}
                \/ c.exit \in c.node /\ c.exit \notin Blocks(c) /\ Succs(c, n) = {c.exit}
  <2>1. GoesTo(p, last) = {}
    BY <1>4, ShowsFacts, NowhereFromReturns
  <2>2. n = c.exit \/ (c.exit \in c.node \ Blocks(c) /\ Succs(c, n) = {c.exit})
    BY <1>1, <1>4 DEF BlockShown
  <2>3. Succs(c, c.exit) = {}
    BY <1>1 DEF Left
  <2> QED  BY <2>1, <2>2, <2>3
<1>5. kind \notin {"call", "ret"} => LeadTo(p, c, Succs(c, n), last)
  BY <1>1 DEF BlockShown
<1> QED  BY <1>2, <1>3, <1>4, <1>5

\* The blocks control goes to behind a block, through a callee or directly.
LEMMA AfterBlock ==
    ASSUME NEW p \in Programs, NEW c, Shows(p, c), NEW n \in Blocks(c)
    PROVE  LeadTo(p, c, After(c, n) \cap Blocks(c), LastOf(c, n))
<1> DEFINE last == LastOf(c, n)
           kind == p.insn[last].kind
<1>1. HasParts(c)
  BY DEF Shows
<1>2. CASE kind = "call"
  <2>1. PICK m \in Callees(c) : Succs(c, n) = {m} /\ LeadTo(p, c, Succs(c, m), last)
    BY <1>2, BlockLeads
  <2>2. After(c, n) = Succs(c, m)
    BY <2>1 DEF After
  <2>3. After(c, n) \cap Blocks(c) = Succs(c, m)
    BY <2>1, <2>2 DEF LeadTo
  <2> QED  BY <2>1, <2>3
<1>3. CASE kind = "ret"
  <2>1. GoesTo(p, last) = {} /\ \A m \in Succs(c, n) : m = c.exit /\ c.exit \notin Blocks(c)
    BY <1>3, BlockLeads
  <2>2. \A m \in Succs(c, n) : m \notin Callees(c) /\ m \notin Blocks(c)
    BY <1>1, <2>1, NodeFacts
  <2>3. After(c, n) = Succs(c, n)
    BY <2>2 DEF After
  <2>4. After(c, n) \cap Blocks(c) = {}
    BY <2>2, <2>3
  <2> QED  BY <2>1, <2>4 DEF LeadTo
<1>4. CASE kind \notin {"call", "ret"}
  <2>1. LeadTo(p, c, Succs(c, n), last)
    BY <1>4, BlockLeads
  <2>2. \A m \in Succs(c, n) : m \in Blocks(c) /\ m \notin Callees(c)
    BY <1>1, <2>1, NodeFacts DEF LeadTo
  <2>3. After(c, n) = Succs(c, n)
    BY <2>2 DEF After
  <2>4. After(c, n) \cap Blocks(c) = Succs(c, n)
    BY <2>2, <2>3
  <2> QED  BY <2>1, <2>4
<1> QED  BY <1>2, <1>3, <1>4

-----------------------------------------------------------------------------
(* What a graph that shows the program says of it.                         *)

\* The transfers the graph shows are those of the reached instructions.
LEMMA ShowsArrows ==
    ASSUME prog \in Programs, NEW c, Shows(prog, c)
    PROVE  ShownArrows(c) = ProgramArrows(prog, Reachable(prog))
<1> DEFINE r(n)      == c.ranges[n]
           Inside(n) == (UNION {Along(prog, r(n)[i]) : i \in DOMAIN r(n)})
                        \cup {<<r(n)[i][2], r(n)[i + 1][1]>> : i \in 1 .. Len(r(n)) - 1}
           Behind(n) == {<<LastOf(c, n), c.ranges[s][1][1]>> : s \in After(c, n) \cap Blocks(c)}
<1>1. ShownArrows(c) = UNION {Inside(n) \cup Behind(n) : n \in Blocks(c)}
  BY DEF ShownArrows
<1>2. ASSUME NEW n \in Blocks(c)
      PROVE  Inside(n) \cup Behind(n) = ProgramArrows(prog, Body(prog, r(n)))
  <2> DEFINE last == LastOf(c, n)
  <2>1. LeadTo(prog, c, After(c, n) \cap Blocks(c), last)
    BY AfterBlock
  <2>2. {c.ranges[s][1][1] : s \in After(c, n) \cap Blocks(c)} = GoesTo(prog, last)
    BY <2>1 DEF LeadTo, FirstOf
  <2>3. Behind(n) = {<<last, s>> : s \in GoesTo(prog, last)}
    <3> HIDE DEF last
    <3>1. Behind(n) = {<<last, s>> : s \in {c.ranges[s][1][1] : s \in After(c, n) \cap Blocks(c)}}
      BY DEF last
    <3> QED  BY <2>2, <3>1
  <2>4. Chain(prog, r(n)) /\ last = r(n)[Len(r(n))][2]
    BY ShowsFacts
  <2>5. Inside(n) \cup {<<last, s>> : s \in GoesTo(prog, last)} = ProgramArrows(prog, Body(prog, r(n)))
    BY <2>4, ChainArrows
  <2> QED  BY <2>3, <2>5
<1> HIDE DEF Inside, Behind
<1>3. \A x : x \in ShownArrows(c) <=>
               \E n \in Blocks(c) : x \in ProgramArrows(prog, Body(prog, r(n)))
  BY <1>1, <1>2
<1>4. \A S, x : x \in ProgramArrows(prog, S) <=>
                  \E a \in S : \E s \in GoesTo(prog, a) : x = <<a, s>>
  BY DEF ProgramArrows
<1>5. ASSUME NEW x \in ShownArrows(c) PROVE x \in ProgramArrows(prog, Reachable(prog))
  <2>1. PICK n \in Blocks(c) : x \in ProgramArrows(prog, Body(prog, r(n)))
    BY <1>3
  <2>2. Body(prog, r(n)) \subseteq Reachable(prog)
    BY ShowsFacts
  <2> QED  BY <1>4, <2>1, <2>2
<1>6. ASSUME NEW x \in ProgramArrows(prog, Reachable(prog)) PROVE x \in ShownArrows(c)
  <2>1. PICK a \in Reachable(prog) : \E s \in GoesTo(prog, a) : x = <<a, s>>
    BY <1>4
  <2>2. PICK n \in Blocks(c) : a \in Body(prog, r(n))
    BY ShowsFacts
  <2> QED  BY <1>3, <1>4, <2>1, <2>2
<1> QED  BY <1>5, <1>6

\* The instructions the graph leaves the function after are the reached returns.
LEMMA ShowsExits ==
    ASSUME prog \in Programs, NEW c, Shows(prog, c)
    PROVE  ShownExits(c) = {a \in Reachable(prog) : prog.insn[a].kind = "ret"}
<1> DEFINE Exiting == IF c.exit \in Blocks(c) THEN {c.exit} ELSE Blocks(c) \cap Preds(c, c.exit)
<1>1. \A a : a \in ShownExits(c) <=> \E n \in Exiting : a = LastOf(c, n)
  BY DEF ShownExits
<1>2. HasParts(c) /\ Left(prog, c)
  BY DEF Shows
<1>3. ASSUME NEW n \in Exiting
      PROVE  n \in Blocks(c) /\ prog.insn[LastOf(c, n)].kind = "ret"
  <2>1. CASE c.exit \in Blocks(c)
    BY <1>2, <2>1 DEF Left
  <2>2. CASE c.exit \notin Blocks(c)
    <3>1. n \in Blocks(c) /\ c.exit \in Succs(c, n) /\ c.exit \notin Callees(c)
      BY <1>2, <2>2, NodeFacts
    <3>2. prog.insn[LastOf(c, n)].kind # "call"
      BY <3>1, BlockLeads
    <3>3. ~LeadTo(prog, c, Succs(c, n), LastOf(c, n))
      BY <2>2, <3>1 DEF LeadTo
    <3> QED  BY <3>1, <3>2, <3>3, BlockLeads
  <2> QED  BY <2>1, <2>2
<1>4. ASSUME NEW a \in Reachable(prog), prog.insn[a].kind = "ret"
      PROVE  \E n \in Exiting : a = LastOf(c, n)
  <2>1. PICK n \in Blocks(c) : a \in Body(prog, c.ranges[n])
    BY ShowsFacts
  <2>2. a = LastOf(c, n)
    BY <1>4, <2>1, BlockLeads
  <2>3. \/ n = c.exit
        \/ c.exit \notin Blocks(c) /\ Succs(c, n) = {c.exit}
    BY <1>4, <2>2, BlockLeads
  <2>4. n \in Exiting
    BY <1>2, <2>1, <2>3, NodeFacts
  <2> QED  BY <2>2, <2>4
<1>5. ASSUME NEW a \in ShownExits(c)
      PROVE  a \in Reachable(prog) /\ prog.insn[a].kind = "ret"
  <2>1. PICK n \in Exiting : a = LastOf(c, n)
    BY <1>1
  <2> QED  BY <1>3, <2>1, ShowsFacts
<1> HIDE DEF Exiting
<1> QED  BY <1>1, <1>4, <1>5

\* The export, each contraction and the pruning keep the control flow.
LEMMA ShowsFlow ==
    ASSUME prog \in Programs, Shows(prog, cfg)
    PROVE  ShowsControlFlow
<1>1. ShownArrows(cfg) = ProgramArrows(prog, Reachable(prog))
  BY ShowsArrows
<1>2. {cfg.ranges[n][1][1] : n \in Succs(cfg, cfg.entry)} = {prog.entry}
  <2>1. cfg.entry = EntryId /\ Entered(prog, cfg)
    BY NodeFacts DEF Shows
  <2>2. PICK b \in Blocks(cfg) : Succs(cfg, cfg.entry) = {b} /\ FirstOf(cfg, b) = prog.entry
    BY <2>1 DEF Entered
  <2> QED  BY <2>2 DEF FirstOf
<1>3. ShownExits(cfg) = {a \in Reachable(prog) : prog.insn[a].kind = "ret"}
  BY ShowsExits
<1>4. ASSUME NEW a \in Reachable(prog)
      PROVE  \E n \in Blocks(cfg) : \A m \in Blocks(cfg) :
                (\E i \in DOMAIN cfg.ranges[m] : a \in InsnsIn(prog, cfg.ranges[m][i])) => m = n
  <2>1. PICK n \in Blocks(cfg) : a \in Body(prog, cfg.ranges[n])
    BY ShowsFacts
  <2>2. ASSUME NEW m \in Blocks(cfg),
               \E i \in DOMAIN cfg.ranges[m] : a \in InsnsIn(prog, cfg.ranges[m][i])
        PROVE  m = n
    <3>1. a \in Body(prog, cfg.ranges[m])
      BY <2>2 DEF Body
    <3> QED  BY <2>1, <3>1, ShowsFacts
  <2> QED  BY <2>2
<1> QED  BY <1>1, <1>2, <1>3, <1>4 DEF ShowsControlFlow

\* Every call that is reached has its callee.
LEMMA ShowsCallees ==
    ASSUME prog \in Programs, Shows(prog, cfg)
    PROVE  CalleesIntact
<1> DEFINE Calls == {b \in Reachable(prog) : prog.insn[b].kind = "call"}
<1>1. ASSUME NEW m \in Callees(cfg)
      PROVE  \E n \in Blocks(cfg) :
                /\ Preds(cfg, m) = {n} /\ Succs(cfg, n) = {m}
                /\ LastOf(cfg, n) \in Calls
                /\ cfg.ranges[m] = << <<LastOf(cfg, n), LastOf(cfg, n)>> >>
                /\ LastOf(cfg, n) = LastOf(cfg, m)
  <2>1. PICK n \in Blocks(cfg) :
            /\ Preds(cfg, m) = {n} /\ Succs(cfg, n) = {m}
            /\ prog.insn[LastOf(cfg, n)].kind = "call"
            /\ cfg.ranges[m] = << <<LastOf(cfg, n), LastOf(cfg, n)>> >>
    BY DEF Shows, CallShown
  <2>2. LastOf(cfg, n) \in Reachable(prog)
    BY ShowsFacts
  <2>3. LastOf(cfg, m) = LastOf(cfg, n)
    BY <2>1 DEF LastOf
  <2> QED  BY <2>1, <2>2, <2>3
<1>2. ASSUME NEW a \in Calls
      PROVE  \E m \in Callees(cfg) : cfg.ranges[m] = << <<a, a>> >>
  <2>1. PICK n \in Blocks(cfg) : a \in Body(prog, cfg.ranges[n])
    BY ShowsFacts
  <2>2. a = LastOf(cfg, n)
    BY <2>1, BlockLeads
  <2> QED  BY <2>2, BlockLeads
<1> HIDE DEF Calls
<1>3. {cfg.ranges[n] : n \in Callees(cfg)} = {<< <<a, a>> >> : a \in Calls}
  BY <1>1, <1>2
<1> QED  BY <1>1, <1>3 DEF CalleesIntact, Calls

-----------------------------------------------------------------------------
(* What is reached from the entry.                                         *)

\* K holds the entry and whatever its nodes lead to.
HoldsSuccs(c, K) == EntryId \in K /\ \A n \in K : Succs(c, n) \subseteq K

\* Whatever holds the entry and the successors of its nodes holds every block, every callee
\* and, if the function can return, the exit.
LEMMA AllReached ==
    ASSUME NEW p \in Programs, NEW c, Shows(p, c), NEW K, HoldsSuccs(c, K)
    PROVE  /\ Blocks(c) \subseteq K /\ Callees(c) \subseteq K
           /\ ~NeverReturns(p) => c.exit \in c.node /\ c.exit \in K
<1> DEFINE T == {a \in Reachable(p) : \E n \in Blocks(c) : n \in K /\ a \in Body(p, c.ranges[n])}
<1>0. HasParts(c)
  BY DEF Shows
<1>1. p.entry \in T
  <2>1. PICK b \in Blocks(c) : Succs(c, EntryId) = {b} /\ FirstOf(c, b) = p.entry
    BY DEF Shows, Entered
  <2>2. b \in K
    BY <2>1 DEF HoldsSuccs
  <2>3. p.entry \in Body(p, c.ranges[b]) /\ p.entry \in Reachable(p)
    BY <2>1, ShowsFacts, ReachableCodeFacts
  <2> QED  BY <2>2, <2>3
<1>2. ASSUME NEW a \in T, NEW s \in GoesTo(p, a) PROVE s \in T
  <2>1. PICK n \in Blocks(c) : n \in K /\ a \in Body(p, c.ranges[n])
    OBVIOUS
  <2>2. s \in Reachable(p)
    BY ReachableCodeFacts
  <2>3. CASE a # LastOf(c, n)
    <3>1. s \in Body(p, c.ranges[n])
      BY <2>1, <2>3, ShowsFacts
    <3> QED  BY <2>1, <2>2, <3>1
  <2>4. CASE a = LastOf(c, n)
    <3>1. LeadTo(p, c, After(c, n) \cap Blocks(c), a)
      BY <2>4, AfterBlock
    <3>2. PICK m \in After(c, n) \cap Blocks(c) : FirstOf(c, m) = s
      BY <3>1 DEF LeadTo
    <3>3. m \in K
      <4>1. \/ m \in Succs(c, n)
            \/ \E k \in Succs(c, n) : m \in Succs(c, k)
        BY <3>2 DEF After
      <4> QED  BY <2>1, <4>1 DEF HoldsSuccs
    <3>4. s \in Body(p, c.ranges[m])
      BY <3>2, ShowsFacts
    <3> QED  BY <2>2, <3>2, <3>3, <3>4
  <2> QED  BY <2>3, <2>4
<1> HIDE DEF T
<1>3. Reachable(p) \subseteq T
  <2>1. \A a \in T : GoesTo(p, a) \subseteq T
    BY <1>2
  <2> QED  BY <1>1, <2>1, ReachableCodeFacts
<1>4. ASSUME NEW n \in Blocks(c) PROVE n \in K
  <2>1. FirstOf(c, n) \in Body(p, c.ranges[n]) /\ FirstOf(c, n) \in Reachable(p)
    BY ShowsFacts
  <2>2. PICK m \in Blocks(c) : m \in K /\ FirstOf(c, n) \in Body(p, c.ranges[m])
    BY <1>3, <2>1 DEF T
  <2> QED  BY <2>1, <2>2, ShowsFacts
<1>5. ASSUME NEW m \in Callees(c) PROVE m \in K
  <2>1. PICK n \in Blocks(c) : Succs(c, n) = {m}
    BY DEF Shows, CallShown
  <2> QED  BY <1>4, <2>1 DEF HoldsSuccs
<1>6. ASSUME ~NeverReturns(p) PROVE c.exit \in c.node /\ c.exit \in K
  <2>1. PICK a \in Reachable(p) : p.insn[a].kind = "ret"
    BY <1>6 DEF NeverReturns
  <2>2. PICK n \in Blocks(c) : a \in Body(p, c.ranges[n])
    BY ShowsFacts
  <2>3. a = LastOf(c, n)
    BY <2>1, <2>2, BlockLeads
  <2>4. n = c.exit \/ (c.exit \in c.node /\ Succs(c, n) = {c.exit})
    BY <2>1, <2>3, BlockLeads
  <2> QED  BY <1>0, <1>4, <2>4, NodeFacts DEF HoldsSuccs
<1> QED  BY <1>4, <1>5, <1>6

\* If the function never returns nothing leads to the exit, and no block is the exit.
LEMMA ExitUnreached ==
    ASSUME NEW p \in Programs, NEW c, Shows(p, c), NeverReturns(p)
    PROVE  c.exit \notin Blocks(c) /\ \A n \in c.node : c.exit \notin Succs(c, n)
<1>1. HasParts(c) /\ Left(p, c) /\ Entered(p, c)
  BY DEF Shows
<1>2. \A n \in Blocks(c) : p.insn[LastOf(c, n)].kind # "ret"
  BY ShowsFacts DEF NeverReturns
<1>3. c.exit \notin Blocks(c)
  BY <1>1, <1>2 DEF Left
<1>4. ASSUME NEW n \in Blocks(c) PROVE c.exit \notin Succs(c, n)
  <2>1. CASE p.insn[LastOf(c, n)].kind = "call"
    BY <1>1, <2>1, BlockLeads, NodeFacts
  <2>2. CASE p.insn[LastOf(c, n)].kind # "call"
    <3>1. LeadTo(p, c, Succs(c, n), LastOf(c, n))
      BY <1>2, <2>2, BlockLeads
    <3> QED  BY <1>3, <3>1 DEF LeadTo
  <2> QED  BY <2>1, <2>2
<1>5. ASSUME NEW m \in Callees(c) PROVE c.exit \notin Succs(c, m)
  BY <1>3 DEF Shows, CallShown, LeadTo
<1>6. c.exit \notin Succs(c, EntryId) /\ c.exit \notin Succs(c, c.exit)
  BY <1>1, <1>3 DEF Entered, Left
<1> QED  BY <1>1, <1>3, <1>4, <1>5, <1>6, NodeFacts

-----------------------------------------------------------------------------
(* One contraction.                                                        *)

\* A straight edge leaves a block that does not lead back to itself, and goes to a block
\* or to the exit.
LEMMA StraightFacts ==
    ASSUME NEW p \in Programs, NEW c, Shows(p, c), NEW u, NEW v, <<u, v>> \in Mergeable(c)
    PROVE  /\ <<u, v>> \in c.edge /\ Succs(c, u) = {v} /\ Preds(c, v) = {u}
           /\ u \in Blocks(c) /\ u # c.exit /\ u # v
           /\ v \in c.node /\ v \notin Callees(c) /\ v # EntryId
           /\ \/ /\ v \in Blocks(c) /\ GoesTo(p, LastOf(c, u)) = {FirstOf(c, v)}
                 /\ p.insn[LastOf(c, u)].kind \notin {"call", "ret"}
              \/ /\ v = c.exit /\ v \notin Blocks(c) /\ c.ranges[v] = << >>
                 /\ p.insn[LastOf(c, u)].kind = "ret"
<1>1. HasParts(c) /\ Left(p, c) /\ Entered(p, c)
  BY DEF Shows
<1>2. /\ <<u, v>> \in c.edge /\ Succs(c, u) = {v} /\ Preds(c, v) = {u}
      /\ c.type[u] # "FunctionCall" /\ c.type[v] # "FunctionCall" /\ u # c.entry
  <2> DEFINE e == <<u, v>>
  <2>1. e \in Mergeable(c) /\ e[1] = u /\ e[2] = v
    OBVIOUS
  <2> HIDE DEF e
  <2>2. /\ e \in c.edge /\ Succs(c, e[1]) = {e[2]} /\ Preds(c, e[2]) = {e[1]}
        /\ c.type[e[1]] # "FunctionCall" /\ c.type[e[2]] # "FunctionCall" /\ e[1] # c.entry
    BY <2>1 DEF Mergeable, StraightEdges
  <2> QED  BY <2>1, <2>2 DEF e
<1>3. u \in c.node /\ v \in c.node /\ u # EntryId /\ u \notin Callees(c) /\ v \notin Callees(c)
  BY <1>1, <1>2, NodeFacts
<1>4. u # c.exit
  BY <1>1, <1>2 DEF Left
<1>5. u \in Blocks(c)
  BY <1>1, <1>3, <1>4, NodeFacts
<1>6. v # EntryId
  BY <1>1, <1>2 DEF Entered
<1>7. u # v
  <2>1. SUFFICES ASSUME u = v PROVE FALSE
    OBVIOUS
  <2> DEFINE K == c.node \ {u}
  <2>2. EntryId \in K
    BY <1>1, <1>6, <2>1, NodeFacts
  <2>3. ASSUME NEW n \in K, NEW m \in Succs(c, n) PROVE m \in K
    <3>1. <<n, m>> \in c.edge
      BY <1>1, <2>3, NodeFacts
    <3>2. n \in Preds(c, m) /\ m \in c.node
      BY <1>1, <3>1, NodeFacts
    <3> QED  BY <1>2, <2>1, <3>2
  <2>4. HoldsSuccs(c, K)
    BY <2>2, <2>3 DEF HoldsSuccs
  <2>5. Blocks(c) \subseteq K
    BY <2>4, AllReached
  <2> QED  BY <1>5, <2>5
<1>8. p.insn[LastOf(c, u)].kind # "call"
  BY <1>2, <1>3, <1>5, BlockLeads
<1>9. CASE p.insn[LastOf(c, u)].kind = "ret"
  <2>1. v = c.exit /\ v \notin Blocks(c)
    BY <1>2, <1>4, <1>5, <1>9, BlockLeads
  <2>2. c.ranges[v] = << >>
    BY <1>1, <1>3, <2>1, NodeFacts
  <2> QED  BY <1>2, <1>3, <1>4, <1>5, <1>6, <1>7, <1>9, <2>1, <2>2
<1>10. CASE p.insn[LastOf(c, u)].kind # "ret"
  <2>1. LeadTo(p, c, Succs(c, u), LastOf(c, u))
    BY <1>5, <1>8, <1>10, BlockLeads
  <2>2. v \in Blocks(c) /\ GoesTo(p, LastOf(c, u)) = {FirstOf(c, v)}
    BY <1>2, <2>1 DEF LeadTo
  <2> QED  BY <1>2, <1>3, <1>4, <1>5, <1>6, <1>7, <1>8, <1>10, <2>2
<1> QED  BY <1>9, <1>10

\* What d, a contraction of u and v in c, has in common with c.
IsContraction(c, d, u, v) ==
    /\ HasParts(d)
    /\ d.node = c.node \ {v} /\ Blocks(d) = Blocks(c) \ {v} /\ Callees(d) = Callees(c)
    /\ d.exit = IF c.exit = v THEN u ELSE c.exit
    /\ d.ranges[u] = c.ranges[u] \o c.ranges[v] /\ Succs(d, u) = Succs(c, v)
    /\ \A n \in d.node \ {u} :
          /\ d.ranges[n] = c.ranges[n]
          /\ Succs(d, n) = Succs(c, n) /\ v \notin Succs(c, n)
    /\ \A n \in d.node : \A k : k \in Preds(d, n) <=>
          \/ k \in Preds(c, n) /\ k # v
          \/ k = u /\ v \in Preds(c, n)
    /\ v \notin Succs(c, v)

\* _merge_blocks makes such a graph of a straight edge.
LEMMA MergedIsContraction ==
    ASSUME NEW p \in Programs, NEW c, Shows(p, c), NEW u, NEW v, <<u, v>> \in Mergeable(c)
    PROVE  IsContraction(c, Merged(c, u, v), u, v)
<1> DEFINE d    == Merged(c, u, v)
           more == {<<u, s>> : s \in Succs(c, v)}
<1>1. HasParts(c)
  BY DEF Shows
<1>2. /\ DOMAIN d = {"node", "edge", "entry", "exit", "type", "ranges"} /\ d.entry = c.entry
      /\ d.node = c.node \ {v}
      /\ d.edge = {e \in c.edge : v \notin {e[1], e[2]}} \cup more
      /\ d.exit = IF c.exit = v THEN u ELSE c.exit
      /\ d.type = [n \in d.node |-> IF n = u /\ c.exit = v THEN "Exit" ELSE c.type[n]]
      /\ d.ranges = [n \in d.node |-> IF n = u THEN c.ranges[u] \o c.ranges[v] ELSE c.ranges[n]]
  BY DEF Merged, MovedExit
<1>3. /\ <<u, v>> \in c.edge /\ Succs(c, u) = {v} /\ Preds(c, v) = {u}
      /\ u \in Blocks(c) /\ u # c.exit /\ u # v
      /\ v \in c.node /\ v \notin Callees(c) /\ v # EntryId
  BY StraightFacts
<1>4. /\ c.node \subseteq Int /\ NoExit \notin c.node /\ IsFiniteSet(c.node)
      /\ c.edge \subseteq c.node \X c.node /\ c.entry = EntryId
      /\ \A n, m : m \in Succs(c, n) <=> <<n, m>> \in c.edge
      /\ \A n, m : n \in Preds(c, m) <=> <<n, m>> \in c.edge
  BY <1>1, NodeFacts
<1>5. u \in c.node /\ u # EntryId /\ u \notin Callees(c)
  BY <1>1, <1>3, NodeFacts
<1> HIDE DEF d
<1>6. ASSUME NEW x, NEW y
      PROVE  <<x, y>> \in d.edge <=> \/ <<x, y>> \in c.edge /\ x # v /\ y # v
                                     \/ x = u /\ <<v, y>> \in c.edge
  <2>1. <<x, y>> \in {e \in c.edge : v \notin {e[1], e[2]}} <=>
          <<x, y>> \in c.edge /\ x # v /\ y # v
    OBVIOUS
  <2>2. <<x, y>> \in more <=> x = u /\ y \in Succs(c, v)
    OBVIOUS
  <2> HIDE DEF more
  <2> QED  BY <1>2, <1>4, <2>1, <2>2
<1>7. d.edge \subseteq d.node \X d.node
  <2>1. ASSUME NEW e \in d.edge PROVE e \in d.node \X d.node
    <3>1. CASE e \in more
      <4>1. PICK s \in Succs(c, v) : e = <<u, s>>
        BY <3>1
      <4>2. <<v, s>> \in c.edge
        BY <1>4
      <4>3. s \in c.node /\ s # v
        BY <1>3, <1>4, <4>2
      <4> QED  BY <1>2, <1>3, <1>5, <4>1, <4>3
    <3>2. CASE e \in c.edge /\ v \notin {e[1], e[2]}
      BY <1>2, <1>4, <3>2
    <3> QED  BY <1>2, <3>1, <3>2
  <2> QED  BY <2>1
<1>8. d.node \subseteq Int \ {NoExit} /\ IsFiniteSet(d.node) /\ u \in d.node
  <2>1. IsFiniteSet(c.node \ {v})
    BY <1>4, FS_RemoveElement
  <2> QED  BY <1>2, <1>3, <1>4, <1>5, <2>1
<1>9. ASSUME NEW n PROVE n \in Callees(d) <=> n \in Callees(c)
  <2>1. n \in Callees(d) <=> n \in d.node /\ d.type[n] = "FunctionCall"
    BY DEF Callees
  <2>2. n \in Callees(c) <=> n \in c.node /\ c.type[n] = "FunctionCall"
    BY DEF Callees
  <2> QED  BY <1>2, <1>3, <1>5, <2>1, <2>2
<1>10. ASSUME NEW n PROVE n \in Blocks(d) <=> n \in Blocks(c) /\ n # v
  <2>1. n \in Blocks(d) <=> n \in d.node /\ n \notin Callees(d) /\ d.ranges[n] # << >>
    BY DEF Blocks
  <2>2. n \in Blocks(c) <=> n \in c.node /\ n \notin Callees(c) /\ c.ranges[n] # << >>
    BY DEF Blocks
  <2>3. CASE n # u
    BY <1>2, <1>9, <2>1, <2>2, <2>3
  <2>4. CASE n = u
    <3>1. c.ranges[u] \in Seq(AddrRange) /\ c.ranges[u] # << >>
      BY <1>3, ShowsFacts DEF Chain
    <3>2. c.ranges[v] \in Seq(AddrRange)
      <4>1. CASE v \in Blocks(c)
        BY <4>1, ShowsFacts DEF Chain
      <4>2. CASE v \notin Blocks(c)
        <5>1. c.ranges[v] = << >>
          BY <4>2, StraightFacts
        <5> QED  BY <5>1, EmptySeq
      <4> QED  BY <4>1, <4>2
    <3>3. c.ranges[u] \o c.ranges[v] # << >>
      <4> DEFINE r == c.ranges[u]
                 q == c.ranges[v]
      <4>1. r \in Seq(AddrRange) /\ q \in Seq(AddrRange) /\ Len(r) # 0
        BY <3>1, <3>2, EmptySeq
      <4> HIDE DEF r, q
      <4>2. Len(r) \in Nat /\ Len(q) \in Nat /\ Len(r \o q) = Len(r) + Len(q)
        BY <4>1
      <4>3. Len(r \o q) # 0
        BY <4>1, <4>2
      <4>4. r \o q # << >>
        BY <4>3, EmptySeq
      <4> QED  BY <4>4 DEF r, q
    <3>4. d.ranges[u] # << >>
      BY <1>2, <1>8, <3>3
    <3> QED  BY <1>3, <1>5, <1>8, <1>9, <2>1, <2>4, <3>4
  <2> QED  BY <2>3, <2>4
<1>11. HasParts(d)
  <2>1. /\ DOMAIN d = {"node", "edge", "entry", "exit", "type", "ranges"} /\ d.entry = EntryId
        /\ DOMAIN d.type = d.node /\ DOMAIN d.ranges = d.node
    BY <1>2, <1>4
  <2>2. EntryId \in d.node \ (Blocks(d) \cup Callees(d))
    BY <1>1, <1>2, <1>3, <1>9, <1>10, NodeFacts
  <2>3. d.exit \in (d.node \cup {NoExit}) \ (Callees(d) \cup {EntryId})
    <3>1. c.exit \in c.node \cup {NoExit} /\ c.exit \notin Callees(c) /\ c.exit # EntryId
      BY <1>1, NodeFacts
    <3> QED  BY <1>2, <1>5, <1>8, <1>9, <3>1
  <2>4. d.node \subseteq Blocks(d) \cup Callees(d) \cup {EntryId, d.exit}
    <3>1. \A n \in c.node : n \in Blocks(c) \/ n \in Callees(c) \/ n = EntryId \/ n = c.exit
      BY <1>1, NodeFacts
    <3> QED  BY <1>2, <1>9, <1>10, <3>1
  <2> QED  BY <1>7, <1>8, <2>1, <2>2, <2>3, <2>4 DEF HasParts
<1>12. /\ \A n, m : m \in Succs(d, n) <=> <<n, m>> \in d.edge
       /\ \A n, m : n \in Preds(d, m) <=> <<n, m>> \in d.edge
  BY <1>11, NodeFacts
<1>13. /\ v \notin Succs(c, v)
       /\ \A n \in d.node \ {u} : v \notin Succs(c, n)
  BY <1>3, <1>4
<1>14. ASSUME NEW m PROVE m \in Succs(d, u) <=> m \in Succs(c, v)
  <2>1. <<u, m>> \in c.edge => m = v
    BY <1>3, <1>4
  <2> QED  BY <1>4, <1>6, <1>12, <2>1
<1>15. ASSUME NEW n \in d.node \ {u}, NEW m
       PROVE  m \in Succs(d, n) <=> m \in Succs(c, n)
  BY <1>2, <1>4, <1>6, <1>12, <1>13
<1>16. ASSUME NEW n \in d.node, NEW k
       PROVE  k \in Preds(d, n) <=> \/ k \in Preds(c, n) /\ k # v
                                    \/ k = u /\ v \in Preds(c, n)
  BY <1>2, <1>4, <1>6, <1>12
<1>17. /\ d.ranges[u] = c.ranges[u] \o c.ranges[v]
       /\ \A n \in d.node \ {u} : d.ranges[n] = c.ranges[n]
  BY <1>2, <1>8
<1>18. /\ Blocks(d) = Blocks(c) \ {v} /\ Callees(d) = Callees(c)
       /\ Succs(d, u) = Succs(c, v)
       /\ \A n \in d.node \ {u} : Succs(d, n) = Succs(c, n)
  BY <1>9, <1>10, <1>14, <1>15
<1>19. IsContraction(c, d, u, v)
  BY <1>2, <1>11, <1>13, <1>16, <1>17, <1>18 DEF IsContraction
<1> QED  BY <1>19 DEF d

\* Contraction keeps what the graph shows.
LEMMA ContractionShows ==
    ASSUME NEW p \in Programs, NEW c, Shows(p, c), NEW u, NEW v, <<u, v>> \in Mergeable(c),
           NEW d, IsContraction(c, d, u, v)
    PROVE  Shows(p, d)
<1> DEFINE last(n) == LastOf(c, n)
<1>1. HasParts(c) /\ Left(p, c) /\ Entered(p, c) /\ Parted(p, c)
  BY DEF Shows
<1>2. /\ HasParts(d)
      /\ d.node = c.node \ {v} /\ Blocks(d) = Blocks(c) \ {v} /\ Callees(d) = Callees(c)
      /\ d.exit = IF c.exit = v THEN u ELSE c.exit
      /\ d.ranges[u] = c.ranges[u] \o c.ranges[v] /\ Succs(d, u) = Succs(c, v)
      /\ v \notin Succs(c, v)
  BY DEF IsContraction
<1>3. ASSUME NEW n \in d.node, n # u
      PROVE  /\ d.ranges[n] = c.ranges[n] /\ Succs(d, n) = Succs(c, n)
             /\ v \notin Succs(c, n)
  BY <1>3 DEF IsContraction
<1>4. ASSUME NEW n \in d.node
      PROVE  \A k : k \in Preds(d, n) <=> \/ k \in Preds(c, n) /\ k # v
                                          \/ k = u /\ v \in Preds(c, n)
  BY DEF IsContraction
<1>5. /\ <<u, v>> \in c.edge /\ Succs(c, u) = {v} /\ Preds(c, v) = {u}
      /\ u \in Blocks(c) /\ u # c.exit /\ u # v
      /\ v \in c.node /\ v \notin Callees(c) /\ v # EntryId
      /\ \/ /\ v \in Blocks(c) /\ GoesTo(p, last(u)) = {FirstOf(c, v)}
            /\ p.insn[last(u)].kind \notin {"call", "ret"}
         \/ /\ v = c.exit /\ v \notin Blocks(c) /\ c.ranges[v] = << >>
            /\ p.insn[last(u)].kind = "ret"
  BY StraightFacts
<1>6. /\ u \in Blocks(d) /\ u \in d.node /\ u # EntryId /\ EntryId \in d.node
      /\ \A n \in Blocks(d) : n \in d.node /\ n \in Blocks(c)
      /\ \A m \in Callees(d) : m \in d.node /\ m # u /\ m # v
  BY <1>1, <1>2, <1>5, NodeFacts
\* The chain of u is that of u and v.
<1>7. /\ Chain(p, d.ranges[u]) /\ FirstOf(d, u) = FirstOf(c, u)
      /\ \A a : a \in Body(p, d.ranges[u]) <=>
                  \/ a \in Body(p, c.ranges[u])
                  \/ v \in Blocks(c) /\ a \in Body(p, c.ranges[v])
      /\ LastOf(d, u) = IF v \in Blocks(c) THEN last(v) ELSE last(u)
  <2>1. CASE v \in Blocks(c)
    <3> DEFINE r == c.ranges[u]
               q == c.ranges[v]
    <3>1. Chain(p, r) /\ Chain(p, q) /\ GoesTo(p, r[Len(r)][2]) = {q[1][1]}
      BY <1>5, <2>1, ShowsFacts
    <3>2. d.ranges[u] = r \o q
      BY <1>2
    <3> DEFINE j == d.ranges[u]
    <3> HIDE DEF r, q, j
    <3>3. /\ Chain(p, j)
          /\ \A a : a \in Body(p, j) <=> a \in Body(p, r) \/ a \in Body(p, q)
          /\ j[1][1] = r[1][1]
          /\ j[Len(j)][2] = q[Len(q)][2]
      <4>1. j = r \o q
        BY <3>2 DEF r, q, j
      <4>2. IsJoin(p, r, q, j)
        BY <3>1, <4>1, ChainJoin
      <4> QED  BY <4>2 DEF IsJoin
    <3> QED  BY <2>1, <3>3 DEF FirstOf, LastOf, r, q, j
  <2>2. CASE v \notin Blocks(c)
    <3>1. c.ranges[u] \in Seq(AddrRange) /\ c.ranges[v] = << >>
      BY <1>5, <2>2, ShowsFacts DEF Chain
    <3>2. c.ranges[u] \o << >> = c.ranges[u]
      BY <3>1
    <3>3. d.ranges[u] = c.ranges[u]
      BY <1>2, <3>1, <3>2
    <3> QED  BY <1>5, <2>2, <3>3, ShowsFacts DEF FirstOf, LastOf
  <2> QED  BY <2>1, <2>2
<1>8. ASSUME NEW n \in Blocks(d), n # u
      PROVE  /\ d.ranges[n] = c.ranges[n] /\ LastOf(d, n) = last(n)
             /\ FirstOf(d, n) = FirstOf(c, n)
  BY <1>3, <1>6, <1>8 DEF FirstOf, LastOf
<1>9. \A n \in Blocks(d) : FirstOf(d, n) = FirstOf(c, n)
  BY <1>7, <1>8
<1>10. ASSUME NEW S, NEW a, LeadTo(p, c, S, a), v \notin S PROVE LeadTo(p, d, S, a)
  <2>1. S \subseteq Blocks(d)
    BY <1>2, <1>10 DEF LeadTo
  <2>2. {FirstOf(d, s) : s \in S} = {FirstOf(c, s) : s \in S}
    BY <1>9, <2>1
  <2> QED  BY <1>10, <2>1, <2>2 DEF LeadTo
<1>11. Entered(p, d)
  <2>1. PICK b \in Blocks(c) : Succs(c, EntryId) = {b} /\ FirstOf(c, b) = p.entry
    BY <1>1 DEF Entered
  <2>2. Succs(d, EntryId) = {b} /\ b # v
    BY <1>3, <1>6, <2>1
  <2>3. b \in Blocks(d) /\ FirstOf(d, b) = p.entry
    BY <1>2, <1>9, <2>1, <2>2
  <2>4. Preds(d, EntryId) = {}
    BY <1>1, <1>4, <1>6 DEF Entered
  <2> QED  BY <2>2, <2>3, <2>4 DEF Entered
<1>12. Left(p, d)
  <2>1. CASE c.exit = v
    <3>1. Succs(d, d.exit) = {}
      BY <1>1, <1>2, <2>1 DEF Left
    <3>2. p.insn[LastOf(d, u)].kind = "ret"
      BY <1>1, <1>5, <1>7, <2>1 DEF Left
    <3> QED  BY <1>2, <2>1, <3>1, <3>2 DEF Left
  <2>2. CASE c.exit # v
    <3>1. d.exit = c.exit /\ c.exit # u
      BY <1>2, <1>5, <2>2
    <3>2. Succs(d, d.exit) = {}
      <4>1. CASE c.exit \in d.node
        BY <1>1, <1>3, <3>1, <4>1 DEF Left
      <4>2. CASE c.exit \notin d.node
        <5>1. \A m : <<c.exit, m>> \notin d.edge
          BY <1>2, <4>2, NodeFacts
        <5> QED  BY <1>2, <3>1, <5>1, NodeFacts
      <4> QED  BY <4>1, <4>2
    <3>3. d.exit \in Blocks(d) => p.insn[LastOf(d, d.exit)].kind = "ret"
      BY <1>1, <1>6, <1>8, <3>1 DEF Left
    <3> QED  BY <3>2, <3>3 DEF Left
  <2> QED  BY <2>1, <2>2
<1>13. Parted(p, d)
  <2>1. ASSUME NEW a \in Reachable(p) PROVE \E n \in Blocks(d) : a \in Body(p, d.ranges[n])
    <3>1. PICK n \in Blocks(c) : a \in Body(p, c.ranges[n])
      BY ShowsFacts
    <3>2. CASE n = u \/ n = v
      BY <1>6, <1>7, <3>1, <3>2
    <3>3. CASE n # u /\ n # v
      BY <1>2, <1>8, <3>1, <3>3
    <3> QED  BY <3>2, <3>3
  <2>2. ASSUME NEW n \in Blocks(d), NEW m \in Blocks(d), n # m,
               NEW a, a \in Body(p, d.ranges[n]), a \in Body(p, d.ranges[m])
        PROVE  FALSE
    <3>1. \A k \in Blocks(d) : a \in Body(p, d.ranges[k]) =>
            \/ a \in Body(p, c.ranges[k])
            \/ k = u /\ v \in Blocks(c) /\ a \in Body(p, c.ranges[v])
      BY <1>7, <1>8
    <3>2. n \in Blocks(c) /\ m \in Blocks(c) /\ n # v /\ m # v
      BY <1>2
    <3>3. \A k, l \in Blocks(c) : a \in Body(p, c.ranges[k]) /\ a \in Body(p, c.ranges[l]) => k = l
      BY ShowsFacts
    <3>4. CASE v \in Blocks(c) /\ a \in Body(p, c.ranges[v])
      <4>1. a \notin Body(p, c.ranges[n]) /\ a \notin Body(p, c.ranges[m])
        BY <3>2, <3>3, <3>4
      <4> QED  BY <2>2, <3>1, <4>1
    <3>5. CASE ~(v \in Blocks(c) /\ a \in Body(p, c.ranges[v]))
      BY <2>2, <3>1, <3>2, <3>3, <3>5
    <3> QED  BY <3>4, <3>5
  <2> QED  BY <2>1, <2>2 DEF Parted
<1>14. ASSUME NEW n \in Blocks(d), n # u PROVE BlockShown(p, d, n)
  <2>1. /\ n \in Blocks(c) /\ n # v /\ n \in d.node /\ BlockShown(p, c, n)
        /\ d.ranges[n] = c.ranges[n] /\ LastOf(d, n) = last(n)
        /\ Succs(d, n) = Succs(c, n) /\ v \notin Succs(c, n)
    BY <1>2, <1>3, <1>6, <1>8, <1>14 DEF Shows
  <2>2. p.insn[last(n)].kind = "ret" =>
          n = d.exit \/ (d.exit \in d.node \ Blocks(d) /\ Succs(d, n) = {d.exit})
    <3>1. SUFFICES ASSUME p.insn[last(n)].kind = "ret"
                   PROVE  \/ n = d.exit
                          \/ d.exit \in d.node \ Blocks(d) /\ Succs(d, n) = {d.exit}
      OBVIOUS
    <3>2. n = c.exit \/ (c.exit \in c.node \ Blocks(c) /\ Succs(c, n) = {c.exit})
      BY <2>1, <3>1 DEF BlockShown
    <3>3. d.exit = c.exit /\ c.exit # v
      BY <1>2, <2>1, <3>2
    <3> QED  BY <1>2, <2>1, <3>2, <3>3
  <2>3. p.insn[last(n)].kind \notin {"call", "ret"} => LeadTo(p, d, Succs(d, n), last(n))
    BY <1>10, <2>1 DEF BlockShown
  <2> QED  BY <1>2, <2>1, <2>2, <2>3 DEF BlockShown
<1>15. BlockShown(p, d, u)
  <2>1. CASE v \in Blocks(c)
    <3>1. LastOf(d, u) = last(v) /\ BlockShown(p, c, v) /\ BlockShown(p, c, u)
      BY <1>5, <1>7, <2>1 DEF Shows
    <3>2. ASSUME NEW a \in Body(p, d.ranges[u])
          PROVE  a \in Reachable(p) /\ (p.insn[a].kind = "call" => a = last(v))
      <4>1. CASE a \in Body(p, c.ranges[u])
        BY <1>5, <2>1, <3>1, <4>1 DEF BlockShown
      <4>2. CASE a \in Body(p, c.ranges[v])
        BY <3>1, <4>2 DEF BlockShown
      <4> QED  BY <1>7, <4>1, <4>2
    <3>3. p.insn[last(v)].kind = "ret" =>
            u = d.exit \/ (d.exit \in d.node \ Blocks(d) /\ Succs(d, u) = {d.exit})
      <4>1. p.insn[last(v)].kind = "ret" =>
              v = c.exit \/ (c.exit \in c.node \ Blocks(c) /\ Succs(c, v) = {c.exit})
        BY <3>1 DEF BlockShown
      <4> QED  BY <1>2, <2>1, <4>1
    <3>4. p.insn[last(v)].kind = "call" => \E m \in Callees(d) : Succs(d, u) = {m}
      BY <1>2, <3>1 DEF BlockShown
    <3>5. p.insn[last(v)].kind \notin {"call", "ret"} =>
            LeadTo(p, d, Succs(d, u), last(v))
      BY <1>2, <1>10, <3>1 DEF BlockShown
    <3> QED  BY <1>7, <3>1, <3>2, <3>3, <3>4, <3>5 DEF BlockShown
  <2>2. CASE v \notin Blocks(c)
    <3>1. /\ LastOf(d, u) = last(u) /\ BlockShown(p, c, u) /\ d.exit = u
          /\ p.insn[last(u)].kind = "ret"
      BY <1>2, <1>5, <1>7, <2>2 DEF Shows
    <3>2. \A a \in Body(p, d.ranges[u]) :
             a \in Reachable(p) /\ (p.insn[a].kind = "call" => a = last(u))
      BY <1>7, <2>2, <3>1 DEF BlockShown
    <3> QED  BY <1>7, <3>1, <3>2 DEF BlockShown
  <2> QED  BY <2>1, <2>2
<1>16. ASSUME NEW m \in Callees(d) PROVE CallShown(p, d, m)
  <2>1. PICK n \in Blocks(c) :
            /\ Preds(c, m) = {n} /\ Succs(c, n) = {m}
            /\ p.insn[last(n)].kind = "call"
            /\ c.ranges[m] = << <<last(n), last(n)>> >>
            /\ LeadTo(p, c, Succs(c, m), last(n))
    BY <1>2 DEF Shows, CallShown
  <2>2. n # u
    BY <1>5, <1>6, <2>1
  <2>3. /\ d.ranges[m] = c.ranges[m] /\ Succs(d, m) = Succs(c, m)
        /\ LeadTo(p, d, Succs(d, m), last(n))
    BY <1>3, <1>6, <1>10, <2>1
  <2>4. CASE n = v
    <3>1. Preds(d, m) = {u} /\ Succs(d, u) = {m}
      BY <1>2, <1>4, <1>5, <1>6, <2>1, <2>4
    <3>2. LastOf(d, u) = last(n)
      BY <1>7, <2>1, <2>4
    <3> QED  BY <1>6, <2>1, <2>3, <3>1, <3>2 DEF CallShown
  <2>5. CASE n # v
    <3>1. n \in Blocks(d) /\ n \in d.node
      BY <1>2, <1>6, <2>1, <2>5
    <3>2. Preds(d, m) = {n} /\ Succs(d, n) = {m}
      BY <1>3, <1>4, <1>6, <2>1, <2>2, <2>5, <3>1
    <3>3. LastOf(d, n) = last(n)
      BY <1>8, <2>2, <3>1
    <3> QED  BY <2>1, <2>3, <3>1, <3>2, <3>3 DEF CallShown
  <2> QED  BY <2>4, <2>5
<1> QED  BY <1>2, <1>11, <1>12, <1>13, <1>14, <1>15, <1>16 DEF Shows

-----------------------------------------------------------------------------
(* Pruning.                                                                *)

\* What is left of c by the pruning.
PrunedGraph(c) ==
    LET kept == ReachableNodes(c)
    IN  [Subgraph(c, kept) EXCEPT
            !.exit = IF @ \in kept THEN @ ELSE NoExit,
            !.type = [n \in kept |-> c.type[n]],
            !.ranges = [n \in kept |-> c.ranges[n]]]

\* What can be reached in a graph that shows the program: all but an exit of a function
\* that never returns.
LEMMA KeptFacts ==
    ASSUME NEW p \in Programs, NEW c, Shows(p, c)
    PROVE  LET kept == ReachableNodes(c)
           IN  /\ kept \subseteq c.node /\ HoldsSuccs(c, kept)
               /\ Blocks(c) \subseteq kept /\ Callees(c) \subseteq kept /\ EntryId \in kept
               /\ c.exit \in kept <=> ~NeverReturns(p)
               /\ c.edge \subseteq kept \X kept
               /\ 2 <= Cardinality(kept)
<1> DEFINE kept == ReachableNodes(c)
<1>1. HasParts(c) /\ Left(p, c) /\ Entered(p, c)
  BY DEF Shows
<1>2. /\ c.entry = EntryId /\ EntryId \in c.node /\ IsFiniteSet(c.node)
      /\ c.edge \subseteq c.node \X c.node
      /\ \A n, m : m \in Succs(c, n) <=> <<n, m>> \in c.edge
      /\ c.exit # EntryId
      /\ \A n \in c.node : n \in Blocks(c) \/ n \in Callees(c) \/ n = EntryId \/ n = c.exit
  BY <1>1, NodeFacts
<1>3. /\ {EntryId} \cap c.node \subseteq kept /\ kept \subseteq c.node /\ GoesOn(c, kept, c.node)
      /\ \A X : {EntryId} \cap c.node \subseteq X /\ GoesOn(c, X, c.node) => kept \subseteq X
  <2>1. kept = ReachedFrom(c, {EntryId}, c.node)
    BY <1>2 DEF ReachableNodes
  <2> HIDE DEF kept
  <2> QED  BY <1>2, <2>1, ReachedFromFacts
<1> HIDE DEF kept
<1>4. HoldsSuccs(c, kept)
  <2>1. ASSUME NEW n \in kept, NEW m \in Succs(c, n) PROVE m \in kept
    <3> DEFINE e == <<n, m>>
    <3>1. e \in c.edge /\ e[1] = n /\ e[2] = m /\ m \in c.node
      BY <1>2
    <3> HIDE DEF e
    <3> QED  BY <1>3, <3>1 DEF GoesOn
  <2> QED  BY <1>2, <1>3, <2>1 DEF HoldsSuccs
<1>5. /\ Blocks(c) \subseteq kept /\ Callees(c) \subseteq kept /\ EntryId \in kept
      /\ ~NeverReturns(p) => c.exit \in kept
  BY <1>4, AllReached DEF HoldsSuccs
<1>6. ASSUME NeverReturns(p) PROVE c.exit \notin kept
  <2> DEFINE X == c.node \ {c.exit}
  <2>1. \A n \in c.node : c.exit \notin Succs(c, n)
    BY <1>6, ExitUnreached
  <2>2. ASSUME NEW e \in c.edge PROVE e[2] # c.exit
    <3>1. e = <<e[1], e[2]>> /\ e[1] \in c.node
      BY <1>2
    <3>2. e[2] \in Succs(c, e[1])
      BY <1>2, <3>1
    <3> QED  BY <2>1, <3>1, <3>2
  <2>3. GoesOn(c, X, c.node)
    BY <2>2 DEF GoesOn
  <2>4. {EntryId} \cap c.node \subseteq X
    BY <1>2
  <2> HIDE DEF X
  <2>5. kept \subseteq X
    BY <1>3, <2>3, <2>4
  <2> QED  BY <2>5 DEF X
<1>7. c.edge \subseteq kept \X kept
  <2>1. ASSUME NEW e \in c.edge PROVE e \in kept \X kept
    <3>1. e = <<e[1], e[2]>> /\ e[1] \in c.node /\ e[2] \in c.node
      BY <1>2
    <3>2. e[2] \in Succs(c, e[1])
      BY <1>2, <3>1
    <3>3. e[1] # c.exit
      BY <1>1, <3>2 DEF Left
    <3>4. e[1] \in kept
      BY <1>2, <1>5, <3>1, <3>3
    <3>5. e[2] \in kept
      BY <1>4, <3>2, <3>4 DEF HoldsSuccs
    <3> QED  BY <3>1, <3>4, <3>5
  <2> QED  BY <2>1
<1>8. 2 <= Cardinality(kept)
  <2>1. PICK b : b \in Blocks(c)
    BY <1>1 DEF Entered
  <2>2. b # EntryId /\ {EntryId, b} \in SUBSET kept
    BY <1>1, <1>5, <2>1, NodeFacts
  <2>3. Cardinality({EntryId, b}) = 2
    <3>1. IsFiniteSet({EntryId}) /\ Cardinality({EntryId}) = 1
      BY FS_Singleton
    <3>2. Cardinality({EntryId} \cup {b}) = 2
      <4>1. b \notin {EntryId}
        BY <2>2
      <4>2. Cardinality({EntryId} \cup {b}) = Cardinality({EntryId}) + 1
        BY <3>1, <4>1, FS_AddElement
      <4> QED  BY <3>1, <4>2
    <3>3. {EntryId} \cup {b} = {EntryId, b}
      OBVIOUS
    <3> QED  BY <3>2, <3>3
  <2>4. IsFiniteSet(kept)
    BY <1>2, <1>3, FS_Subset
  <2> QED  BY <2>2, <2>3, <2>4, FS_Subset, FS_CardinalityType
<1> QED  BY <1>3, <1>4, <1>5, <1>6, <1>7, <1>8 DEF kept

\* _prune_unreachable leaves a graph that shows the program, all of it reached.
LEMMA PruningShows ==
    ASSUME NEW p \in Programs, NEW c, Shows(p, c)
    PROVE  Shows(p, PrunedGraph(c)) /\ Pruned(p, PrunedGraph(c))
<1> DEFINE kept == ReachableNodes(c)
           d    == PrunedGraph(c)
<1>1. HasParts(c) /\ Left(p, c) /\ Entered(p, c) /\ Parted(p, c)
  BY DEF Shows
<1>2. /\ kept \subseteq c.node /\ HoldsSuccs(c, kept)
      /\ Blocks(c) \subseteq kept /\ Callees(c) \subseteq kept /\ EntryId \in kept
      /\ c.exit \in kept <=> ~NeverReturns(p)
      /\ c.edge \subseteq kept \X kept
  BY KeptFacts
<1> HIDE DEF kept
<1>3. /\ d.node = kept /\ d.edge = c.edge
      /\ d.exit = IF c.exit \in kept THEN c.exit ELSE NoExit
      /\ d.type = [n \in kept |-> c.type[n]] /\ d.ranges = [n \in kept |-> c.ranges[n]]
      /\ DOMAIN d = {"node", "edge", "entry", "exit", "type", "ranges"} /\ d.entry = EntryId
  <2> DEFINE sub == Subgraph(c, kept)
  <2>1. DOMAIN c = {"node", "edge", "entry", "exit", "type", "ranges"} /\ c.entry = EntryId
    BY <1>1 DEF HasParts
  <2>2. /\ DOMAIN sub = DOMAIN c /\ sub.entry = c.entry /\ sub.exit = c.exit
        /\ sub.node = c.node \cap kept /\ sub.edge = c.edge \cap (kept \X kept)
    BY <2>1 DEF Subgraph
  <2>3. c.node \cap kept = kept /\ c.edge \cap (kept \X kept) = c.edge
    BY <1>2
  <2>4. d = [sub EXCEPT !.exit = IF @ \in kept THEN @ ELSE NoExit,
                        !.type = [n \in kept |-> c.type[n]],
                        !.ranges = [n \in kept |-> c.ranges[n]]]
    BY DEF PrunedGraph, kept
  <2> HIDE DEF sub, d
  <2> QED  BY <2>1, <2>2, <2>3, <2>4
<1> HIDE DEF d
<1>4. /\ \A n \in kept : d.type[n] = c.type[n] /\ d.ranges[n] = c.ranges[n]
      /\ \A n \in Blocks(c) : n \in kept /\ n \in c.node
      /\ \A n \in Callees(c) : n \in kept /\ n \in c.node
  BY <1>1, <1>2, <1>3, NodeFacts
<1>5. ASSUME NEW n PROVE n \in Callees(d) <=> n \in Callees(c)
  BY <1>1, <1>2, <1>3, <1>4 DEF Callees
<1>6. ASSUME NEW n PROVE n \in Blocks(d) <=> n \in Blocks(c)
  BY <1>2, <1>3, <1>4, <1>5 DEF Blocks
<1>7. /\ Blocks(d) = Blocks(c) /\ Callees(d) = Callees(c)
      /\ \A n : Succs(d, n) = Succs(c, n) /\ Preds(d, n) = Preds(c, n)
  BY <1>3, <1>5, <1>6 DEF Succs, Preds
<1>8. /\ c.node \subseteq Int \ {NoExit} /\ IsFiniteSet(c.node)
      /\ EntryId \notin Blocks(c) /\ EntryId \notin Callees(c)
      /\ c.exit \notin Callees(c) /\ c.exit # EntryId /\ NoExit \notin Callees(c)
      /\ NoExit # EntryId
      /\ \A n \in c.node : n \in Blocks(c) \/ n \in Callees(c) \/ n = EntryId \/ n = c.exit
  BY <1>1, NodeFacts DEF NoExit, EntryId
<1>9. HasParts(d)
  <2>1. DOMAIN d.type = d.node /\ DOMAIN d.ranges = d.node
    BY <1>3
  <2>2. d.node \subseteq Int \ {NoExit} /\ IsFiniteSet(d.node)
    BY <1>2, <1>3, <1>8, FS_Subset
  <2>3. d.exit \in (d.node \cup {NoExit}) \ (Callees(d) \cup {EntryId})
    BY <1>3, <1>7, <1>8
  <2>4. d.node \subseteq Blocks(d) \cup Callees(d) \cup {EntryId, d.exit}
    BY <1>2, <1>3, <1>7, <1>8
  <2>5. EntryId \in d.node \ (Blocks(d) \cup Callees(d)) /\ d.edge \subseteq d.node \X d.node
    BY <1>2, <1>3, <1>7, <1>8
  <2> QED  BY <1>3, <2>1, <2>2, <2>3, <2>4, <2>5 DEF HasParts
<1>10. \A n \in Blocks(c) : /\ d.ranges[n] = c.ranges[n] /\ LastOf(d, n) = LastOf(c, n)
                            /\ FirstOf(d, n) = FirstOf(c, n)
  BY <1>4 DEF LastOf, FirstOf
<1>11. ASSUME NEW S, NEW a, LeadTo(p, c, S, a) PROVE LeadTo(p, d, S, a)
  <2>1. S \subseteq Blocks(c) /\ {FirstOf(c, s) : s \in S} = GoesTo(p, a)
    BY <1>11 DEF LeadTo
  <2>2. {FirstOf(d, s) : s \in S} = {FirstOf(c, s) : s \in S}
    BY <1>10, <2>1
  <2> QED  BY <1>7, <2>1, <2>2 DEF LeadTo
<1>12. Entered(p, d)
  BY <1>1, <1>7, <1>10 DEF Entered
<1>13. Left(p, d)
  <2>1. CASE c.exit \in kept
    BY <1>1, <1>3, <1>7, <1>10, <2>1 DEF Left
  <2>2. CASE c.exit \notin kept
    <3>1. d.exit = NoExit /\ NoExit \notin d.node
      BY <1>2, <1>3, <1>8, <2>2
    <3>2. \A m : <<NoExit, m>> \notin d.edge
      BY <1>9, <3>1, NodeFacts
    <3>3. Succs(d, NoExit) = {}
      BY <1>9, <3>2, NodeFacts
    <3>4. d.exit \notin Blocks(d)
      BY <1>9, <3>1, NodeFacts
    <3> QED  BY <3>1, <3>3, <3>4 DEF Left
  <2> QED  BY <2>1, <2>2
<1>14. Parted(p, d)
  BY <1>1, <1>7, <1>10 DEF Parted
<1>15. ASSUME NEW n \in Blocks(d) PROVE BlockShown(p, d, n)
  <2>1. /\ n \in Blocks(c) /\ BlockShown(p, c, n) /\ d.ranges[n] = c.ranges[n]
        /\ LastOf(d, n) = LastOf(c, n) /\ Succs(d, n) = Succs(c, n)
    BY <1>7, <1>10 DEF Shows
  <2>2. p.insn[LastOf(c, n)].kind = "ret" =>
          n = d.exit \/ (d.exit \in d.node \ Blocks(d) /\ Succs(d, n) = {d.exit})
    <3>1. SUFFICES ASSUME p.insn[LastOf(c, n)].kind = "ret"
                   PROVE  \/ n = d.exit
                          \/ d.exit \in d.node \ Blocks(d) /\ Succs(d, n) = {d.exit}
      OBVIOUS
    <3>2. ~NeverReturns(p)
      BY <2>1, <3>1, ShowsFacts DEF NeverReturns
    <3>3. c.exit \in kept /\ d.exit = c.exit
      BY <1>2, <1>3, <3>2
    <3> QED  BY <1>3, <1>7, <2>1, <3>1, <3>3 DEF BlockShown
  <2>3. p.insn[LastOf(c, n)].kind \notin {"call", "ret"} =>
          LeadTo(p, d, Succs(d, n), LastOf(c, n))
    BY <1>11, <2>1 DEF BlockShown
  <2> QED  BY <1>7, <2>1, <2>2, <2>3 DEF BlockShown
<1>16. ASSUME NEW m \in Callees(d) PROVE CallShown(p, d, m)
  <2>1. PICK n \in Blocks(c) :
            /\ Preds(c, m) = {n} /\ Succs(c, n) = {m}
            /\ p.insn[LastOf(c, n)].kind = "call"
            /\ c.ranges[m] = << <<LastOf(c, n), LastOf(c, n)>> >>
            /\ LeadTo(p, c, Succs(c, m), LastOf(c, n))
    BY <1>7 DEF Shows, CallShown
  <2>2. d.ranges[m] = c.ranges[m] /\ LastOf(d, n) = LastOf(c, n)
    BY <1>4, <1>7, <1>10
  <2>3. LeadTo(p, d, Succs(d, m), LastOf(c, n))
    BY <1>7, <1>11, <2>1
  <2> QED  BY <1>7, <2>1, <2>2, <2>3 DEF CallShown
<1>17. Shows(p, d)
  BY <1>9, <1>12, <1>13, <1>14, <1>15, <1>16 DEF Shows
<1>18. ReachableNodes(d) = d.node
  <2>1. /\ ReachableNodes(d) \subseteq d.node
        /\ Blocks(d) \subseteq ReachableNodes(d)
        /\ Callees(d) \subseteq ReachableNodes(d)
        /\ EntryId \in ReachableNodes(d)
        /\ d.exit \in ReachableNodes(d) <=> ~NeverReturns(p)
    BY <1>17, KeptFacts
  <2>2. d.exit \in d.node => ~NeverReturns(p)
    BY <1>2, <1>3, <1>8
  <2>3. \A n \in d.node : n \in Blocks(d) \/ n \in Callees(d) \/ n = EntryId \/ n = d.exit
    BY <1>9, NodeFacts
  <2> QED  BY <2>1, <2>2, <2>3
<1>19. d.exit = NoExit <=> NeverReturns(p)
  BY <1>2, <1>3, <1>8
<1>20. Shows(p, d) /\ Pruned(p, d)
  BY <1>17, <1>18, <1>19 DEF Pruned
<1> QED  BY <1>20 DEF d

-----------------------------------------------------------------------------
(* The export.                                                             *)

\* What the generator hands to the exporter.
IsFinished(p, f) ==
    /\ Fits(p, f) /\ Disjoint(f) /\ Covered(p, f) = Reachable(p)
    /\ f.postEntry = p.entry /\ p.entry \in Starts(f) /\ f.preExit \subseteq Starts(f)
    /\ \A e \in f.edges : e[2] \in Starts(f)
    /\ f.callLocs = {a \in Covered(p, f) : p.insn[a].kind = "call"}
    /\ \A b \in Starts(f) : \A a :
          InBlock(p, f, b, a) /\ p.insn[a].kind = "call" => a = LastAddr(f.blocks[b])

\* The blocks of a finished flow.
LEMMA FinishedFacts ==
    ASSUME NEW p \in Programs, NEW f, IsFinished(p, f), NEW b \in Starts(f)
    PROVE  LET r    == f.blocks[b].ranges
               last == LastAddr(f.blocks[b])
           IN  /\ NodeId(f, b) = b /\ b \in Nat \ {0}
               /\ Chain(p, r) /\ r[1][1] = b /\ r[Len(r)][2] = last /\ r # << >>
               /\ \A a : a \in Body(p, r) <=> InBlock(p, f, b, a)
               /\ \A a \in Body(p, r) : a \in Reachable(p) /\ (p.insn[a].kind = "call" => a = last)
               /\ Successors(f, b) = GoesTo(p, last) /\ GoesTo(p, last) \subseteq Starts(f)
               /\ b \in f.preExit <=> p.insn[last].kind = "ret"
               /\ last \in Addresses(p) /\ last \in Covered(p, f)
<1> DEFINE r    == f.blocks[b].ranges
           last == LastAddr(f.blocks[b])
<1>1. Fits(p, f) /\ Covered(p, f) = Reachable(p)
  BY DEF IsFinished
<1>2. /\ r \in Seq(AddrRange) /\ r[1][1] = b /\ last = r[Len(r)][2]
      /\ last \in Addresses(p) /\ b \in Addresses(p)
      /\ \A s : <<b, s>> \in f.edges <=> s \in GoesTo(p, last)
  BY <1>1, BlockFacts
<1>3. /\ Joined(p, r) /\ Successors(f, b) = GoesTo(p, last)
      /\ b \in f.preExit <=> p.insn[last].kind = "ret"
  BY <1>1 DEF Fits, BlockFits
<1>4. Chain(p, r) /\ r # << >>
  BY <1>2, <1>3, JoinedIsChain DEF Chain
<1>5. \A a : a \in Body(p, r) <=> InBlock(p, f, b, a)
  BY DEF Body, InBlock
<1>6. ASSUME NEW a \in Body(p, r)
      PROVE  a \in Reachable(p) /\ (p.insn[a].kind = "call" => a = last)
  BY <1>1, <1>5, InBlockFacts DEF IsFinished
<1>7. GoesTo(p, last) \subseteq Starts(f)
  <2>1. ASSUME NEW s \in GoesTo(p, last) PROVE s \in Starts(f)
    <3> DEFINE e == <<b, s>>
    <3>1. e \in f.edges /\ e[2] = s
      BY <1>2
    <3> HIDE DEF e
    <3> QED  BY <3>1 DEF IsFinished
  <2> QED  BY <2>1
<1>8. b \in Nat \ {0}
  <2>1. b \in Nat /\ Cardinality(Addresses(p)) < b
    BY <1>2, ProgramFacts
  <2>2. Cardinality(Addresses(p)) \in Nat
    BY ProgramFacts, FS_CardinalityType
  <2> QED  BY <2>1, <2>2
<1>9. last \in Covered(p, f)
  BY <1>1, InBlockFacts
<1> QED  BY <1>1, <1>2, <1>3, <1>4, <1>5, <1>6, <1>7, <1>8, <1>9 DEF NodeId

\* No two blocks end with the same instruction, so every call that ends a block is taken.
LEMMA CallBlockFacts ==
    ASSUME NEW p \in Programs, NEW f, IsFinished(p, f)
    PROVE  /\ \A b : b \in CallBlocks(f) <=>
                       b \in Starts(f) /\ p.insn[LastAddr(f.blocks[b])].kind = "call"
           /\ f.callLocs \subseteq {LastAddr(f.blocks[b]) : b \in CallBlocks(f)}
<1>0. Fits(p, f) /\ Disjoint(f) /\ f.callLocs = {a \in Covered(p, f) : p.insn[a].kind = "call"}
  BY DEF IsFinished
<1>1. ASSUME NEW b \in Starts(f), NEW c \in Starts(f),
             LastAddr(f.blocks[c]) = LastAddr(f.blocks[b])
      PROVE  c = b
  <2>1. InBlock(p, f, b, LastAddr(f.blocks[b])) /\ InBlock(p, f, c, LastAddr(f.blocks[c]))
    BY <1>0, InBlockFacts
  <2> QED  BY <1>0, <1>1, <2>1, InOneBlock
<1>2. ASSUME NEW b \in Starts(f)
      PROVE  b \in CallBlocks(f) <=> p.insn[LastAddr(f.blocks[b])].kind = "call"
  <2>1. b \in Nat /\ LastAddr(f.blocks[b]) \in Covered(p, f)
    BY FinishedFacts
  <2>2. \A c \in Starts(f) : c < b => LastAddr(f.blocks[c]) # LastAddr(f.blocks[b])
    BY <1>1, <2>1
  <2> QED  BY <1>0, <2>1, <2>2 DEF CallBlocks
<1>3. \A b : b \in CallBlocks(f) => b \in Starts(f)
  BY DEF CallBlocks
<1>4. ASSUME NEW a \in f.callLocs PROVE \E b \in CallBlocks(f) : a = LastAddr(f.blocks[b])
  <2>1. PICK b \in Starts(f) : InBlock(p, f, b, a)
    BY <1>0, InBlockFacts
  <2>2. a = LastAddr(f.blocks[b]) /\ p.insn[a].kind = "call"
    BY <1>0, <2>1 DEF IsFinished
  <2> QED  BY <1>2, <2>2
<1> QED  BY <1>2, <1>3, <1>4

\* Callees have numbers of their own, below those of the entry and the exit.
LEMMA CalleeIdFacts ==
    ASSUME NEW p \in Programs, NEW f, IsFinished(p, f)
    PROVE  /\ \A b \in CallBlocks(f) : CalleeId(f, b) \in Int /\ CalleeId(f, b) < ExitId
           /\ \A b, c \in CallBlocks(f) : CalleeId(f, b) = CalleeId(f, c) => b = c
           /\ IsFiniteSet(CallBlocks(f))
<1> DEFINE UpTo(b) == {c \in CallBlocks(f) : c <= b}
<1>1. CallBlocks(f) \in SUBSET Addresses(p) /\ IsFiniteSet(CallBlocks(f))
  <2>1. ASSUME NEW b \in Starts(f) PROVE b \in Addresses(p)
    BY BlockFacts DEF IsFinished
  <2>2. CallBlocks(f) \in SUBSET Addresses(p)
    BY <2>1 DEF CallBlocks
  <2> QED  BY <2>2, ProgramFacts, FS_Subset
<1>2. CallBlocks(f) \subseteq Nat
  BY <1>1, ProgramFacts
<1>3. ASSUME NEW b \in CallBlocks(f)
      PROVE  /\ IsFiniteSet(UpTo(b)) /\ Cardinality(UpTo(b)) \in Nat \ {0}
             /\ CalleeId(f, b) = ExitId - Cardinality(UpTo(b))
  <2>1. UpTo(b) \in SUBSET CallBlocks(f) /\ b \in UpTo(b)
    BY <1>2
  <2>2. IsFiniteSet(UpTo(b))
    BY <1>1, <2>1, FS_Subset
  <2>3. Cardinality(UpTo(b)) \in Nat /\ Cardinality(UpTo(b)) # 0
    BY <2>1, <2>2, FS_CardinalityType, FS_EmptySet
  <2> QED  BY <2>2, <2>3 DEF CalleeId
<1>4. ASSUME NEW b \in CallBlocks(f), NEW c \in CallBlocks(f), b < c
      PROVE  Cardinality(UpTo(b)) # Cardinality(UpTo(c))
  <2>1. UpTo(b) \in SUBSET UpTo(c) /\ c \in UpTo(c) /\ c \notin UpTo(b)
    BY <1>2, <1>4
  <2> HIDE DEF UpTo
  <2> QED  BY <1>3, <2>1, FS_Subset
<1> HIDE DEF UpTo
<1>5. ASSUME NEW b \in CallBlocks(f), NEW c \in CallBlocks(f), CalleeId(f, b) = CalleeId(f, c)
      PROVE  b = c
  <2>1. Cardinality(UpTo(b)) = Cardinality(UpTo(c))
    BY <1>3, <1>5 DEF ExitId
  <2>2. b \in Nat /\ c \in Nat
    BY <1>2
  <2> QED  BY <1>4, <2>1, <2>2
<1>6. \A b \in CallBlocks(f) : CalleeId(f, b) \in Int /\ CalleeId(f, b) < ExitId
  BY <1>3 DEF ExitId
<1> QED  BY <1>1, <1>5, <1>6

\* The exported graph, node by node and edge by edge.
IsExport(p, f, x) ==
    LET callees == {CalleeId(f, b) : b \in CallBlocks(f)}
    IN  /\ DOMAIN x = {"node", "edge", "entry", "exit", "type", "ranges"}
        /\ x.entry = EntryId /\ x.exit = ExitId
        /\ x.node = {EntryId, ExitId} \cup Starts(f) \cup callees
        /\ DOMAIN x.type = x.node /\ DOMAIN x.ranges = x.node
        /\ \A n \in x.node : x.type[n] = "FunctionCall" <=> n \in callees
        /\ \A b \in Starts(f) : x.ranges[b] = f.blocks[b].ranges
        /\ \A b \in CallBlocks(f) : x.ranges[CalleeId(f, b)] =
              << <<LastAddr(f.blocks[b]), LastAddr(f.blocks[b])>> >>
        /\ x.ranges[EntryId] = << >> /\ x.ranges[ExitId] = << >>
        /\ x.edge \subseteq x.node \X x.node
        /\ \A n, m : <<n, m>> \in x.edge <=>
              \/ n = EntryId /\ m = p.entry
              \/ n \in f.preExit /\ m = ExitId
              \/ n \in CallBlocks(f) /\ m = CalleeId(f, n)
              \/ n \in Starts(f) \ CallBlocks(f) /\ m \in GoesTo(p, LastAddr(f.blocks[n]))
              \/ \E b \in CallBlocks(f) : /\ n = CalleeId(f, b)
                                          /\ m \in GoesTo(p, LastAddr(f.blocks[b]))

\* exportFlow writes such a graph for a finished flow.
LEMMA ExportedIsExport ==
    ASSUME NEW p \in Programs, NEW f, IsFinished(p, f)
    PROVE  IsExport(p, f, Exported(f))
<1> DEFINE x       == Exported(f)
           calls   == CallBlocks(f)
           callees == {CalleeId(f, b) : b \in calls}
           last(b) == LastAddr(f.blocks[b])
           Out(b)  == IF b \in calls THEN CalleeId(f, b) ELSE NodeId(f, b)
           blockOf == [n \in {NodeId(f, b) : b \in Starts(f)} |->
                          CHOOSE b \in Starts(f) : NodeId(f, b) = n]
           callOf  == [n \in callees |-> CHOOSE b \in calls : CalleeId(f, b) = n]
           nodes   == {EntryId, ExitId} \cup DOMAIN blockOf \cup DOMAIN callOf
           E1 == {<<EntryId, f.postEntry>>}
           E2 == {<<b, ExitId>> : b \in f.preExit}
           E3 == {<<NodeId(f, b), CalleeId(f, b)>> : b \in calls}
           E4 == UNION {{<<Out(b), s>> : s \in Successors(f, NodeId(f, b))} : b \in Starts(f)}
           Type(n) == CASE n = EntryId -> "Entry" [] n = ExitId -> "Exit"
                        [] n \in DOMAIN callOf -> "FunctionCall" [] OTHER -> "Normal"
           Ranges(n) == CASE n \in DOMAIN blockOf -> f.blocks[blockOf[n]].ranges
                          [] n \in DOMAIN callOf -> << <<last(callOf[n]), last(callOf[n])>> >>
                          [] OTHER -> << >>
<1>1. /\ DOMAIN x = {"node", "edge", "entry", "exit", "type", "ranges"}
      /\ x.entry = EntryId /\ x.exit = ExitId /\ x.node = nodes
      /\ x.edge = E1 \cup E2 \cup E3 \cup E4
      /\ x.type = [n \in nodes |-> Type(n)] /\ x.ranges = [n \in nodes |-> Ranges(n)]
  BY DEF Exported
<1> HIDE DEF x
<1>2. /\ \A b \in Starts(f) : NodeId(f, b) = b /\ b \in Nat \ {0}
      /\ \A b \in Starts(f) : Successors(f, b) = GoesTo(p, last(b)) /\ GoesTo(p, last(b)) \subseteq Starts(f)
  BY FinishedFacts
<1>3. /\ \A b \in calls : CalleeId(f, b) \in Int /\ CalleeId(f, b) < ExitId
      /\ \A b, c \in calls : CalleeId(f, b) = CalleeId(f, c) => b = c
      /\ \A b \in calls : b \in Starts(f)
  BY CalleeIdFacts, CallBlockFacts
<1>4. DOMAIN blockOf = Starts(f) /\ DOMAIN callOf = callees
  <2>1. {NodeId(f, b) : b \in Starts(f)} = Starts(f)
    BY <1>2
  <2> QED  BY <2>1
<1>5. \A b \in Starts(f) : blockOf[b] = b
  BY <1>2, <1>4
<1>6. \A b \in calls : CalleeId(f, b) \in callees /\ callOf[CalleeId(f, b)] = b
  BY <1>3
<1> HIDE DEF blockOf, callOf
<1>7. x.node = {EntryId, ExitId} \cup Starts(f) \cup callees
  BY <1>1, <1>4
<1>8. /\ \A n \in callees : n \in Int /\ n < ExitId
      /\ EntryId \notin callees /\ ExitId \notin callees /\ EntryId \notin Starts(f)
      /\ ExitId \notin Starts(f) /\ EntryId # ExitId /\ \A n \in callees : n \notin Starts(f)
  BY <1>2, <1>3 DEF EntryId, ExitId
<1>9. \A n \in x.node : x.type[n] = "FunctionCall" <=> n \in callees
  <2>1. ASSUME NEW n \in nodes PROVE Type(n) = "FunctionCall" <=> n \in callees
    BY <1>4, <1>8
  <2> QED  BY <1>1, <2>1
<1>10. ASSUME NEW b \in Starts(f) PROVE x.ranges[b] = f.blocks[b].ranges
  <2>1. b \in nodes /\ Ranges(b) = f.blocks[b].ranges
    BY <1>4, <1>5, <1>8
  <2> QED  BY <1>1, <2>1
<1>11. ASSUME NEW b \in calls PROVE x.ranges[CalleeId(f, b)] = << <<last(b), last(b)>> >>
  <2>1. CalleeId(f, b) \in nodes /\ CalleeId(f, b) \notin DOMAIN blockOf
    BY <1>4, <1>6, <1>8
  <2>2. Ranges(CalleeId(f, b)) = << <<last(b), last(b)>> >>
    BY <1>4, <1>6, <2>1
  <2> QED  BY <1>1, <2>1, <2>2
<1>12. x.ranges[EntryId] = << >> /\ x.ranges[ExitId] = << >>
  <2>1. Ranges(EntryId) = << >> /\ Ranges(ExitId) = << >>
    BY <1>4, <1>8
  <2> QED  BY <1>1, <2>1
<1>13. ASSUME NEW n, NEW m
       PROVE  <<n, m>> \in x.edge <=>
                 \/ n = EntryId /\ m = p.entry
                 \/ n \in f.preExit /\ m = ExitId
                 \/ n \in calls /\ m = CalleeId(f, n)
                 \/ n \in Starts(f) \ calls /\ m \in GoesTo(p, last(n))
                 \/ \E b \in calls : n = CalleeId(f, b) /\ m \in GoesTo(p, last(b))
  <2>1. <<n, m>> \in E1 <=> n = EntryId /\ m = p.entry
    BY DEF IsFinished
  <2>2. <<n, m>> \in E2 <=> n \in f.preExit /\ m = ExitId
    OBVIOUS
  <2>3. <<n, m>> \in E3 <=> n \in calls /\ m = CalleeId(f, n)
    BY <1>2, <1>3
  <2>4. <<n, m>> \in E4 <=> \E b \in Starts(f) : n = Out(b) /\ m \in GoesTo(p, last(b))
    <3>1. ASSUME <<n, m>> \in E4 PROVE \E b \in Starts(f) : n = Out(b) /\ m \in GoesTo(p, last(b))
      <4>1. PICK b \in Starts(f) : <<n, m>> \in {<<Out(b), s>> : s \in Successors(f, NodeId(f, b))}
        BY <3>1
      <4> QED  BY <1>2, <4>1
    <3>2. ASSUME NEW b \in Starts(f), n = Out(b), m \in GoesTo(p, last(b)) PROVE <<n, m>> \in E4
      <4>1. <<n, m>> \in {<<Out(b), s>> : s \in Successors(f, NodeId(f, b))}
        BY <1>2, <3>2
      <4> QED  BY <4>1
    <3> QED  BY <3>1, <3>2
  <2>5. (\E b \in Starts(f) : n = Out(b) /\ m \in GoesTo(p, last(b))) <=>
           \/ n \in Starts(f) \ calls /\ m \in GoesTo(p, last(n))
           \/ \E b \in calls : n = CalleeId(f, b) /\ m \in GoesTo(p, last(b))
    BY <1>2, <1>3
  <2> HIDE DEF E1, E2, E3, E4
  <2> QED  BY <1>1, <2>1, <2>2, <2>3, <2>4, <2>5
<1>14. x.edge \subseteq x.node \X x.node
  <2>0. p.entry \in Starts(f) /\ f.preExit \subseteq Starts(f) /\ f.postEntry = p.entry
    BY DEF IsFinished
  <2>1. E1 \subseteq x.node \X x.node
    BY <1>7, <2>0
  <2>2. E2 \subseteq x.node \X x.node
    BY <1>7, <2>0
  <2>3. E3 \subseteq x.node \X x.node
    BY <1>2, <1>3, <1>7
  <2>4. ASSUME NEW e \in E4 PROVE e \in x.node \X x.node
    <3>1. PICK b \in Starts(f) : e \in {<<Out(b), s>> : s \in Successors(f, NodeId(f, b))}
      OBVIOUS
    <3>2. PICK s \in GoesTo(p, last(b)) : e = <<Out(b), s>>
      BY <1>2, <3>1
    <3>3. s \in x.node /\ Out(b) \in x.node
      BY <1>2, <1>7
    <3> QED  BY <3>2, <3>3
  <2> HIDE DEF E1, E2, E3, E4
  <2> QED  BY <1>1, <2>1, <2>2, <2>3, <2>4
<1>15. DOMAIN x.type = x.node /\ DOMAIN x.ranges = x.node
  BY <1>1
<1> HIDE DEF Type, Ranges, nodes
<1>16. IsExport(p, f, x)
  BY <1>1, <1>7, <1>9, <1>10, <1>11, <1>12, <1>13, <1>14, <1>15 DEF IsExport
<1> QED  BY <1>16 DEF x

\* The nodes and edges of the exported graph.
LEMMA ExportNodes ==
    ASSUME NEW p \in Programs, NEW f, IsFinished(p, f), NEW x, IsExport(p, f, x)
    PROVE  /\ HasParts(x) /\ Blocks(x) = Starts(f)
           /\ \A n : n \in Callees(x) <=> \E b \in CallBlocks(f) : n = CalleeId(f, b)
           /\ Preds(x, EntryId) = {} /\ Succs(x, EntryId) = {p.entry}
           /\ x.exit = ExitId /\ Succs(x, ExitId) = {}
<1> DEFINE callees == {CalleeId(f, b) : b \in CallBlocks(f)}
           last(b) == LastAddr(f.blocks[b])
<1>1. /\ DOMAIN x = {"node", "edge", "entry", "exit", "type", "ranges"}
      /\ x.entry = EntryId /\ x.exit = ExitId
      /\ x.node = {EntryId, ExitId} \cup Starts(f) \cup callees
      /\ DOMAIN x.type = x.node /\ DOMAIN x.ranges = x.node
      /\ \A n \in x.node : x.type[n] = "FunctionCall" <=> n \in callees
      /\ \A b \in Starts(f) : x.ranges[b] = f.blocks[b].ranges
      /\ x.ranges[EntryId] = << >> /\ x.ranges[ExitId] = << >>
      /\ x.edge \subseteq x.node \X x.node
  BY DEF IsExport
<1>2. /\ \A b \in Starts(f) : b \in Nat \ {0} /\ f.blocks[b].ranges # << >>
      /\ \A b \in Starts(f) : GoesTo(p, last(b)) \subseteq Starts(f)
      /\ p.entry \in Starts(f) /\ f.preExit \subseteq Starts(f)
  BY FinishedFacts DEF IsFinished
<1>3. /\ \A b \in CallBlocks(f) : CalleeId(f, b) \in Int /\ CalleeId(f, b) < ExitId
      /\ \A b \in CallBlocks(f) : b \in Starts(f)
      /\ IsFiniteSet(CallBlocks(f))
  BY CalleeIdFacts, CallBlockFacts
<1>4. /\ \A n \in callees : n \in Int /\ n < ExitId
      /\ EntryId \notin callees /\ ExitId \notin callees /\ EntryId \notin Starts(f)
      /\ ExitId \notin Starts(f) /\ EntryId # ExitId /\ \A n \in callees : n \notin Starts(f)
      /\ EntryId # NoExit /\ ExitId # NoExit /\ NoExit \notin callees /\ NoExit \notin Starts(f)
      /\ EntryId \in Int /\ ExitId \in Int
  BY <1>2, <1>3 DEF EntryId, ExitId, NoExit
<1>5. ASSUME NEW n PROVE n \in Callees(x) <=> n \in callees
  BY <1>1 DEF Callees
<1>6. ASSUME NEW n PROVE n \in Blocks(x) <=> n \in Starts(f)
  BY <1>1, <1>2, <1>4, <1>5 DEF Blocks
<1>7. IsFiniteSet(x.node)
  <2>1. IsFiniteSet(Starts(f))
    <3>1. \A b \in Starts(f) : b \in Addresses(p)
      BY BlockFacts DEF IsFinished
    <3> QED  BY <3>1, ProgramFacts, FS_Subset
  <2>2. IsFiniteSet(callees)
    <3> DEFINE number == [b \in CallBlocks(f) |-> CalleeId(f, b)]
    <3>1. number \in [CallBlocks(f) -> callees]
      OBVIOUS
    <3>2. \A n \in callees : \E b \in CallBlocks(f) : number[b] = n
      OBVIOUS
    <3>3. number \in Surjection(CallBlocks(f), callees)
      BY <3>1, <3>2 DEF Surjection
    <3> HIDE DEF number, callees
    <3> QED  BY <1>3, <3>3, FS_Surjection
  <2>3. IsFiniteSet({EntryId, ExitId})
    <3>1. IsFiniteSet({EntryId} \cup {ExitId})
      BY FS_Singleton, FS_AddElement
    <3>2. {EntryId} \cup {ExitId} = {EntryId, ExitId}
      OBVIOUS
    <3> QED  BY <3>1, <3>2
  <2> HIDE DEF callees
  <2>4. IsFiniteSet({EntryId, ExitId} \cup Starts(f))
    BY <2>1, <2>3, FS_Union
  <2>5. IsFiniteSet(({EntryId, ExitId} \cup Starts(f)) \cup callees)
    BY <2>2, <2>4, FS_Union
  <2> QED  BY <1>1, <2>5
<1>8. HasParts(x)
  <2>1. x.node \subseteq Int \ {NoExit}
    BY <1>1, <1>2, <1>4
  <2>2. EntryId \in x.node \ (Blocks(x) \cup Callees(x))
    BY <1>1, <1>4, <1>5, <1>6
  <2>3. x.exit \in (x.node \cup {NoExit}) \ (Callees(x) \cup {EntryId})
    BY <1>1, <1>4, <1>5
  <2>4. x.node \subseteq Blocks(x) \cup Callees(x) \cup {EntryId, x.exit}
    BY <1>1, <1>5, <1>6
  <2> QED  BY <1>1, <1>7, <2>1, <2>2, <2>3, <2>4 DEF HasParts
<1>9. /\ \A n, m : m \in Succs(x, n) <=> <<n, m>> \in x.edge
      /\ \A n, m : n \in Preds(x, m) <=> <<n, m>> \in x.edge
  BY <1>8, NodeFacts
<1>10. \A n, m : <<n, m>> \in x.edge <=>
          \/ n = EntryId /\ m = p.entry
          \/ n \in f.preExit /\ m = ExitId
          \/ n \in CallBlocks(f) /\ m = CalleeId(f, n)
          \/ n \in Starts(f) \ CallBlocks(f) /\ m \in GoesTo(p, last(n))
          \/ \E b \in CallBlocks(f) : n = CalleeId(f, b) /\ m \in GoesTo(p, last(b))
  BY DEF IsExport
<1>11. \A n : <<n, EntryId>> \notin x.edge
  BY <1>2, <1>3, <1>4, <1>10
<1>12. \A m : <<EntryId, m>> \in x.edge <=> m = p.entry
  BY <1>2, <1>3, <1>4, <1>10
<1>13. \A m : <<ExitId, m>> \notin x.edge
  BY <1>2, <1>3, <1>4, <1>10
<1>14. /\ Preds(x, EntryId) = {} /\ Succs(x, EntryId) = {p.entry}
       /\ Succs(x, ExitId) = {}
  BY <1>9, <1>11, <1>12, <1>13
<1> QED  BY <1>1, <1>5, <1>6, <1>8, <1>14

\* The exported graph of a finished flow shows the program.
LEMMA ExportShows ==
    ASSUME NEW p \in Programs, NEW f, IsFinished(p, f), NEW x, IsExport(p, f, x)
    PROVE  Shows(p, x)
<1> DEFINE last(b) == LastAddr(f.blocks[b])
<1>1. /\ HasParts(x) /\ Blocks(x) = Starts(f) /\ x.exit = ExitId
      /\ Preds(x, EntryId) = {} /\ Succs(x, EntryId) = {p.entry}
      /\ Succs(x, ExitId) = {}
  BY ExportNodes
<1>2. \A n : n \in Callees(x) <=> \E b \in CallBlocks(f) : n = CalleeId(f, b)
  BY ExportNodes
<1>3. /\ \A n, m : m \in Succs(x, n) <=> <<n, m>> \in x.edge
      /\ \A n, m : n \in Preds(x, m) <=> <<n, m>> \in x.edge
      /\ ExitId \in x.node \cup {NoExit} /\ EntryId \notin Starts(f)
      /\ \A n \in Callees(x) : n \notin Starts(f) /\ n # ExitId /\ n # EntryId
  BY <1>1, NodeFacts
<1>4. \A n, m : <<n, m>> \in x.edge <=>
          \/ n = EntryId /\ m = p.entry
          \/ n \in f.preExit /\ m = ExitId
          \/ n \in CallBlocks(f) /\ m = CalleeId(f, n)
          \/ n \in Starts(f) \ CallBlocks(f) /\ m \in GoesTo(p, last(n))
          \/ \E b \in CallBlocks(f) : n = CalleeId(f, b) /\ m \in GoesTo(p, last(b))
  BY DEF IsExport
<1>5. ASSUME NEW b \in Starts(f)
      PROVE  /\ x.ranges[b] = f.blocks[b].ranges
             /\ Chain(p, x.ranges[b]) /\ FirstOf(x, b) = b /\ LastOf(x, b) = last(b)
             /\ \A a : a \in Body(p, x.ranges[b]) <=> InBlock(p, f, b, a)
             /\ \A a \in Body(p, x.ranges[b]) :
                   a \in Reachable(p) /\ (p.insn[a].kind = "call" => a = last(b))
             /\ GoesTo(p, last(b)) \subseteq Starts(f) /\ b \in Nat
             /\ b \in f.preExit <=> p.insn[last(b)].kind = "ret"
             /\ last(b) \in Addresses(p)
  <2>1. x.ranges[b] = f.blocks[b].ranges
    BY DEF IsExport
  <2> QED  BY <2>1, FinishedFacts DEF FirstOf, LastOf
<1>6. ExitId \notin Starts(f) /\ ExitId \in x.node
  <2>1. ExitId \notin Starts(f)
    BY <1>5 DEF ExitId
  <2> QED  BY <2>1 DEF IsExport
<1>7. /\ \A b : b \in CallBlocks(f) <=> b \in Starts(f) /\ p.insn[last(b)].kind = "call"
      /\ \A b, c \in CallBlocks(f) : CalleeId(f, b) = CalleeId(f, c) => b = c
  BY CallBlockFacts, CalleeIdFacts
<1>8. ASSUME NEW a, NEW b \in Starts(f), a = last(b) PROVE LeadTo(p, x, GoesTo(p, a), a)
  <2>1. GoesTo(p, a) \subseteq Starts(f)
    BY <1>5, <1>8
  <2>2. {FirstOf(x, s) : s \in GoesTo(p, a)} = GoesTo(p, a)
    BY <1>5, <2>1
  <2> QED  BY <1>1, <2>1, <2>2 DEF LeadTo
<1>9. Entered(p, x)
  <2>1. p.entry \in Starts(f)
    BY DEF IsFinished
  <2> QED  BY <1>1, <1>5, <2>1 DEF Entered
<1>10. Left(p, x)
  BY <1>1, <1>6 DEF Left
<1>11. Parted(p, x)
  <2>1. Fits(p, f) /\ Disjoint(f) /\ Covered(p, f) = Reachable(p)
    BY DEF IsFinished
  <2>2. ASSUME NEW a \in Reachable(p) PROVE \E n \in Blocks(x) : a \in Body(p, x.ranges[n])
    <3>1. PICK n \in Starts(f) : InBlock(p, f, n, a)
      BY <2>1, InBlockFacts
    <3> QED  BY <1>1, <1>5, <3>1
  <2>3. ASSUME NEW n \in Blocks(x), NEW m \in Blocks(x), n # m,
               NEW a, a \in Body(p, x.ranges[n]), a \in Body(p, x.ranges[m])
        PROVE  FALSE
    <3>1. n \in Starts(f) /\ m \in Starts(f) /\ InBlock(p, f, n, a) /\ InBlock(p, f, m, a)
      BY <1>1, <1>5, <2>3
    <3> QED  BY <2>1, <2>3, <3>1, InOneBlock
  <2> QED  BY <2>2, <2>3 DEF Parted
<1>12. ASSUME NEW n \in Blocks(x) PROVE BlockShown(p, x, n)
  <2>1. n \in Starts(f)
    BY <1>1
  <2>0. n # EntryId /\ \A b \in CallBlocks(f) : n # CalleeId(f, b)
    BY <1>2, <1>3, <2>1
  <2>2. ASSUME p.insn[last(n)].kind = "call"
        PROVE  CalleeId(f, n) \in Callees(x) /\ Succs(x, n) = {CalleeId(f, n)}
    <3>1. n \in CallBlocks(f) /\ n \notin f.preExit
      BY <1>5, <1>7, <2>1, <2>2
    <3>2. CalleeId(f, n) \in Callees(x)
      BY <1>2, <3>1
    <3>3. \A m : <<n, m>> \in x.edge <=> m = CalleeId(f, n)
      BY <1>4, <2>0, <3>1
    <3>4. \A m : m \in Succs(x, n) <=> m = CalleeId(f, n)
      BY <1>3, <3>3
    <3> QED  BY <3>2, <3>4
  <2>3. ASSUME p.insn[last(n)].kind = "ret" PROVE Succs(x, n) = {ExitId}
    <3>1. n \notin CallBlocks(f) /\ n \in f.preExit
      BY <1>5, <1>7, <2>1, <2>3
    <3>2. GoesTo(p, last(n)) = {}
      BY <1>5, <2>1, <2>3, NowhereFromReturns
    <3>3. \A m : <<n, m>> \in x.edge <=> m = ExitId
      BY <1>4, <2>0, <2>1, <3>1, <3>2
    <3>4. \A m : m \in Succs(x, n) <=> m = ExitId
      BY <1>3, <3>3
    <3> QED  BY <3>4
  <2>4. ASSUME p.insn[last(n)].kind \notin {"call", "ret"}
        PROVE  Succs(x, n) = GoesTo(p, last(n))
    <3>1. n \notin CallBlocks(f) /\ n \notin f.preExit
      BY <1>5, <1>7, <2>1, <2>4
    <3>2. \A m : <<n, m>> \in x.edge <=> m \in GoesTo(p, last(n))
      BY <1>4, <2>0, <2>1, <3>1
    <3> QED  BY <1>3, <3>2
  <2>5. Chain(p, x.ranges[n]) /\ LastOf(x, n) = last(n)
    BY <1>5, <2>1
  <2>6. \A a \in Body(p, x.ranges[n]) :
           a \in Reachable(p) /\ (p.insn[a].kind = "call" => a = last(n))
    BY <1>5, <2>1
  <2>7. p.insn[last(n)].kind \notin {"call", "ret"} => LeadTo(p, x, Succs(x, n), last(n))
    BY <1>8, <2>1, <2>4
  <2> QED  BY <1>1, <1>6, <2>2, <2>3, <2>5, <2>6, <2>7 DEF BlockShown
<1>13. ASSUME NEW m \in Callees(x) PROVE CallShown(p, x, m)
  <2>1. PICK b \in CallBlocks(f) : m = CalleeId(f, b)
    BY <1>2
  <2>2. b \in Starts(f) /\ p.insn[last(b)].kind = "call" /\ b \notin f.preExit
    BY <1>5, <1>7, <2>1
  <2>3. \A n : <<n, m>> \in x.edge <=> n = b
    <3>1. m \notin Starts(f) /\ m # ExitId /\ m # p.entry
      BY <1>3 DEF IsFinished
    <3>2. \A n \in Starts(f) : m \notin GoesTo(p, last(n))
      BY <1>5, <3>1
    <3> QED  BY <1>4, <1>7, <2>1, <3>1, <3>2
  <2>4. \A n : <<b, n>> \in x.edge <=> n = m
    BY <1>2, <1>3, <1>4, <2>1, <2>2
  <2>5. \A n : <<m, n>> \in x.edge <=> n \in GoesTo(p, last(b))
    <3>1. m \notin f.preExit /\ m \notin CallBlocks(f)
      BY <1>3, <1>7 DEF IsFinished
    <3> QED  BY <1>3, <1>4, <1>7, <2>1, <3>1
  <2>6. /\ Preds(x, m) = {b} /\ Succs(x, b) = {m}
        /\ Succs(x, m) = GoesTo(p, last(b))
    BY <1>3, <2>3, <2>4, <2>5
  <2>7. LastOf(x, b) = last(b) /\ x.ranges[m] = << <<last(b), last(b)>> >>
    BY <1>5, <2>1, <2>2 DEF IsExport
  <2> QED  BY <1>1, <1>8, <2>2, <2>6, <2>7 DEF CallShown
<1> QED  BY <1>1, <1>9, <1>10, <1>11, <1>12, <1>13 DEF Shows

-----------------------------------------------------------------------------
(* Every step keeps the invariant.                                         *)

\* What the generator keeps, and what is kept behind it.
FlowSound == prog \in Programs /\ InductiveInvariant

\* The parts the proofs about FlowGenerator keep one after the other.
LEMMA FlowSoundParts == FlowSound <=> Shaped /\ CallsEndBlocks /\ EntryUntouched
BY DEF FlowSound, Shaped, Inv, InductiveInvariant

\* The generator's part of the invariant, without the fairness of its specification.
LEMMA InitFlowSound == Init => FlowSound
<1> SUFFICES ASSUME Init PROVE FlowSound
  OBVIOUS
<1>1. Inv /\ BlocksShowInstructions /\ CallsEndBlocks /\ EntryUntouched
  BY InitInv, InitShape, InitCalls, InitEntry
<1> QED  BY <1>1, FlowSoundParts DEF Shaped

\* Every step of the generator keeps its part of the invariant.
LEMMA StepFlowSound == FlowSound /\ [Next]_vars => FlowSound'
<1>1. Shaped /\ [Next]_vars => Shaped'
  BY StepInv, StepShape DEF Shaped
<1>2. Shaped /\ Shaped' /\ CallsEndBlocks /\ [Next]_vars => CallsEndBlocks'
  BY StepCalls
<1>3. Shaped /\ Shaped' /\ CallsEndBlocks /\ EntryUntouched /\ [Next]_vars => EntryUntouched'
  BY StepEntry
<1>4. (Shaped /\ CallsEndBlocks /\ EntryUntouched)' => FlowSound'
  BY FlowSoundParts, PTL
<1> QED  BY <1>1, <1>2, <1>3, <1>4, FlowSoundParts

\* A generator that is done takes no step.
LEMMA DoneStays == pass = "done" /\ [Next]_vars => UNCHANGED vars
BY DEF Next, SkipCandidate, TraceBlock, FinishWorklist, KeepBlock, TrimOverlap, FinishOverlaps,
       MergeBlock, FinishMerge, StartBlock, SplitAtCall, FinishCalls, Symbolize, Terminated, vars

\* What the exporter gets when the generator is done.
LEMMA DoneIsFinished ==
    ASSUME FlowSound, pass = "done", ~LoneEntryJump(prog)
    PROVE  IsFinished(prog, flow)
<1>1. Shaped /\ CallsEndBlocks /\ EntryUntouched /\ Inv /\ BlocksShowInstructions
  BY FlowSoundParts DEF Shaped
<1>2. Fits(prog, flow) /\ prog \in Programs
  BY <1>1, RunningFits DEF BlocksShowInstructions, Running
<1>3. Disjoint(flow) /\ Covered(prog, flow) = Reachable(prog) /\ flow.postEntry = prog.entry
  BY <1>1 DEF BlocksShowInstructions, RangesDisjoint, CoversReachableCode, Traced, EntryUntouched
<1>4. /\ flow.postEntry \in Starts(flow) /\ flow.preExit \subseteq Starts(flow)
      /\ \A e \in flow.edges : e[2] \in Starts(flow)
  BY <1>1 DEF Inv, PiecesExist, NoDanglingEdges, Traced
<1>5. flow.callLocs = {a \in Covered(prog, flow) : prog.insn[a].kind = "call"}
  BY <1>1 DEF CallsEndBlocks, CallsKnown
<1>6. ASSUME NEW b \in Starts(flow), NEW a, InBlock(prog, flow, b, a), prog.insn[a].kind = "call"
      PROVE  a = LastAddr(flow.blocks[b])
  <2> DEFINE calls == {s \in CallSites(flow, flow.blocks[b]) : prog.insn[s].kind = "call"}
  <2>1. a \in flow.callLocs
    BY <1>2, <1>5, <1>6, InBlockFacts
  <2>2. a \in CallSites(flow, flow.blocks[b])
    BY <1>1, <1>6, <2>1, CallFacts, CallSitesInBlock
  <2>3. calls # {} => calls = {LastAddr(flow.blocks[b])}
    BY <1>1 DEF CallsEndBlocks, OneCallPerBlock
  <2> QED  BY <1>6, <2>2, <2>3
<1> QED  BY <1>2, <1>3, <1>4, <1>5, <1>6 DEF IsFinished

\* The program is one of those assumed to be well formed.
GraphSound == FlowSound /\ BinaryInvariant

\* The invariant holds before the generator starts.
LEMMA InitGraphSound == InitBinary => GraphSound
<1> SUFFICES ASSUME InitBinary PROVE GraphSound
  OBVIOUS
<1>1. FlowSound /\ step = "generate"
  BY InitFlowSound DEF InitBinary
<1> QED  BY <1>1 DEF GraphSound, FlowSound, BinaryInvariant, Exists

\* Only the generator moves before it is done, and nothing of it moves after.
LEMMA GenerateKeeps == GraphSound /\ Generate => GraphSound'
<1> SUFFICES ASSUME GraphSound, Generate PROVE GraphSound'
  OBVIOUS
<1>1. FlowSound'
  BY StepFlowSound DEF GraphSound, FlowSound, BinaryInvariant, Generate
<1>2. UNCHANGED <<step, cfg>>
  BY DEF Generate
<1>3. CASE step = "generate"
  BY <1>1, <1>2, <1>3 DEF GraphSound, FlowSound, BinaryInvariant, Exists
<1>4. CASE step # "generate"
  <2>1. UNCHANGED <<pass, prog>>
    BY <1>4, DoneStays DEF GraphSound, FlowSound, BinaryInvariant, Generate, vars
  <2> QED  BY <1>1, <1>2, <2>1 DEF GraphSound, FlowSound, BinaryInvariant, Exists
<1> QED  BY <1>3, <1>4

\* A step behind the generator leaves its part of the invariant alone.
LEMMA FlowSoundStays == FlowSound /\ UNCHANGED vars => FlowSound'
BY StepFlowSound

\* A finished flow is exported, and what is exported shows the program.
LEMMA ExportKeeps == GraphSound /\ ExportFlow => GraphSound'
<1> SUFFICES ASSUME GraphSound, ExportFlow PROVE GraphSound'
  OBVIOUS
<1>1. FlowSound' /\ pass = "done" /\ UNCHANGED <<pass, prog, flow>>
  BY FlowSoundStays DEF GraphSound, FlowSound, BinaryInvariant, ExportFlow, vars
<1>2. step' \in {"contract", "prune", "aborted"}
  BY DEF ExportFlow
<1>3. ASSUME ~LoneEntryJump(prog)
      PROVE  step' \in {"contract", "prune"} /\ Shows(prog, cfg')
  <2>1. prog \in Programs /\ IsFinished(prog, flow)
    BY <1>1, <1>3, DoneIsFinished DEF GraphSound, FlowSound, BinaryInvariant
  <2>2. IsExport(prog, flow, Exported(flow))
    BY <2>1, ExportedIsExport
  <2>3. Exported(flow).edge \subseteq Exported(flow).node \X Exported(flow).node
    BY <2>2 DEF IsExport
  <2>4. flow.callLocs \subseteq {LastAddr(flow.blocks[b]) : b \in CallBlocks(flow)}
    BY <2>1, CallBlockFacts
  <2>5. cfg' = Exported(flow) /\ step' \in {"contract", "prune"}
    BY <2>3, <2>4 DEF ExportFlow
  <2> QED  BY <2>1, <2>2, <2>5, ExportShows
<1> QED  BY <1>1, <1>2, <1>3 DEF GraphSound, FlowSound, BinaryInvariant, Exists

\* Whichever straight edge is taken.
LEMMA ContractKeeps == GraphSound /\ ContractStraightPath => GraphSound'
<1> SUFFICES ASSUME GraphSound, ContractStraightPath PROVE GraphSound'
  OBVIOUS
<1>1. FlowSound' /\ pass = "done" /\ UNCHANGED <<pass, prog>> /\ step = "contract"
  BY FlowSoundStays DEF GraphSound, FlowSound, BinaryInvariant, ContractStraightPath, vars
<1>2. step' \in {"contract", "aborted"}
  BY <1>1 DEF ContractStraightPath
<1>3. ASSUME ~LoneEntryJump(prog)
      PROVE  step' = "contract" /\ Shows(prog, cfg')
  <2>1. prog \in Programs /\ Shows(prog, cfg)
    BY <1>1, <1>3 DEF GraphSound, FlowSound, BinaryInvariant, Exists
  <2>2. PICK e \in Mergeable(cfg) :
            IF e[1] = e[2] THEN step' = "aborted" /\ UNCHANGED cfg
            ELSE cfg' = Merged(cfg, e[1], e[2]) /\ UNCHANGED step
    BY DEF ContractStraightPath
  <2> DEFINE u == e[1]
             v == e[2]
  <2>3. e = <<u, v>>
    <3>1. e \in cfg.edge /\ cfg.edge \subseteq cfg.node \X cfg.node
      BY <2>1 DEF Mergeable, StraightEdges, Shows, HasParts
    <3> QED  BY <3>1
  <2>4. <<u, v>> \in Mergeable(cfg)
    BY <2>3
  <2> HIDE DEF u, v
  <2>5. u # v
    BY <2>1, <2>4, StraightFacts
  <2>6. cfg' = Merged(cfg, u, v) /\ step' = step
    BY <2>2, <2>5 DEF u, v
  <2>7. IsContraction(cfg, Merged(cfg, u, v), u, v)
    BY <2>1, <2>4, MergedIsContraction
  <2>8. Shows(prog, Merged(cfg, u, v))
    BY <2>1, <2>4, <2>7, ContractionShows
  <2> QED  BY <1>1, <2>6, <2>8
<1> QED  BY <1>1, <1>2, <1>3 DEF GraphSound, FlowSound, BinaryInvariant, Exists

\* The graph stays when no straight edge is left.
LEMMA FinishContractionKeeps == GraphSound /\ FinishContraction => GraphSound'
<1> SUFFICES ASSUME GraphSound, FinishContraction PROVE GraphSound'
  OBVIOUS
<1>1. FlowSound' /\ UNCHANGED <<pass, prog, cfg>> /\ step = "contract" /\ step' = "prune"
  BY FlowSoundStays DEF GraphSound, FlowSound, BinaryInvariant, FinishContraction, vars
<1> QED  BY <1>1 DEF GraphSound, FlowSound, BinaryInvariant, Exists

\* The graph that is left shows the program and has more than its entry.
LEMMA PruneKeeps == GraphSound /\ PruneUnreachable => GraphSound'
<1> SUFFICES ASSUME GraphSound, PruneUnreachable PROVE GraphSound'
  OBVIOUS
<1>1. FlowSound' /\ pass = "done" /\ UNCHANGED <<pass, prog>> /\ step = "prune"
  BY FlowSoundStays DEF GraphSound, FlowSound, BinaryInvariant, PruneUnreachable, vars
<1>2. /\ cfg' = PrunedGraph(cfg)
      /\ step' = IF Cardinality(ReachableNodes(cfg)) < 2 THEN "aborted" ELSE "ready"
  BY DEF PruneUnreachable, PrunedGraph
<1>3. ASSUME ~LoneEntryJump(prog)
      PROVE  step' = "ready" /\ Shows(prog, cfg') /\ Pruned(prog, cfg')
  <2>1. prog \in Programs /\ Shows(prog, cfg)
    BY <1>1, <1>3 DEF GraphSound, FlowSound, BinaryInvariant, Exists
  <2>2. 2 <= Cardinality(ReachableNodes(cfg)) /\ IsFiniteSet(ReachableNodes(cfg))
    <3>1. ReachableNodes(cfg) \in SUBSET cfg.node /\ IsFiniteSet(cfg.node)
      BY <2>1, KeptFacts DEF Shows, HasParts
    <3> QED  BY <2>1, <3>1, KeptFacts, FS_Subset
  <2>3. ~(Cardinality(ReachableNodes(cfg)) < 2)
    BY <2>2, FS_CardinalityType
  <2>4. Shows(prog, PrunedGraph(cfg)) /\ Pruned(prog, PrunedGraph(cfg))
    BY <2>1, PruningShows
  <2> QED  BY <1>2, <2>3, <2>4
<1>4. step' \in {"ready", "aborted"}
  BY <1>2
<1> QED  BY <1>1, <1>3, <1>4 DEF GraphSound, FlowSound, BinaryInvariant, Exists

\* Nothing changes when nothing changes.
LEMMA StutterKeeps == GraphSound /\ UNCHANGED allVars => GraphSound'
<1> SUFFICES ASSUME GraphSound, UNCHANGED allVars PROVE GraphSound'
  OBVIOUS
<1>1. FlowSound' /\ UNCHANGED <<pass, prog, step, cfg>>
  BY FlowSoundStays DEF GraphSound, FlowSound, BinaryInvariant, allVars, vars
<1> QED  BY <1>1 DEF GraphSound, FlowSound, BinaryInvariant, Exists

\* Every step keeps the invariant.
LEMMA StepGraphSound == GraphSound /\ [NextBinary]_allVars => GraphSound'
<1> SUFFICES ASSUME GraphSound, [NextBinary]_allVars PROVE GraphSound'
  OBVIOUS
<1>1. CASE Generate              BY <1>1, GenerateKeeps
<1>2. CASE ExportFlow            BY <1>2, ExportKeeps
<1>3. CASE ContractStraightPath  BY <1>3, ContractKeeps
<1>4. CASE FinishContraction     BY <1>4, FinishContractionKeeps
<1>5. CASE PruneUnreachable      BY <1>5, PruneKeeps
<1>6. CASE UNCHANGED allVars     BY <1>6, StutterKeeps
<1> QED  BY <1>1, <1>2, <1>3, <1>4, <1>5, <1>6 DEF NextBinary, Read

\* From the export on the control flow shows the function it was generated from, for every
\* set of well-formed programs and whichever straight paths are contracted in what order,
\* unless the generator moved the entry (exportFlow, _contract_straight_paths,
\* _merge_blocks, _prune_unreachable).
THEOREM BinaryInvariantHolds ==
    SpecBinary => [](prog \in Programs /\ InductiveInvariant /\ BinaryInvariant)
<1>1. SpecBinary => []GraphSound
  BY InitGraphSound, StepGraphSound, PTL DEF SpecBinary
<1>2. GraphSound => prog \in Programs /\ InductiveInvariant /\ BinaryInvariant
  BY DEF GraphSound, FlowSound
<1> QED  BY <1>1, <1>2, PTL

\* What LoopAnalysis and the mapper read is the program: the transfers between the reached
\* instructions, the entry and the returns are those of the section, and no instruction is
\* in two blocks, after the export, each merge and the pruning.
THEOREM ControlFlowIsShown == SpecBinary => [](~LoneEntryJump(prog) => ShowsControlFlow)
<1>1. GraphSound => (~LoneEntryJump(prog) => ShowsControlFlow)
  <2> SUFFICES ASSUME GraphSound, ~LoneEntryJump(prog) PROVE ShowsControlFlow
    OBVIOUS
  <2>1. CASE Exists   BY <2>1, ShowsFlow DEF GraphSound, FlowSound, BinaryInvariant
  <2>2. CASE ~Exists  BY <2>2 DEF ShowsControlFlow
  <2> QED  BY <2>1, <2>2
<1> QED  BY <1>1, InitGraphSound, StepGraphSound, PTL DEF SpecBinary

\* Every reached call has a callee node of one instruction behind the block it ends, which
\* no contraction touches (control_flow.py: "Function block must contain a single
\* instruction only").
THEOREM CalleesStayIntact == SpecBinary => [](~LoneEntryJump(prog) => CalleesIntact)
<1>1. GraphSound => (~LoneEntryJump(prog) => CalleesIntact)
  <2> SUFFICES ASSUME GraphSound, ~LoneEntryJump(prog) PROVE CalleesIntact
    OBVIOUS
  <2>1. CASE Exists   BY <2>1, ShowsCallees DEF GraphSound, FlowSound, BinaryInvariant
  <2>2. CASE ~Exists  BY <2>2 DEF CalleesIntact
  <2> QED  BY <2>1, <2>2
<1> QED  BY <1>1, InitGraphSound, StepGraphSound, PTL DEF SpecBinary

\* What is ready for LoopAnalysis is a flow graph in which everything is reached, with an
\* exit exactly if the function can return (_prune_unreachable, _validate_graph).
THEOREM ReadyIsFit == SpecBinary => [](~LoneEntryJump(prog) => FitForLoopAnalysis)
<1>1. GraphSound => (~LoneEntryJump(prog) => FitForLoopAnalysis)
  <2> SUFFICES ASSUME GraphSound, ~LoneEntryJump(prog), step = "ready" PROVE FitForLoopAnalysis
    BY DEF FitForLoopAnalysis
  <2>1. prog \in Programs /\ Shows(prog, cfg) /\ Pruned(prog, cfg)
    BY DEF GraphSound, FlowSound, BinaryInvariant, Exists
  <2>2. HasParts(cfg) /\ Entered(prog, cfg) /\ Left(prog, cfg)
    BY <2>1 DEF Shows
  <2>3. \A e \in cfg.edge : e[2] # cfg.entry
    <3>1. ASSUME NEW e \in cfg.edge, e[2] = EntryId PROVE FALSE
      <4>1. e[1] \in Preds(cfg, EntryId)
        BY <3>1 DEF Preds
      <4> QED  BY <2>2, <4>1 DEF Entered
    <3> QED  BY <2>2, <3>1 DEF HasParts
  <2>4. IsFlowGraph(cfg)
    <3>1. IsFiniteSet(cfg.node)
      BY <2>2 DEF HasParts, IsFiniteSet, IsFiniteSet
    <3>2. /\ {"node", "edge", "entry"} \subseteq DOMAIN cfg
          /\ cfg.node \subseteq Int /\ cfg.edge \subseteq cfg.node \X cfg.node /\ cfg.entry \in cfg.node
      BY <2>2 DEF HasParts
    <3> QED  BY <2>3, <3>1, <3>2 DEF IsFlowGraph
  <2>5. ReachableNodes(cfg) = cfg.node
    BY <2>1 DEF Pruned
  <2>6. cfg.exit = NoExit <=> \A a \in Reachable(prog) : prog.insn[a].kind # "ret"
    BY <2>1 DEF Pruned, NeverReturns
  <2>7. cfg.exit # NoExit => cfg.exit \in cfg.node /\ Succs(cfg, cfg.exit) = {}
    BY <2>2 DEF HasParts, Left
  <2> QED  BY <2>4, <2>5, <2>6, <2>7 DEF FitForLoopAnalysis
<1> QED  BY <1>1, InitGraphSound, StepGraphSound, PTL DEF SpecBinary

\* No assertion fails between the section and the loop analysis: the exporter finds every
\* call and every node it writes an edge to, no block is merged into itself, and what is
\* left has an entry and a block.
THEOREM NothingEverAborts == SpecBinary => [](~LoneEntryJump(prog) => NothingAborts)
<1>1. GraphSound => (~LoneEntryJump(prog) => NothingAborts)
  BY DEF GraphSound, FlowSound, BinaryInvariant, NothingAborts, InductiveInvariant, EntryUntouched,
         NoAssertionFails
<1> QED  BY <1>1, InitGraphSound, StepGraphSound, PTL DEF SpecBinary
=============================================================================
