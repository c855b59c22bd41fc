--------------------------- MODULE FlowGenerator ---------------------------
(***************************************************************************)
(* FlowGenerator::createFuncFlow (src/libbincfg/src/flow/FlowGenerator.cpp)*)
(* rebuilds the control flow graph of one function from the disassembly of *)
(* its section: a worklist of block candidates, then three passes that     *)
(* rewrite the graph (fixOverlaps, mergeJumpBlocks, manageFuncCallBlocks)  *)
(* and a last one that names the callees (symbolize).  A step here is one  *)
(* turn of the loop of a pass.                                             *)
(***************************************************************************)
EXTENDS Flow, Program

CONSTANT Programs  \* the sections and function entries to process

ASSUME ProgramsWellFormed == \A p \in Programs : WellFormed(p)

-----------------------------------------------------------------------------
VARIABLES
    prog,      \* the section and the function entry being processed
    pass,      \* the pass createFuncFlow is in
    queue,     \* candidateQueue
    visited,   \* the keys of blockRefCount
    flow,      \* the flow under construction
    todo,      \* blocks the current pass still has to look at
    merges,    \* blocksToMerge, each block with the jump block it was found from
    pending,   \* funcCallLocs, the call locations not handled yet
    current    \* the block whose call locations are being handled, a set of at most one

vars == <<prog, pass, queue, visited, flow, todo, merges, pending, current>>

Passes == {"trace", "overlaps", "merge", "calls", "symbolize", "done", "aborted"}

Init ==
    /\ prog \in Programs
    /\ pass = "trace"
    /\ queue = <<prog.entry>>
    /\ visited = {}
    /\ flow = EmptyFlow(prog.entry)
    /\ todo = {} /\ merges = {} /\ pending = {} /\ current = {}

\* An assertion of the (debug) build fails: the process dies as it stands.
Abort ==
    /\ pass' = "aborted"
    /\ UNCHANGED <<prog, queue, visited, flow, todo, merges, pending, current>>

-----------------------------------------------------------------------------
(* The worklist of createFuncFlow.                                         *)

\* Mutant: a candidate seen before goes back into the worklist.
RequeueCandidate ==
    /\ pass = "trace" /\ queue # << >>
    /\ Head(queue) \in visited
    /\ queue' = Append(Tail(queue), Head(queue))
    /\ UNCHANGED <<prog, pass, visited, flow, todo, merges, pending, current>>

SkipCandidate ==
    /\ pass = "trace" /\ queue # << >>
    /\ Head(queue) \in visited
    /\ queue' = Tail(queue)
    /\ UNCHANGED <<prog, pass, visited, flow, todo, merges, pending, current>>

\* Walk from a new candidate to the next instruction that ends a block.
TraceBlock ==
    /\ pass = "trace" /\ queue # << >>
    /\ Head(queue) \notin visited
    /\ LET start  == Head(queue)
           last   == Min(BlockEnds(prog, start))
           edges  == {<<start, t>> : t \in TargetSet(prog, last)}
           traced == AddNewContiguousBlock(AddEdges(flow, edges), start, last)
       IN  /\ visited' = visited \cup {start}
           /\ queue' = Tail(queue) \o Targets(prog, last)
           /\ flow' = [traced EXCEPT
                 !.preExit  = IF prog.insn[last].kind = "ret" THEN @ \cup {start} ELSE @,
                 !.callLocs = @ \cup CallsIn(prog, start, last)]
    /\ UNCHANGED <<prog, pass, todo, merges, pending, current>>

FinishWorklist ==
    /\ pass = "trace" /\ queue = << >>
    /\ pass' = "overlaps"
    /\ todo' = Starts(flow)
    /\ UNCHANGED <<prog, queue, visited, flow, merges, pending, current>>

-----------------------------------------------------------------------------
(* fixOverlaps walks a copy of the block map in increasing order.  A block *)
(* it rewrites keeps its key, and one it has not reached yet still has the *)
(* range of the copy, so the copy need not be kept.  Dereferencing the end *)
(* iterator of a std::map reads its node count.                            *)

FirstStart(S) == IF S = {} THEN Cardinality(Starts(flow)) ELSE Min(S)

StartAfter(a) == FirstStart({b \in Starts(flow) : b > a})    \* upper_bound
StartFrom(a)  == FirstStart({b \in Starts(flow) : b >= a})   \* lower_bound

\* Mutant: a block start at the last instruction is no overlap.
OverlapsBeforeLast(b) ==
    LET last == LastAddr(flow.blocks[b])
    IN  b # last /\ StartAfter(b) # StartFrom(last)

Overlaps(b) ==
    LET last == LastAddr(flow.blocks[b])
    IN  /\ b # last
        /\ (StartAfter(b) # StartFrom(last) \/ StartFrom(last) = last)

KeepBlock ==
    /\ pass = "overlaps" /\ todo # {}
    /\ ~Overlaps(Min(todo))
    /\ todo' = todo \ {Min(todo)}
    /\ UNCHANGED <<prog, pass, queue, visited, flow, merges, pending, current>>

\* Mutant: no in-edge is dropped (FlowGenerator.cpp:423, commented out).
IncomingAll(b, next) == {e \in flow.edges : e[2] = b}

\* getEdgeDifference: the in-edges, without a self loop the next block also has.
IncomingKept(b, next) ==
    {e \in flow.edges : e[2] = b /\ ~(e[1] = b /\ <<next, b>> \in flow.edges)}

\* The block is removed and put back up to the next block start.
TrimOverlap ==
    /\ pass = "overlaps" /\ todo # {}
    /\ Overlaps(Min(todo))
    /\ LET b      == Min(todo)
           next   == StartAfter(b)
           before == {a \in Addresses(prog) : a < next}
           last   == next - prog.insn[Max(before)].size
           cut    == AddNewContiguousBlock(RemoveBlock(flow, b), b, last)
       IN  IF next \in Addresses(prog)
           THEN /\ flow' = AddEdges(cut, IncomingKept(b, next) \cup {<<b, next>>})
                /\ todo' = todo \ {b}
                /\ UNCHANGED <<prog, pass, queue, visited, merges, pending, current>>
           ELSE Abort

-----------------------------------------------------------------------------
(* mergeJumpBlocks first selects, then merges in the order of selection:   *)
(* a block A whose only out-edge comes from a jump takes in its successor  *)
(* B if nothing else leads to B.                                           *)

\* Mutant: the successor may have other in-edges.
JumpMergesOfAny(f) ==
    {e \in f.edges : /\ Successors(f, e[1]) = {e[2]}
                     /\ prog.insn[LastAddr(f.blocks[e[1]])].kind = "jump"}

JumpMerges(f) ==
    {e \in f.edges : /\ Successors(f, e[1]) = {e[2]}
                     /\ Predecessors(f, e[2]) = {e[1]}
                     /\ prog.insn[LastAddr(f.blocks[e[1]])].kind = "jump"}

FinishOverlaps ==
    /\ pass = "overlaps" /\ todo = {}
    /\ pass' = "merge"
    /\ merges' = JumpMerges(flow)
    /\ UNCHANGED <<prog, queue, visited, flow, todo, pending, current>>

\* A is looked up again, because the jump block may have been merged itself.
MergeBlock ==
    /\ pass = "merge"
    /\ \E m \in merges :
        /\ \A n \in merges : m[1] <= n[1]
        /\ LET B         == m[2]
               A         == CHOOSE a \in Predecessors(flow, B) : TRUE
               exits     == {<<A, s>> : s \in Successors(flow, B)}
               blk       == flow.blocks[B]
               removed   == RemoveBlockUpdatingEntry(flow, B)
               extended  == AddEdges(InsertBlockAddrRanges(removed, A, blk.ranges), exits)
           IN  IF MayRemove(flow, B) /\ A \in Starts(removed)
               THEN /\ flow' = IF exits = {}
                               THEN [extended EXCEPT !.preExit = @ \cup {A}]
                               ELSE extended
                    /\ merges' = merges \ {m}
                    /\ UNCHANGED <<prog, pass, queue, visited, todo, pending, current>>
               ELSE Abort

\* manageFuncCallBlocks has nothing to do in a function without calls.
FinishMerge ==
    /\ pass = "merge" /\ merges = {}
    /\ pass' = IF flow.callLocs = {} THEN "symbolize" ELSE "calls"
    /\ todo' = IF flow.callLocs = {} THEN {} ELSE Starts(flow)
    /\ pending' = flow.callLocs
    /\ UNCHANGED <<prog, queue, visited, flow, merges, current>>

-----------------------------------------------------------------------------
(* manageFuncCallBlocks: one call per block.  The worklist is a set of     *)
(* pointers, so the order in which blocks leave it is arbitrary.           *)

InRange(S, range) == {c \in S : range[1] <= c /\ c <= range[2]}

CallRanges(b) ==
    {i \in DOMAIN flow.blocks[b].ranges : InRange(pending, flow.blocks[b].ranges[i]) # {}}

StartBlock ==
    /\ pass = "calls" /\ current = {} /\ pending # {}
    /\ \E b \in todo :
        /\ todo' = todo \ {b}
        /\ IF CallRanges(b) = {}
           THEN UNCHANGED <<flow, current>>
           ELSE current' = {b} /\ flow' = SetType(flow, b, "CALL")
    /\ UNCHANGED <<prog, pass, queue, visited, merges, pending>>

\* Ranges and the calls in a range are taken from the back.  The block ends
\* with its call or is split behind it; the type of the first block split off
\* a range is read from its content, the others inherit CALL.
SplitAtCall ==
    /\ pass = "calls"
    /\ \E b \in current :
        LET range == flow.blocks[b].ranges[Max(CallRanges(b))]
            call  == Max(InRange(pending, range))
            size  == prog.insn[call].size
            next  == call + size
            first == \A c \in InRange(flow.callLocs, range) : c <= call
            split == SplitBlock(flow, b, call, size)
            rest  == pending \ {call}
            Rest(blk) == \E i \in DOMAIN blk.ranges : InRange(rest, blk.ranges[i]) # {}
        IN  IF call = LastAddr(flow.blocks[b])
            THEN /\ pending' = rest
                 /\ current' = IF Rest(flow.blocks[b]) THEN {b} ELSE {}
                 /\ UNCHANGED <<prog, pass, queue, visited, flow, todo, merges>>
            ELSE IF ~MaySplit(flow, b, call, size) THEN Abort
            ELSE /\ flow' = IF first
                            THEN SetType(split, next,
                                         IF HasCalls(split, next) THEN "CALL" ELSE "NORMAL")
                            ELSE split
                 /\ todo' = todo \cup {next}
                 /\ pending' = rest
                 /\ current' = IF Rest(split.blocks[b]) THEN {b} ELSE {}
                 /\ UNCHANGED <<prog, pass, queue, visited, merges>>

FinishCalls ==
    /\ pass = "calls" /\ current = {}
    /\ pending = {} \/ todo = {}
    /\ IF pending = {}
       THEN /\ pass' = "symbolize"
            /\ todo' = {}
            /\ UNCHANGED <<prog, queue, visited, flow, merges, pending, current>>
       ELSE Abort

-----------------------------------------------------------------------------
(* symbolize stores the callee of every call location of a CALL block (the *)
(* location stands for the name of what it calls) and asserts there is one.*)

CallSites(f, blk) ==
    UNION {InRange(f.callLocs, blk.ranges[i]) : i \in DOMAIN blk.ranges}

Symbolize ==
    /\ pass = "symbolize"
    /\ IF \E b \in Starts(flow) : /\ flow.blocks[b].type = "CALL"
                                  /\ CallSites(flow, flow.blocks[b]) = {}
       THEN Abort
       ELSE /\ pass' = "done"
            /\ flow' = [flow EXCEPT !.blocks =
                 [b \in Starts(flow) |->
                    [flow.blocks[b] EXCEPT !.callees =
                        IF flow.blocks[b].type = "CALL"
                        THEN CallSites(flow, flow.blocks[b]) ELSE @]]]
            /\ UNCHANGED <<prog, queue, visited, todo, merges, pending, current>>

\* createFuncFlow has returned, or the process is gone.
Terminated ==
    /\ pass \in {"done", "aborted"}
    /\ UNCHANGED vars

Next ==
    \/ SkipCandidate \/ TraceBlock \/ FinishWorklist
    \/ KeepBlock \/ TrimOverlap \/ FinishOverlaps
    \/ MergeBlock \/ FinishMerge
    \/ StartBlock \/ SplitAtCall \/ FinishCalls
    \/ Symbolize
    \/ Terminated

Spec == Init /\ [][Next]_vars /\ WF_vars(Next)

-----------------------------------------------------------------------------
(* Type invariant.                                                         *)

\* Every variable keeps its type; for the flow this says that block keys are
\* addresses, that a block has a sequence of address ranges (a trimmed range has
\* a natural number for its end) and that the edges are pairs of addresses.
TypeOK ==
    /\ pass \in Passes
    /\ queue \in Seq(Nat)
    /\ visited \subseteq Nat
    /\ todo \subseteq Nat
    /\ merges \subseteq Nat \X Nat
    /\ pending \subseteq Nat
    /\ current \subseteq Nat
    /\ IsFlow(flow)

-----------------------------------------------------------------------------
(* What the flow says of the instructions, and what the program says.      *)

InsnsIn(p, range) == {a \in Addresses(p) : range[1] <= a /\ a <= range[2]}

Covered(p, f) ==
    UNION {UNION {InsnsIn(p, f.blocks[b].ranges[i]) : i \in DOMAIN f.blocks[b].ranges}
              : b \in Starts(f)}

\* Control flow between instructions as the flow shows it: along a range, from
\* a range to the next, and from the end of a block to the start of another.
Along(p, range) ==
    {e \in InsnsIn(p, range) \X InsnsIn(p, range) :
        e[1] < e[2] /\ \A a \in InsnsIn(p, range) : ~(e[1] < a /\ a < e[2])}

Arrows(p, f) ==
    (UNION {LET r == f.blocks[b].ranges
            IN  (UNION {Along(p, r[i]) : i \in DOMAIN r})
                \cup {<<r[i][2], r[i + 1][1]>> : i \in 1 .. Len(r) - 1}
              : b \in Starts(f)})
    \cup {<<LastAddr(f.blocks[e[1]]), e[2]>> : e \in f.edges}

-----------------------------------------------------------------------------
(* Correctness of the generator.                                           *)

Running == pass # "aborted"
Traced  == pass \notin {"trace", "aborted"}

\* Whatever pass is rewriting the graph, overlapping or disjoint, merged or
\* split, the flow shows exactly the control transfers of the instructions it
\* covers: no pass adds, drops or redirects one (fixOverlaps, mergeJumpBlocks,
\* splitBlock).
ControlFlowPreserved ==
    Running => Arrows(prog, flow) = ProgramArrows(prog, Covered(prog, flow))

\* Once the worklist is empty the blocks cover exactly the instructions that
\* control can reach from the function entry, and no pass loses one.
CoversReachableCode ==
    Traced => Covered(prog, flow) = Reachable(prog)

\* After fixOverlaps an instruction lies in one range of one block.
NoOverlap ==
    pass \in {"merge", "calls", "symbolize", "done"} =>
        \A b, c \in Starts(flow) :
            \A i \in DOMAIN flow.blocks[b].ranges, j \in DOMAIN flow.blocks[c].ranges :
                \/ b = c /\ i = j
                \/ InsnsIn(prog, flow.blocks[b].ranges[i])
                     \cap InsnsIn(prog, flow.blocks[c].ranges[j]) = {}

\* Every edge, the entry marker and the exit markers name blocks that exist,
\* in every pass that removes, merges or splits blocks.
NoDanglingEdges ==
    Traced => /\ \A e \in flow.edges : e[1] \in Starts(flow) /\ e[2] \in Starts(flow)
              /\ flow.postEntry \in Starts(flow)
              /\ flow.preExit \subseteq Starts(flow)

\* The entry marker stays on the block that starts at the function entry
\* (createFuncFlow: "First block starts at function entry").
EntryKept == Running => flow.postEntry = prog.entry

\* The exit markers are on the blocks that end with a return, through trimming,
\* merging and splitting.
ExitsMarked ==
    Traced => flow.preExit =
        {b \in Starts(flow) : prog.insn[LastAddr(flow.blocks[b])].kind = "ret"}

\* When the generator is done a block has at most one call, the call is its
\* last instruction, and the block has type CALL and names that one callee;
\* a NORMAL block has none (manageFuncCallBlocks: "ensures at most one fcn call
\* per block").
OneCallPerBlock ==
    pass = "done" =>
        \A b \in Starts(flow) :
            LET blk   == flow.blocks[b]
                calls == {a \in CallSites(flow, blk) : prog.insn[a].kind = "call"}
            IN  IF prog.insn[LastAddr(blk)].kind = "call"
                THEN /\ blk.type = "CALL"
                     /\ calls = {LastAddr(blk)} /\ blk.callees = calls
                ELSE blk.type = "NORMAL" /\ calls = {} /\ blk.callees = {}

\* No assertion of the generator or of Flow fails.
NoAssertionFails == pass # "aborted"

\* The generator implements the exploration of the instruction graph: tracing
\* a candidate makes at most one run known, and every later pass is invisible
\* at the level of instructions.
Promise == INSTANCE InsnGraph WITH
    known     <- Covered(prog, flow),
    transfers <- Arrows(prog, flow),
    entry     <- flow.postEntry,
    exits     <- {LastAddr(flow.blocks[b]) : b \in flow.preExit},
    final     <- pass # "trace"

ImplementsInsnGraph == Promise!Spec

\* Every run of the generator comes to an end.
Terminates == <>(pass \in {"done", "aborted"})

=============================================================================
