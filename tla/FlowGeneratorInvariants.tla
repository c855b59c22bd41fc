----------------------- MODULE FlowGeneratorInvariants -----------------------
(***************************************************************************)
(* The inductive invariant behind the theorems about FlowGenerator.  It    *)
(* has four parts: what a pass is about to use exists; the blocks show     *)
(* the instructions they are made of; calls end their blocks; the entry    *)
(* block stays.                                                            *)
(***************************************************************************)
EXTENDS FlowGenerator

-----------------------------------------------------------------------------
(* What a pass is about to use exists.                                     *)

Queued == {queue[i] : i \in DOMAIN queue}

\* The worklist never holds an address that is not decoded.
CandidatesDecoded == queue \in Seq(Code(prog)) /\ visited \subseteq Code(prog)

\* While tracing, what is not a block yet waits in the worklist.
WorklistClosed ==
    pass = "trace" =>
        /\ Starts(flow) = visited
        /\ \A e \in flow.edges : e[1] \in visited /\ e[2] \in visited \cup Queued
        /\ flow.postEntry \in visited \cup Queued
        /\ flow.preExit \subseteq visited

StartsDecoded == pass \in {"trace", "overlaps"} => Starts(flow) \subseteq Code(prog)

TodoPresent == pass \in {"overlaps", "calls"} => todo \subseteq Starts(flow)

\* A selected block stays, and has one predecessor, until its merge.
MergesSound ==
    pass = "merge" =>
        \A m \in merges :
            /\ m[2] \in Starts(flow)
            /\ \E a \in Starts(flow) : Predecessors(flow, m[2]) = {a}
            /\ \A n \in merges : n[2] = m[2] => n = m

CallsDecoded ==
    /\ \A a \in flow.callLocs : a \in Addresses(prog) /\ prog.insn[a].kind = "call"
    /\ pending \subseteq flow.callLocs

CurrentHasCall ==
    /\ current # {} => pass \in {"calls", "aborted"}
    /\ \A b \in current : b \in Starts(flow) /\ CallRanges(b) # {}

\* Every variable has its type, and whatever a pass is about to use exists: the
\* candidates of the worklist, the blocks left to look at, the blocks selected
\* for merging with their one predecessor, the call in the block being split.
PiecesExist ==
    /\ TypeOK
    /\ CandidatesDecoded
    /\ WorklistClosed
    /\ NoDanglingEdges
    /\ StartsDecoded
    /\ TodoPresent
    /\ MergesSound
    /\ CallsDecoded
    /\ CurrentHasCall
-----------------------------------------------------------------------------
(* The blocks show the instructions they are made of.                      *)

\* Instructions that follow each other, of which at most the last ends a block.
Straight(p, range) ==
    /\ range[1] \in Addresses(p) /\ range[2] \in Addresses(p) /\ range[1] <= range[2]
    /\ \A a \in InsnsIn(p, range) \ {range[2]} :
          ~EndsBlock(p, a) /\ Following(p, a) \in Addresses(p)

\* Ranges are joined where a jump led from one to the next.
Joined(p, ranges) ==
    /\ ranges # << >>
    /\ \A i \in DOMAIN ranges : Straight(p, ranges[i])
    /\ \A i \in DOMAIN ranges : i + 1 \in DOMAIN ranges =>
          /\ p.insn[ranges[i][2]].kind = "jump"
          /\ p.insn[ranges[i][2]].target = ranges[i + 1][1]

\* The block at b is made of the instructions from b on, its out-edges are the
\* transfers of its last instruction, and it is an exit if that is a return.
BlockFits(p, f, b) ==
    /\ Joined(p, f.blocks[b].ranges)
    /\ f.blocks[b].ranges[1][1] = b
    /\ Successors(f, b) = GoesTo(p, LastAddr(f.blocks[b]))
    /\ b \in f.preExit <=> p.insn[LastAddr(f.blocks[b])].kind = "ret"

BlocksFit == \A b \in Starts(flow) : BlockFits(prog, flow, b)

\* One range from b to the next instruction that ends a block.
Traversed(b) == flow.blocks[b].ranges = << <<b, Min(BlockEnds(prog, b))>> >>

\* fixOverlaps goes from the first block to the last: those ahead are as they were
\* traced, and behind it no block starts inside another.
TrimmedInOrder ==
    /\ pass = "trace" => \A b \in Starts(flow) : Traversed(b)
    /\ pass = "overlaps" =>
        /\ \A b \in todo : Traversed(b) /\ \A c \in Starts(flow) : b < c => c \in todo
        /\ \A b \in Starts(flow) \ todo :
              /\ Len(flow.blocks[b].ranges) = 1
              /\ \A c \in Starts(flow) : ~(b < c /\ c <= LastAddr(flow.blocks[b]))

\* No two ranges of the flow meet.
Disjoint(f) ==
    \A b, c \in Starts(f) :
        \A i \in DOMAIN f.blocks[b].ranges, j \in DOMAIN f.blocks[c].ranges :
            \/ b = c /\ i = j
            \/ f.blocks[b].ranges[i][2] < f.blocks[c].ranges[j][1]
            \/ f.blocks[c].ranges[j][2] < f.blocks[b].ranges[i][1]

RangesDisjoint == pass \in {"merge", "calls", "symbolize", "done"} => Disjoint(flow)

\* The entry and where control goes from what is covered.
LedTo == {prog.entry} \cup UNION {GoesTo(prog, a) : a \in Covered(prog, flow)}

\* What has been traced can be reached; what it leads to has been traced or waits, and
\* nothing else waits.
CoverageGrows ==
    /\ Covered(prog, flow) \cup Queued \subseteq Reachable(prog)
    /\ pass = "trace" =>
        /\ LedTo \subseteq Covered(prog, flow) \cup Queued
        /\ Queued \subseteq LedTo

\* The way to a selected block is still a jump.
MergesFollowJumps ==
    pass = "merge" => \A m \in merges : \A a \in Predecessors(flow, m[2]) :
        prog.insn[LastAddr(flow.blocks[a])].kind = "jump"

BlocksShowInstructions ==
    /\ BlocksFit
    /\ TrimmedInOrder
    /\ RangesDisjoint
    /\ CoverageGrows
    /\ CoversReachableCode
    /\ MergesFollowJumps

-----------------------------------------------------------------------------
(* Calls end their blocks.                                                 *)

Handled == flow.callLocs \ pending

\* Before the calls are looked at, blocks have no types and no callees.
CallsUntouched ==
    /\ pass \in {"trace", "overlaps", "merge"} =>
        \A b \in Starts(flow) : flow.blocks[b].type = "NORMAL"
    /\ pass # "done" => \A b \in Starts(flow) : flow.blocks[b].callees = {}

\* A call that is handled ends a block of type CALL, a call that is not is in a block
\* that will be looked at; no other block has type CALL.
CallsTracked ==
    pass \in {"calls", "symbolize", "done"} =>
        /\ \A b \in Starts(flow) :
              /\ flow.blocks[b].type = "CALL" <=>
                    b \in current \/ LastAddr(flow.blocks[b]) \in Handled
              /\ CallRanges(b) # {} => b \in todo \cup current
        /\ \A a \in Handled : \E b \in Starts(flow) : LastAddr(flow.blocks[b]) = a
        /\ \A b, c \in current : b = c
        /\ pass # "calls" => pending = {} /\ current = {}

\* The call locations are the calls that have been traced.
CallsKnown ==
    flow.callLocs = {a \in Covered(prog, flow) : prog.insn[a].kind = "call"}

CallsEndBlocks ==
    /\ CallsUntouched
    /\ CallsTracked
    /\ CallsKnown
    /\ OneCallPerBlock

-----------------------------------------------------------------------------
(* The entry block is not merged away, and no assertion fails.             *)

EntryUntouched ==
    ~LoneEntryJump(prog) =>
        /\ flow.postEntry = prog.entry
        /\ pass = "merge" => \A m \in merges : m[2] # prog.entry
        /\ NoAssertionFails

InductiveInvariant ==
    /\ PiecesExist
    /\ BlocksShowInstructions
    /\ CallsEndBlocks
    /\ EntryUntouched
=============================================================================
