------------------------- MODULE BinaryControlFlow -------------------------
(***************************************************************************)
(* The way of a flow from elf2flow to the mapper: JsonFlowExporter (src/   *)
(* libbincfg/src/flow/JsonFlowExporter.cpp) writes the generator's flow as *)
(* a graph with an entry, an exit and a node for each callee, and          *)
(* BinaryControlFlow (src/py-mapping/fparser/control_flow.py) reads it,    *)
(* contracts straight paths unless told not to, and prunes what cannot be  *)
(* reached.  What comes out is the graph LoopAnalysis starts from.         *)
(***************************************************************************)
EXTENDS FlowGenerator, FlowGraph

VARIABLES
    step,  \* what is being done with the generator's flow
    cfg    \* the ControlFlow object

allVars == <<vars, step, cfg>>

(* A control flow is a record: node and edge are its digraph, entry and    *)
(* exit are _entryId and _exitId (NoExit for None), and type and ranges    *)
(* are the block types and their AddrRanges.                               *)
EntryId == -1
ExitId  == -2
NoExit  == 0

EmptyControlFlow ==
    [node |-> {}, edge |-> {}, entry |-> EntryId, exit |-> ExitId,
     type |-> << >>, ranges |-> << >>]

InitBinary ==
    /\ Init
    /\ step = "generate"
    /\ cfg = EmptyControlFlow

Generate == Next /\ UNCHANGED <<step, cfg>>

-----------------------------------------------------------------------------
(* exportFlow, read back by _parse_json_obj.                               *)

\* Mutant: a block is named for where its last range starts.
NodeOfLastRange(f, b) == f.blocks[b].ranges[Len(f.blocks[b].ranges)][1]

NodeId(f, b) == f.blocks[b].ranges[1][1]

\* The blocks whose last instruction is a call that no block before has taken.
CallBlocks(f) ==
    {b \in Starts(f) :
        /\ LastAddr(f.blocks[b]) \in f.callLocs
        /\ \A c \in Starts(f) : c < b => LastAddr(f.blocks[c]) # LastAddr(f.blocks[b])}

\* Callees are numbered downwards behind the entry and the exit.
CalleeId(f, b) == ExitId - Cardinality({c \in CallBlocks(f) : c <= b})

Exported(f) ==
    LET calls == CallBlocks(f)
        Out(b) == IF b \in calls THEN CalleeId(f, b) ELSE NodeId(f, b)
        blockOf == [n \in {NodeId(f, b) : b \in Starts(f)} |->
                        CHOOSE b \in Starts(f) : NodeId(f, b) = n]
        callOf == [n \in {CalleeId(f, b) : b \in calls} |->
                        CHOOSE b \in calls : CalleeId(f, b) = n]
        nodes == {EntryId, ExitId} \cup DOMAIN blockOf \cup DOMAIN callOf
    IN  [node   |-> nodes,
         edge   |-> {<<EntryId, f.postEntry>>}
                    \cup {<<b, ExitId>> : b \in f.preExit}
                    \cup {<<NodeId(f, b), CalleeId(f, b)>> : b \in calls}
                    \cup UNION {{<<Out(b), s>> : s \in Successors(f, NodeId(f, b))}
                                  : b \in Starts(f)},
         entry  |-> EntryId,
         exit   |-> ExitId,
         type   |-> [n \in nodes |->
                       CASE n = EntryId -> "Entry" [] n = ExitId -> "Exit"
                         [] n \in DOMAIN callOf -> "FunctionCall" [] OTHER -> "Normal"],
         ranges |-> [n \in nodes |->
                       CASE n \in DOMAIN blockOf -> f.blocks[blockOf[n]].ranges
                         [] n \in DOMAIN callOf ->
                              LET a == LastAddr(f.blocks[callOf[n]]) IN << <<a, a>> >>
                         [] OTHER -> << >>]]

\* "Not all function calls were processed" on the way out; an edge to a node that
\* is not there on the way in.
ExportFlow ==
    /\ step = "generate" /\ pass = "done"
    /\ IF /\ flow.callLocs \subseteq {LastAddr(flow.blocks[b]) : b \in CallBlocks(flow)}
          /\ Exported(flow).edge \subseteq Exported(flow).node \X Exported(flow).node
       THEN /\ cfg' = Exported(flow)
            /\ step' \in {"contract", "prune"}
       ELSE step' = "aborted" /\ UNCHANGED cfg
    /\ UNCHANGED vars

-----------------------------------------------------------------------------
(* _contract_straight_paths and _merge_blocks.                             *)

\* Mutant: it is enough that u leads nowhere else.
SingleSuccessor(c) == {e \in c.edge : Succs(c, e[1]) = {e[2]}}

StraightEdges(c) ==
    {e \in c.edge : Succs(c, e[1]) = {e[2]} /\ Preds(c, e[2]) = {e[1]}}

\* Mutant: callees are merged like any block.
MergeableCalls(c) == {e \in StraightEdges(c) : e[1] # c.entry}

\* _merge_blocks refuses to merge into the entry.
Mergeable(c) ==
    {e \in StraightEdges(c) : /\ c.type[e[1]] # "FunctionCall"
                              /\ c.type[e[2]] # "FunctionCall"
                              /\ e[1] # c.entry}

\* Mutant: the exit that is merged away stays the exit.
KeptExit(c, u, v) == c.exit

MovedExit(c, u, v) == IF c.exit = v THEN u ELSE c.exit

\* v goes into u, with its ranges behind those of u and its successors.
Merged(c, u, v) ==
    LET nodes == c.node \ {v}
    IN  [node   |-> nodes,
         edge   |-> {e \in c.edge : v \notin {e[1], e[2]}}
                    \cup {<<u, s>> : s \in Succs(c, v)},
         entry  |-> c.entry,
         exit   |-> MovedExit(c, u, v),
         type   |-> [n \in nodes |-> IF n = u /\ c.exit = v THEN "Exit" ELSE c.type[n]],
         ranges |-> [n \in nodes |-> IF n = u THEN c.ranges[u] \o c.ranges[v]
                                     ELSE c.ranges[n]]]

\* Merging a node into itself fails: the edge back is added to a node that is gone.
ContractStraightPath ==
    /\ step = "contract"
    /\ \E e \in Mergeable(cfg) :
        IF e[1] = e[2] THEN step' = "aborted" /\ UNCHANGED cfg
        ELSE cfg' = Merged(cfg, e[1], e[2]) /\ UNCHANGED step
    /\ UNCHANGED vars

FinishContraction ==
    /\ step = "contract" /\ Mergeable(cfg) = {}
    /\ step' = "prune"
    /\ UNCHANGED <<vars, cfg>>

-----------------------------------------------------------------------------
(* _prune_unreachable and _validate_graph.                                 *)

PruneUnreachable ==
    /\ step = "prune"
    /\ LET kept == ReachableNodes(cfg)
       IN  /\ cfg' = [Subgraph(cfg, kept) EXCEPT
                        !.exit = IF @ \in kept THEN @ ELSE NoExit,
                        !.type = [n \in kept |-> cfg.type[n]],
                        !.ranges = [n \in kept |-> cfg.ranges[n]]]
           /\ step' = IF Cardinality(kept) < 2 THEN "aborted" ELSE "ready"
    /\ UNCHANGED vars

Read ==
    /\ step \in {"ready", "aborted"} \/ pass = "aborted"
    /\ UNCHANGED allVars

NextBinary ==
    \/ Generate \/ ExportFlow \/ ContractStraightPath \/ FinishContraction
    \/ PruneUnreachable \/ Read

SpecBinary == InitBinary /\ [][NextBinary]_allVars /\ WF_allVars(NextBinary)

-----------------------------------------------------------------------------
(* Correctness.                                                            *)

Exists == step \in {"contract", "prune", "ready"}

Callees(c) == {n \in c.node : c.type[n] = "FunctionCall"}

Blocks(c) == {n \in c.node \ Callees(c) : c.ranges[n] # << >>}

LastOf(c, n) == c.ranges[n][Len(c.ranges[n])][2]

\* Where control goes behind a node: callees return at once.
After(c, n) ==
    (Succs(c, n) \ Callees(c))
    \cup UNION {Succs(c, m) : m \in Succs(c, n) \cap Callees(c)}

ShownArrows(c) ==
    UNION {(UNION {Along(prog, c.ranges[n][i]) : i \in DOMAIN c.ranges[n]})
           \cup {<<c.ranges[n][i][2], c.ranges[n][i + 1][1]>> :
                    i \in 1 .. Len(c.ranges[n]) - 1}
           \cup {<<LastOf(c, n), c.ranges[s][1][1]>> : s \in After(c, n) \cap Blocks(c)}
             : n \in Blocks(c)}

\* The instructions after which control leaves the function: a block that the exit
\* has been merged into is the exit.
ShownExits(c) ==
    {LastOf(c, n) : n \in IF c.exit \in Blocks(c) THEN {c.exit}
                          ELSE Blocks(c) \cap Preds(c, c.exit)}

\* After the export, each single merge and the pruning, the graph still shows the
\* transfers between the instructions the function can reach, the instruction it
\* starts with and those it returns from; and, callees aside, no instruction is in
\* two blocks (ranges[0] is a node's name for its successors' arrows).
ShowsControlFlow ==
    Exists =>
        /\ ShownArrows(cfg) = ProgramArrows(prog, Reachable(prog))
        /\ {cfg.ranges[n][1][1] : n \in Succs(cfg, cfg.entry)} = {prog.entry}
        /\ ShownExits(cfg) = {a \in Reachable(prog) : prog.insn[a].kind = "ret"}
        /\ \A a \in Reachable(prog) :
            \E n \in Blocks(cfg) :
                \A m \in Blocks(cfg) :
                    (\E i \in DOMAIN cfg.ranges[m] : a \in InsnsIn(prog, cfg.ranges[m][i]))
                        => m = n

\* Every call that is reached has a callee node of its own, and contraction leaves
\* it alone: one range of one instruction ("Function block must contain a single
\* instruction only", control_flow.py:870), behind the block the call ends.
CalleesIntact ==
    Exists =>
        /\ {cfg.ranges[n] : n \in Callees(cfg)} =
               {<< <<a, a>> >> : a \in {b \in Reachable(prog) : prog.insn[b].kind = "call"}}
        /\ \A n \in Callees(cfg) :
            \E b \in Blocks(cfg) :
                /\ Preds(cfg, n) = {b} /\ Succs(cfg, b) = {n}
                /\ LastOf(cfg, b) = LastOf(cfg, n)

\* What the loop analysis takes for granted: all nodes are reached from the entry,
\* nothing leads to the entry or from the exit, and there is no exit exactly if the
\* function never returns.
FitForLoopAnalysis ==
    step = "ready" =>
        /\ IsFlowGraph(cfg)
        /\ ReachableNodes(cfg) = cfg.node
        /\ cfg.exit = NoExit <=> \A a \in Reachable(prog) : prog.insn[a].kind # "ret"
        /\ cfg.exit # NoExit => cfg.exit \in cfg.node /\ Succs(cfg, cfg.exit) = {}

\* No assertion fails on the way: every call location is the end of a block when
\* the exporter looks for it, and every edge it writes has its nodes.
NothingAborts == step # "aborted" /\ pass # "aborted"
=============================================================================
