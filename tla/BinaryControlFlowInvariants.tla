--------------------- MODULE BinaryControlFlowInvariants ---------------------
(***************************************************************************)
(* The inductive invariant behind the theorems about BinaryControlFlow:    *)
(* what the generator keeps (FlowGeneratorInvariants), and from the export *)
(* on a control flow that shows the function, however far its straight     *)
(* paths are contracted.                                                   *)
(***************************************************************************)
EXTENDS BinaryControlFlow, FlowGeneratorInvariants

\* The instruction a node starts with, and the instructions it is made of.
FirstOf(c, n) == c.ranges[n][1][1]

Body(p, ranges) == UNION {InsnsIn(p, ranges[i]) : i \in DOMAIN ranges}

\* Ranges of which each leads to the next and nowhere else.
Chain(p, ranges) ==
    /\ ranges \in Seq(AddrRange) \ {<< >>}
    /\ \A i \in DOMAIN ranges : Straight(p, ranges[i])
    /\ \A i \in DOMAIN ranges : i + 1 \in DOMAIN ranges =>
          GoesTo(p, ranges[i][2]) = {ranges[i + 1][1]}

\* Every node is the entry, a block, a callee, or the exit, and has a type and ranges.
HasParts(c) ==
    /\ DOMAIN c = {"node", "edge", "entry", "exit", "type", "ranges"}
    /\ DOMAIN c.type = c.node /\ DOMAIN c.ranges = c.node
    /\ c.entry = EntryId
    /\ c.node \subseteq Int \ {NoExit} /\ IsFiniteSet(c.node)
    /\ c.edge \subseteq c.node \X c.node
    /\ EntryId \in c.node \ (Blocks(c) \cup Callees(c))
    /\ c.exit \in (c.node \cup {NoExit}) \ (Callees(c) \cup {EntryId})
    /\ c.node \subseteq Blocks(c) \cup Callees(c) \cup {EntryId, c.exit}

\* The nodes in S are the blocks that start where control goes from a.
LeadTo(p, c, S, a) == S \subseteq Blocks(c) /\ {FirstOf(c, s) : s \in S} = GoesTo(p, a)

\* Nothing leads to the entry; it leads to the block the function starts with.
Entered(p, c) ==
    /\ Preds(c, EntryId) = {}
    /\ \E b \in Blocks(c) : Succs(c, EntryId) = {b} /\ FirstOf(c, b) = p.entry

\* Nothing is behind the exit; a block that has become the exit returns.
Left(p, c) ==
    /\ Succs(c, c.exit) = {}
    /\ c.exit \in Blocks(c) => p.insn[LastOf(c, c.exit)].kind = "ret"

\* A block that ends with a call leads to the callee, one that returns leads to the
\* exit or is it, any other leads to where control goes from its last instruction.
BlockShown(p, c, n) ==
    LET last == LastOf(c, n)
    IN  /\ Chain(p, c.ranges[n])
        /\ \A a \in Body(p, c.ranges[n]) :
              a \in Reachable(p) /\ (p.insn[a].kind = "call" => a = last)
        /\ p.insn[last].kind = "call" => \E m \in Callees(c) : Succs(c, n) = {m}
        /\ p.insn[last].kind = "ret" =>
              \/ n = c.exit
              \/ c.exit \in c.node \ Blocks(c) /\ Succs(c, n) = {c.exit}
        /\ p.insn[last].kind \notin {"call", "ret"} => LeadTo(p, c, Succs(c, n), last)

\* A callee is the call of the one block that leads to it, and leads to where that
\* call returns to.
CallShown(p, c, m) ==
    \E n \in Blocks(c) :
        /\ Preds(c, m) = {n} /\ Succs(c, n) = {m}
        /\ p.insn[LastOf(c, n)].kind = "call"
        /\ c.ranges[m] = << <<LastOf(c, n), LastOf(c, n)>> >>
        /\ LeadTo(p, c, Succs(c, m), LastOf(c, n))

\* Each instruction that can be reached is in one block.
Parted(p, c) ==
    /\ \A a \in Reachable(p) : \E n \in Blocks(c) : a \in Body(p, c.ranges[n])
    /\ \A n, m \in Blocks(c) : n # m => Body(p, c.ranges[n]) \cap Body(p, c.ranges[m]) = {}

Shows(p, c) ==
    /\ HasParts(c)
    /\ Entered(p, c)
    /\ Left(p, c)
    /\ Parted(p, c)
    /\ \A n \in Blocks(c) : BlockShown(p, c, n)
    /\ \A m \in Callees(c) : CallShown(p, c, m)

NeverReturns(p) == \A a \in Reachable(p) : p.insn[a].kind # "ret"

\* What is left by the pruning is reached, and there is an exit if the function returns.
Pruned(p, c) ==
    /\ ReachableNodes(c) = c.node
    /\ c.exit = NoExit <=> NeverReturns(p)

\* The flow is exported when the generator is done; from then on the control flow
\* shows the function it was generated from, unless the generator moved the entry.
BinaryInvariant ==
    /\ step \in {"generate", "contract", "prune", "ready", "aborted"}
    /\ step # "generate" => pass = "done"
    /\ ~LoneEntryJump(prog) =>
          /\ step # "aborted"
          /\ Exists => Shows(prog, cfg)
          /\ step = "ready" => Pruned(prog, cfg)
=============================================================================
