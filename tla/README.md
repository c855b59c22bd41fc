# vigilant-insn2src-mapper, verified in TLA+

The repository maps the basic blocks of a compiled function to the blocks of its source,
so that instruction timing can be written back to the source. The mapping is meant to be
*complete*: no instruction may get lost. Everything before the mapping therefore has to keep
the control flow of the function intact: whatever a pass drops, splits wrongly or puts into
the wrong loop is time that ends up in the wrong place.

TLC checks these modules on small instances; TLAPS proves theorems about them for every
instance. `PROJECT.json` has the runs, the mutants, the hazards, the findings, the theorems
and, under `map`, the source lines each definition models.

## 1. The system

Two programs, both sequential, connected by a JSON file per function.

```
 ELF --objdump--> disassembly --> FlowGenerator --> Flow --> JsonFlowExporter --> flow.json
                  (C++: elf2flow)                                                    |
 source --cbb-analyzer (elsewhere)--> flow.csv --------+      BinaryControlFlow <----+
                                                       |             |   contract, prune
                                             SourceControlFlow       v
                                                       +------> LoopInfo (loop analysis)
                                                                     |
                       edge matcher --> loop reduction, regions --> loop matcher
                                                                     |
                                     control dependencies --> mappers, one per flow pair
                                                                     |
                                                        graph maps, safety checks, report
```

| component | state it keeps | operations | what makes it correct | here |
|---|---|---|---|---|
| disassembly reader, decoding (`disasm`, `arch`) | map from address to instruction | parse objdump; kind, size, target of an instruction | every instruction classified once | `Program` (what the generator asks) |
| `FlowGenerator` | worklist, blocks seen, the flow, per-pass worklists | `createFuncFlow`: trace, `fixOverlaps`, `mergeJumpBlocks`, `manageFuncCallBlocks`, `symbolize` | each pass keeps the control flow; blocks end up disjoint, one call each | `FlowGenerator`, `InsnGraph` |
| `Flow`, `BasicBlock` | blocks by start address, multimap of edges, entry and exit markers, call locations | add, remove, extend, trim, split blocks | edges and markers follow the blocks | `Flow` |
| `JsonFlowExporter` | - | adds entry, exit and callee nodes | each call gets its node, no edge without nodes | `BinaryControlFlow` |
| `ControlFlow` (`fparser`) | networkx graph, entry, exit, caches of trees | read, contract straight paths, prune, validate | same control flow, all nodes reachable | `BinaryControlFlow` |
| `loop_analysis` | search numbers, union-find, types, loop tree | `DfsTree`, `analyze_loops`, `LoopInfo` | exactly the natural loops; irreducible flows rejected | `LoopAnalysis` |
| `dominator` | tree, marks on nodes and arcs | numbering, `test_dominance`, `nearest_common_dominator` | dominance as defined on paths | `CommonDominator`, `ControlDependence` |
| control dependencies | dict from edge to nodes | `get_control_dependencies` | as defined on paths | `ControlDependence` |
| `transformer`, `region` | flow being reduced, region collection, hierarchy | reduce a loop to a node, hang regions into each other | quotient of the graph; hierarchy is the loop nest | `LoopReduction`, `HierarchicalFlow` |
| `loop_matcher` | keys taken, loops mapped, loops to match and to skip | take line table keys, look up source loops, filter | each binary loop matched once or skipped; with good debug information, its own | `LoopMatching` |
| `map_flows`, `ctrldep_mapper`, `skip_mapper`, graph maps | partners of levels, a map per level, the flat map | pair levels, map level by level, copy, complete, skip, flatten, check | accepted maps are complete, respect the loop nest; wrong matchings are refused | `Mapping` |
| `domlump_mapper` | sets of nodes | lump along simple paths, heads, up the dominator tree | each node ends at a mapped one that is sure to run with it | `Lumping`, `DominatorLumping` |
| `homo_mapper` | worklist, map, known conflicts | rounds of mapping and rejecting, removal of ambiguous entries | dominance kept both ways; progress | `HomomorphismMapper` |
| `edge_matcher` | labels of edges | match discriminators, label decisions | equal labels, equal decisions | its labels in `Mapping` |
| DWARF reader, OTAWA import, renderers, reports, command lines | - | I/O and layout | - | not modelled |

What is hard here is not concurrency: there is none. It is

* **order nobody chose**: worklists ordered by pointer (`std::set<BasicBlock*>`), Python 2
  dicts and sets, stacks that take turns. The models leave each such order open.
* **selections that go stale**: passes that select first and rewrite afterwards, that walk a
  copy of what they change, node numbers and surrogates that outlive their nodes, marks left
  on a shared tree from one query to the next.
* **long series of legal calls**: trim, merge, split and reduce one block or loop after the
  other, each leaving behind what the next one relies on.
* **boundaries**: end iterators that are dereferenced, node 0 taken for "no node", ranges
  with one instruction, blocks that consist of nothing but a call.
* **assertions**: the debug build (`build.sh:39`) and Python run with assertions on, so a
  wrong assumption ends the program. In the models that is the pass or phase `"aborted"`.

`hazards` in `PROJECT.json` lists them one by one at their lines.

## 2. The modules

| module | code | state and actions |
|---|---|---|
| `Program` | what `FlowGenerator` asks of `Instruction` | a section: `entry`, and for each address kind, size and target; `BlockEnds`, `Targets`, `CallsIn` are `updateWorklist` and the walk to the end of a block |
| `Flow` | `Flow.cpp`, `BasicBlock.cpp` | the operations of the classes as operators on a record: blocks, edges, entry and exit markers, call locations |
| `FlowGenerator` | `createFuncFlow` | `pass` says where it is; one action per turn of the loop of a pass, with the assertion that may fail in it |
| `InsnGraph` | the promise | the abstract specification: runs of instructions become known until none is missing; `FlowGenerator` implements it through `Covered` and `Arrows` |
| `BinaryControlFlow` | exporter, `BinaryControlFlow` | extends `FlowGenerator`: export and read, merge one straight path, prune |
| `FlowGraph` | networkx graphs | records of nodes, edges, entry; textbook definitions of reachability, dominance, natural loops, reducibility |
| `LoopAnalysis` | `_post_init`, `loop_analysis.py` | the search step by step, then Havlak's algorithm one header, one worklist item at a time |
| `LoopReduction` | `transformer.py`, `region.py` | extends `LoopAnalysis`: one action per reduced loop, then the hierarchy |
| `CommonDominator` | `nearest_common_dominator` | one action per stack made, per turn of a stack, per examination of the last stack; the marks outlive the query |
| `ControlDependence` | `get_control_dependencies`, `dominator.py` | extends `CommonDominator`: build and number the tree, look at the edges in any order, query the tree; or any series of queries of any tree |
| `HierarchicalFlow` | `get_reduced_hierarchy` | no state: the levels it returns, in closed form; `LoopReduction` computes them (`RegionsAreLevels`), `Mapping` starts from them |
| `LoopMatching` | `loop_matcher.match` | loops take keys innermost first, source loops get their lines, binary loops are looked up outermost first, and filtered |
| `Mapping` | `map_flows` and the safety check of `do_mapping` | `stage` says which mapper is at work; one action per pair of levels and mapper, per skipped loop, per level that `flatten` adds |
| `Lumping` | `_map_subgraph` of `DominatorLumping` | no state: what a step lumps, and all of it in one go (`Completions`) |
| `DominatorLumping` | the same | one action per node and pass; it ends with one of `Completions`, which is what `Mapping` uses |
| `HomomorphismMapper` | `_map_subgraph` of `HomomorphismMapper` | one action per round, with its rejections in every order, then the removal of ambiguous entries |
| `FlowGeneratorInvariants`, `BinaryControlFlowInvariants`, `LoopAnalysisInvariants`, `LoopReductionInvariants`, `MappingInvariants` | | the inductive invariants behind the theorems; runs check the first two |
| `FlowGraphTheorems` | | lemmas: numbers, finite sets and bounded iteration; reachability, dominance, depth-first numbers and natural loops |
| `FlowProofs` | | lemmas on the operators of `Flow`, instructions, and flows whose blocks show their instructions; the three parts of the generator's invariant; the refinement of `InsnGraph`; export, contraction and pruning |
| `LoopAnalysisProofs` | | the search, Havlak's algorithm and the loop tree; then the reduction |
| `ControlDependenceProofs` | | trees, queries for the nearest common dominator, post-dominator trees and their numbers, control dependencies |
| `LoopMatchingProofs`, `MappingProofs` | | the matching of loops, and what the pipeline of mappers makes of it: the tree of levels, lumping in one go, each mapper |
| `DominatorLumpingProofs`, `HomomorphismProofs` | | lumping step by step, and the rounds of the homomorphism mapper |
| `MC...` | | the small instances |

What a property is compared with is always defined on the level below and independently: on
instructions (`ProgramArrows`, `Reachable`) for flows, on paths (`ReachedFrom`,
`Dominates`, `NaturalLoops`) for graphs, on the flows themselves for maps. Modules that
follow each other are tied together by a property of the first and an assumption or a
definition of the second: `FitForLoopAnalysis` delivers what `LoopAnalysis` assumes,
`RegionsAreLevels` what `Mapping` starts from, `LumpingComplete` the step `Mapping` takes.

Abstractions. An instruction is one of six kinds (plain, call, skip, branch, jump, ret);
formats, mnemonics, names and logging are left out; a callee is known by its call location.
`networkx` is external: reachability and immediate dominators are what their definitions say.
For the mappers, debug information is a place per node (known or not), the nodes it lets a
node go to, or the keys and lines of a loop; source and binary are given by these, not by text.

Assumptions, each an `ASSUME` that TLC evaluates:

* `ProgramsWellFormed`: control stays in the decoded section. Out of it,
  `insnMap->find(candidate)->...` (FlowGenerator.cpp:111) is undefined behaviour.
* `GraphsAreFlowGraphs`, `ControlFlowsUsable`: nothing leads to the entry, because exporter
  (JsonFlowExporter.cpp:47-53) and source analyzer add an entry node, and everything can be
  reached, because `_prune_unreachable` runs first. `FitForLoopAnalysis` checks that
  `BinaryControlFlow` delivers this.
* `JobsAreJobs`, `LevelsAreLevels`, `InputsAreInputs`, `PairsArePairs`: flows in which control
  never gets stuck, levels whose entry is mapped (the fixed points of both mappers contain it),
  trees, and loop trees that list a loop before the loops in it.
* `TreesAreTrees`, and the last condition of `ControlFlowsUsable`: what is queried is a tree, with
  node 0 as the root if at all (the exit of a source flow is node 0; a binary function at
  address 0 is outside the model).

## 3. The runs

Passing runs:

| run | instances | what it shows |
|---|---|---|
| `functions` | every function of up to 4 instructions of all six kinds, entered at the first or the second; 6 instructions of calls, jumps and returns | in every order of the worklists, each pass of the generator keeps control flow, coverage, disjointness, markers and edges, and ends with one call per block; export, contraction in any order (or `--no-simplify`) and pruning show the same control flow, keep callees whole and deliver what loop analysis needs |
| `promise` | 4 instructions | the generator implements `InsnGraph` and terminates |
| `loops` | 5 nodes, two out-edges each (a block ends with one branch), every search order | exactly the natural loops are found, irreducible flows rejected, each step makes progress; reduction gives the quotient graph and a hierarchy that is the loop nest |
| `depend` | every tree of 5 nodes with any series of queries; flows of 5 nodes, two out-edges, endless loops included, edges, children and stacks in any order | the nearest common dominator, always an answer; dominance by numbers is dominance on paths; control dependencies are right; an assertion fails exactly when control can get stuck |
| `lump` | levels of 5 nodes with up to 6 edges, any nodes mapped, any order of the dominator tree | every node is lumped into a mapped one that dominates it or that control goes straight on to |
| `map` | the same flow of 6 nodes twice; 5 nodes with a place lost on one side, and 7 where a mapper finds no line; 4 and 5 nodes with loops removed from the source, any matching, any annotations, also mistaken ones | accepted maps are complete and respect the loop nest; only isomorphic nests are accepted; errors only for unmatched source loops and mistaken annotations; with plain decisions the precise map keeps how often blocks run |
| `homo` | two trees of 4 nodes, any references within two lines, fixed points, both orders, any order of the pairs | the map keeps dominance after each round; every round makes progress |
| `match` | any two source loops with any two binary loops, keys at three lines, annotations; three loops nested in any way with traceable debug information | each binary loop is matched once or skipped; traceable loops are matched with their own |

Why the bounds are enough. Four instructions hold a loop entered in the middle (overlap), a
call before a branch, a skip over a call, a jump block to merge and a block that is trimmed
twice; six of the reduced set hold chains of three ranges with calls in each. Five graph
nodes hold nested loops, two loops with a common header or exit, an irreducible region in a
loop and a loop left from its inside; six hold the same between an entry and an exit. Four
tree nodes hold a sibling with a child of its own beside a leaf, the smallest case in which a
round rejects more than it maps. Each property has a mutant, a plausible bug of the
code, that the same run finds, so the situations occur. `EntryKept` and the other markers
are checked on programs with `LoneEntryJumps = FALSE`, and reduction and mapping on graphs
without back edges out of inner loops: this leaves out exactly the inputs of the findings
`assert` and `deep` below, which have runs of their own. `PreciseIsAlike` and
`TraceableIsMatched` have a hypothesis (`DecidedPlainly`; `WellFormatted`, `Traceable`) that says
how far the heuristics can be trusted; `alike` is what happens beyond it.

Violations: what the code does against what it says.

| run | what it shows |
|---|---|
| `assert` | the entry block has an in-edge from outside the flow does not show. If the only edge back to it comes from a jump (`plain; jmp entry`), `mergeJumpBlocks` merges the entry block and an assertion fails in `removeBlock` or `mergeJumpBlocks`; if the block has one out-edge, the entry marker moves to its successor instead |
| `deep` | a `continue` of the outer loop from inside an inner one: `get_entry_edges` does not translate the tail to the surrogate of the inner loop, takes the edge for an entry edge and brings the removed surrogate back (FIXME at transformer.py:266) |
| `alike` | "we can annotate to any of them" (ctrldep_mapper.py:124): blocks with the same controlling edges in their level need not run equally often: a loop tested in its middle, or tests that lead into or out of inner loops |
| `switch` | "Remove all entries ... where we could have confused siblings" (homo_mapper.py:279): two siblings that could be switched stay mapped if one has children that are not mapped |

Not violations, but worth knowing:

* The "preorder numbers" of loop tree nodes are depths, because the counter is passed by
  value (loop_analysis.py:408). Reduction only needs inner loops before outer ones, so it
  still works; `LoopMatching` takes loops of one depth in any order for the same reason.
* "Found eternal loop" (loop_analysis.py:391) is logged for loops without exit edges of their
  own, also for `for(;;) { while (a) if (b) return; }`, which is left from inside an inner loop.
* A function that never terminates, or can get stuck, is accepted by `_post_init` and then
  fails an assertion in the post-dominator tree; `FailsIfEndless` says that nothing else does.
* Of the header of a source loop `get_loop_min_max` takes the first line only
  (loop_matcher.py:137-138), so the end of a do-while of one block is not part of it;
  `WellFormatted` asks for headers on one line.
* A loop inside a skipped loop is not skipped with it: the surrogate of the inner loop gets
  into the flat map and the safety check refuses the function.

Fairness. Each specification with a liveness property has weak fairness of its next-state
relation, in `ControlDependence` of the turns of a query, and nothing stronger: one sequential
process takes its next step as long as it has one. Liveness (`Terminates`, `QueriesAnswered`)
follows from that alone, however worklists are ordered. For the worklists that may only
shrink in the long run, `AnalysisProgresses` and `RoundsProgress` say what each step gains.

Deadlock is checked in all runs: a process that has returned or failed stutters explicitly
(`Terminated`, `Read`, `Ended`).

## 4. The proofs

All of it holds for every set of well-formed sections, flow graphs, levels, trees or loops of any size.

| theorem | what it says |
|---|---|
| `InvariantHolds` | the inductive invariant of the generator |
| `TypeCorrect`, `EdgesNeverDangle`, `ControlFlowIsPreserved`, `ReachableCodeIsCovered`, `BlocksNeverOverlap`, `ExitsAreMarked`, `CallsEndTheirBlocks` | the invariants of the generator that run `functions` checks |
| `EntryStays`, `AssertionsHold` | the entry marker stays and no assertion fails, unless `LoneEntryJump` |
| `GeneratorImplementsInsnGraph` | every step of the generator is a step of `InsnGraph` or invisible to it, unless `LoneEntryJump` |
| `BinaryInvariantHolds`, `ControlFlowIsShown`, `CalleesStayIntact`, `ReadyIsFit`, `NothingEverAborts` | export, contraction and pruning keep the control flow and deliver what loop analysis assumes, unless `LoneEntryJump` |
| `IrreducibleRejected`, `LoopNestIsCorrect`, `ExitEdgesAreLeaving` | what the loop analysis returns is the nesting of the natural loops; it returns exactly for reducible flows (with more than an entry) |
| `BackEdgesAreFound`, `OutermostRepresented`, `AnalysisAdvances`; `TypeCorrect` of `LoopAnalysisProofs` | what holds on the way, and that every step gains something |
| `ReductionInvariantHolds`, `ReductionTypeCorrect` | the inductive invariant of the reduction; surrogates are new nodes, one for each reduced loop |
| `ReductionIsQuotient`, `RegionsAreLevelsOfNest` | unless `HasDeepBackEdge`: the graph is at any time the quotient by the loops reduced so far, each region is the level of its loop in `HierarchicalFlow`, and the only cycles left are those through a header |
| `HierarchyIsTree` | the hierarchy can always be built, and is the loop tree |
| `QueriesAnswerNearest` | a query for the nearest common dominator is answered correctly, on every tree |
| `NumbersTestDominance`, `DependencesAreRight`, `FailsOnlyIfEndless` | numbers decide post-dominance; control dependencies are those of the paths; no assertion of a query fails, and nothing is returned exactly for flows that can get stuck |
| `MapIsHomomorphism`, `EveryRoundProgresses` | the rounds of the homomorphism mapper |
| `LumpingInvariantHolds`, `LumpingIsSound`, `LumpingNeverFails` | lumping is sound in every pass, fails no assertion and maps every node |
| `LumpingIsComplete` | the passes, node by node, end with one of `Completions`, which `Mapping` takes in one step |
| `EachLoopIsProcessedOnce` | each binary loop is matched once or skipped |
| `TraceableLoopsAreMatched` | where debug information is good, each loop is matched with its own |
| `MappingInvariantHolds`, `CrashesAreExplained` | what each mapper leaves to the next; none of their look-ups fails, unless a source loop has no match or a loop to skip is mistaken |
| `PreciseMapsAreAlike` | for the same program on both sides, with plain decisions, the precise map takes each block to one that runs as often |
| `NestIsRespected`, `NestsAreIsomorphic` | an accepted map is complete, takes each block into the partner of its loop, and matches the nests of loops by an isomorphism |

`LoneEntryJump(p)` is the input of finding `assert`: the one way back to the entry instruction
is a jump. There the code does lose the entry or fail, so the theorems exclude it and nothing
more; the runs exclude the same programs with `LoneEntryJumps = FALSE`.

**The generator.** None of its invariants is inductive. `InductiveInvariant` has four parts;
each needs the ones before it, and each has one lemma per action.

1. `PiecesExist`: what a pass is about to use exists. While tracing, an edge leads to a block
   or a queued candidate (`WorklistClosed`, which becomes `NoDanglingEdges` when the queue is
   empty); candidates are decoded, so every walk has an end; each selected block has one
   predecessor and is selected once, and a merge keeps that for the others, which is why
   `mergeJumpBlocks` may look A up again (`MergesSound`); the block being split holds an open
   call (`CurrentHasCall`).
2. `BlocksShowInstructions`: a block is a sequence of ranges of consecutive instructions, joined
   by jumps; its out-edges are the transfers of its last instruction, and it is an exit if that
   is a return (`BlocksFit`). From this alone follow `ControlFlowPreserved` and `ExitsMarked`
   (`FittingArrows`), so it suffices to show it for what tracing, trimming, merging and
   splitting leave (`TraceFits`, `TrimFits`, `MergeFits`, `SplitFits`). `NoOverlap` needs the order of
   `fixOverlaps`: behind it no block starts in another, ahead of it every block still ends where
   it was traced to (`TrimmedInOrder`); that is also why comparing `upper_bound` with
   `lower_bound` finds exactly the overlaps (`OverlapMeaning`), end iterators included.
   Coverage is a closure: what is covered or queued can be reached, and what is covered leads to
   nothing else (`CoverageGrows`); with an empty queue it is all that can be reached.
3. `CallsEndBlocks`: a handled call ends a block of type CALL, an open one is in a block that
   will be looked at (`CallsTracked`). Because calls are taken from the back of a block,
   what is split off has no open call left, and its last range tells whether it has one at all,
   so `hasCalls` may look at one range (`SplitOffType`).
4. `EntryUntouched`: without a lone jump to the entry, the entry block is never selected
   (`EntryNotSelected`), since everything covered is reached and the flow shows all the ways
   back; a block that leads only to itself cannot be reached, so no assertion of a merge fails.

**The refinement.** `Covered`, `Arrows`, the markers and "not tracing" are the variables of
`InsnGraph`. By parts 2 and 4 they are functions of the covered instructions (`AbstractState`).
`TraceBlock` covers one run, or nothing new, and so is `Explore` or a stutter;
`FinishWorklist` is `Finish`, since nothing is missing; later passes change no covered
instruction. Fairness of `InsnGraph` follows from termination and stays with TLC (`promise`).

**Export and reading.** `BinaryInvariant` says that the control flow `Shows` the program: each
block is a chain of ranges of which each leads only to the next; it leads to the blocks
that start where control goes, to its callee if it ends with a call, to the exit (or is it) if it
returns; callees have one block before them; each instruction is in one block. A graph with this
property has the arrows, exits and callees of the program (`ShowsFlow`, `ShowsCallees`).
A finished flow is exported to such a graph (`ExportShows`: no two blocks end with one instruction,
so every call gets its callee, and callee numbers differ). A merge keeps it whatever
straight edge is taken (`ContractionShows`); it never merges a block with itself, because such
a block could not be reached from the entry (`AllReached`, `StraightFacts`). Pruning drops nothing
but the exit of a function that never returns (`KeptFacts`, `PruningShows`).

**Loop analysis.** The reference is defined on paths, the code works on numbers; `FlowGraphTheorems`
relates the two for any depth-first search (`IsSearch`): a dominator is an ancestor
(`DominatorsAreAncestors`), so back edges lead to ancestors; without the edges to ancestors the
graph is acyclic, and in a reducible graph they are the back edges (`UpEdgesIfReducible`); the
loops of two heads are nested or disjoint (`LoopsNestOrAreDisjoint`). `InductiveInvariant` of
`LoopAnalysisInvariants` has three layers:

1. `SearchInvariant`: what has numbers is a depth-first tree. A node that has been left leads to
   nothing beyond its last descendant (`LeftNodes`), and each node has been reached from a parent
   that is the closest of its ancestors (`HaveParents`). When the path is empty this is
   `IsSearch`, and since everything is reached, everything is numbered: `CheckTree` never fails.
2. `Recorded`, `Collapsed`, `BodyFound`, `EnteredAtHeaders`: the types say what the tails of a
   header are; a representative is an ancestor; and, unless an irreducible loop has been found,
   what has been collapsed can only be entered at its representative. The last part is what
   `IrreducibleRejected` needs: such a region is dominated by its header (`RegionOfBody`,
   `SingleEntryDominates`), so without an irreducible header every edge to an ancestor is a back
   edge, and that is reducibility.
3. `LoopsCollapsed`: in a reducible graph no alien is found, P stays within the loop of its
   header (`SourcesInLoop`), and when it is complete it stands for the whole loop, since a loop
   is the least set that leads to the tails (`BodyIsLoop`). So collapsing gives each node its
   outermost loop and records, once, the innermost one around it.

In the end the header recorded for a node is the last head of another loop around it
(`HeaderIsLastHead`), loops around one node are nested, and so it is the innermost one
(`LastHeadIsInnermost`), which is what the loop tree is compared with.

**Loop reduction.** `ReductionInvariant` (in `LoopReductionInvariants`) extends the one of the
analysis, which is over when the reduction begins.

1. The preorder numbers of the loop tree are depths (see section 3), so `DeepestLeft`
   takes a loop whose inner loops are reduced: `LevelsAreDepths`, `DeepestIsNext`. Reduced loops are
   therefore closed under going inwards (`SurrogatesAreNew`).
2. `SurrogatesAreKept`: the surrogate of a reduced loop is in the region of the loop around it, as
   soon as that is reduced, and in the current graph until then. A region is made of what
   `BodyNodes` names, each translated, and that is the surrogates of the inner loops
   (`ReduceKeepsSurrogates`). So for each inner region there is a flow one level up that holds
   it, and no other (`HeldByParent`): the hierarchy is the loop tree, with deep back edges or without.
3. `Quotients`: what a node has become is its image, the surrogate of the outermost reduced loop
   around it (`IsImage`). The nodes of the next loop have images of their own, which no other node
   has (`NextIsSaturated`); `BodyNodes` and `backPreds`, translated, are just the images of the nodes
   and the tails of the loop (`LoopNodesAreImages`, `TailsAreImages`), the latter only if there
   is no deep back edge, which is where the proof needs that hypothesis. Then collapsing the
   set in the quotient gives the next quotient (`CollapsedGraph`), and what is cut out is the
   region (`RegionGraph`).
4. Two surrogate namings give the same quotient up to renaming (`RenamedQuotient`), so a
   region is the level of the closed form (`SubloopsAround`, `LevelIs`); without the edges
   to an ancestor the images are ordered by the finishing numbers of what they stand for
   (`QuotientLeadsDown`), so there is no other cycle than through the header (`QuotientIsAcyclic`).
   `RegionsAreLevelsOfNest` supposes that headers are positive, because the closed form
   calls a level by its header and the flow itself 0; `ReductionIsQuotient` does not.

**Dominators and control dependence.** `DependenceInv` (in `ControlDependenceProofs`, with one lemma
per action) has three parts, one for each thing the code builds on another.

1. `QueryInv`: a query in its rounds (`InRounds`). Each stack goes up from a re-entered
   node by visited arcs (`IsClimb`), where visited arcs end a stack goes on (`GoesOnAt`), where two of
   them meet the node is re-entered (`Marked`), and what is above all nodes asked about is above all
   re-entered nodes (`Asked`). When one stack is left, visited arcs end nowhere else
   (`OneLeft`, `OnlyFromBelow`); so it holds a re-entered node, the topmost one is above
   all nodes of the query (`TopmostIsAbove`) and nothing common lies below it
   (`TopmostIsNearest`). Undoing the marks above it and splitting the stack restores the
   invariant with the same answer (`Examined`), which is why no assertion fails.
2. `NumberInv`: numbers while the search is under way (`IsNumbering`). Those of a node that was left,
   up to its last one, are the numbers of the nodes below it (`LeftFits`); those of an open call, from its number
   on (`OpenFits`). In the end the two comparisons say "is above" (`NumberingEnds`).
3. `TreeBuilt`: the tree is that of the flow. Post-dominance is dominance in the reversed flow
   (`PostDominanceIsDominance`): a way exists in both directions or in neither
   (`ReversedReached`). Dominators are a chain, ordered by how many nodes they dominate
   (`FewerDominators`), so each node has a nearest one (`NearestDominatorExists`), parents form a tree
   (`TreeOfIsTree`), and the way up the tree is post-dominance (`WayUpIsPostDominance`).

`EdgesFit` then says which edges are left, asked about and noted, and what an edge is noted with is
what it decides about (`ControlledIsDependsOn`). If all edges have been looked at, both ends of each are in
the tree, and as everything is reached from the entry, so is every node (`AllEnd`).

**Lumping.** A set of nodes that moves up goes to a dominator of the node it is named after, and so
of all of it (`MoveUp`). A node that moves down goes where its only successor has gone, which is
sound for that node (`SoundBackwards`) but need not be for others in its set. It is alone: what a
node with one successor dominates, the successor dominates, too (`OnlySuccessorDominates`), and
while nodes move one step up at a time, what goes up takes everything on its way along (`Convex`), so
with another node in the set the successor would be there as well and not have arrived
(`AloneIfDown`). The last pass jumps to where the node above has gone; that is a dominator, since a node
that has moved down leaves nothing below it that has not arrived (`DownIsLast`, `RestMoves`). That no node
has two below it on a simple path is `OnlyChild`; that a dominator has a lower number
(`NumberedInPreorder`) makes each pass meet a node before what it moves to, so no set that has been
emptied is filled again.

That the passes, taken in the order of any numbering, give what `Completions` gives in one go rests on
a description of a pass that does not mention the order: `SimpleSoFar` and `RestSoFar` say what has
become of each node when some have been taken, each after those below it. One more node keeps
this (`SimpleGoesOn`, `RestGoesOn`), and when all are taken there is one outcome (`SimpleIsUnique`,
`RestIsUnique`), so preorder and depth lead to the same. Only heads depend on the order they come in, and
`Completions` has every order. `InOneGo` says for each phase which of these the state has come to.

**Homomorphism mapper.** A pair of mapped nodes that fails is rejected as soon as it is tested,
and a rejection only takes nodes out, so a pair that is settled stays settled
(`RejectSettles`, `LoopsSettle`): after all tests, in any order, none fails. What a round rejects was
mapped in it, to an image that its conflicts did not rule out, so the conflict is new.

**Loop matching.** The filter partitions the loops mapped to each source loop into a main loop
and self loops to skip; main loops are singletons where the assertion holds, so matching is
injective and the counts add up (`EachIsOne`).

That each loop is matched with its own where debug information is good takes three steps.
In a well formatted function the lines that `get_loop_tree` finds for a loop are its extent, from
its header's line on, and extents are nested like the loops (`LaidOut`); so the loops that hold a
line of loop b are those around b, and the search goes inwards through them and ends
at b (`HoldingIsChain`, `AtIsFound`). Deeper loops have taken their keys before, so keys
that b shares with them are gone, and the key that only b and the loops around it have is still
there (`KeysKeptIn`, `KeysAreKept`). With the loop around b matched right, lines of that loop
are left out when b is matched, and what is left are lines of b (`TellingIsOwn`); they lead to
b (`LoopAtIsOwn`), and with one binary loop for each source loop nothing is filtered.

**Mapping.** The levels a flow is cut into (`HierarchicalFlow`) are defined level by level; the
proof first puts them back together. Natural loops of a reducible flow are nested or disjoint
(`LoopsAreNested`), so each node has one innermost loop and each loop one level it is a surrogate in
(`HierarchyIsTree`, `HierarchyAreasAreApart`); each level is a flow graph in which everything is
reached (`LevelIsReached`), which is what lumping asks for. `MappingInvariant` (in
`MappingInvariants`) then says, mapper by mapper, what is handed on:

1. `PartnersFit`, `WhilePairing`: partners hang below partners, and every source loop below a level
   that has a partner has one or is still to come. `HierarchiesMatch` alone does not say that the
   matches are onto and keep the nest; with `AllPaired` it does (`MatchFacts`).
2. `PreciseFits`: whatever labels agree, the map of a level goes into the level of its partner and
   has the header, since no fixed point is taken out again. So each level is a task for lumping, and lumping
   leaves no node out (`CompletionsComplete`), in whatever order it takes the heads.
3. `WhileSkipping`: a skipped loop finds its surrogate mapped, because the level around it is complete.
4. `WhileFlattening`: what is added to a level comes from the area of a loop in it, and areas of two loops
   of a level are apart (`Area`). So maps that are added never overlap, whatever the order, and a level that
   has been added is complete (`RightPlace` says where its nodes may be mapped to).

An image that is the surrogate of a source loop becomes the header of that loop
(`RealImageFacts`), a node of the same level. The surrogate of a loop within a skipped loop stays in the
flat map, where the safety check refuses it; so skipped loops of an accepted map are innermost ones
below a level that has a partner (`AcceptedFacts`), the last level with a partner around a node is the one that
maps it, and `NestRespected` is what that level promised.
`OnlyIsomorphicNests` and `CrashesOnlyIf` follow from `AllPaired` and `Ending`.

`PreciseIsAlike` is about all ways through a flow, and is proved without speaking of ways: what is
reached from the entry, or from the successors of a node, stays within a set of nodes that is
described by post-dominance (`PostDominanceFacts`, dominance in the reversed flow). Let the same
decisions, at least one, control a and b, none of them dominated by a or b, and let b
post-dominate a. What makes b certain makes a certain, so b only becomes certain by such a decision
or by a; so a dominates b, and neither comes twice before the
other comes (`SameControlInTurns`). A level shows only its own decisions. That those are all that
control a node of the level (`LevelDecides`) is where `DecidedPlainly` is needed:

* a decision in an inner loop would have to leave it to decide about a node outside, as a loop is
  connected (`LoopIsConnected`, `CertainInLoop`);
* a decision outside a loop could only make a node of it certain through the head
  (`CertainFromHead`), and from there all decisions of the loop about that node come too late.

With all places known, labels stand for one decision each (`LabelsDiffer`), and fixed points are mapped to
themselves (`FixedIsAlike`).

Assumptions: `ProgramsWellFormed`, `GraphsAreFlowGraphs`, `TreesAreTrees`, `ControlFlowsUsable`,
`LevelsAreLevels`, `JobsAreJobs`, `InputsAreInputs`, `PairsArePairs` (with the numbering of the loops, `NoLoop`
no number, and finitely many lines and keys), each evaluated by TLC. The attempt to prove
`CoversReachableCode` showed that being decoded at every target is not enough: the walk to the
end of a block steps over a gap in the disassembly, and the flow then shows a transfer the
program does not have. `ClosedCode` therefore asks for contiguous code up to the end of a block.

`LoopAnalysisInvariants`, `LoopReductionInvariants` and `MappingInvariants` are no part of a run; TLC found their
invariants to hold in all flows of 5 nodes like those of run `loops` before they were proved (that of
the reduction also in those of run `deep`), and the properties that follow from them are
checked by that run. `LumpingInvariant` (in `DominatorLumpingProofs`) was found to hold in all
levels of run `lump` in the same way, `MappingInvariant` in all states of run `map`.

Reachability, rejection in two nested loops, depths and extents in a loop tree, the look-up of
lines and the three passes of `Completions` are recursive functions.
Of such functions `FlowGraphTheorems` proves what is needed without an induction rule that takes an
operator: induction over the numbers and over a finite set, as sets
(`NaturalsByInduction`, `SetInduction`), that an iteration exists and obeys its
equations (`IterationExists`, `RecursionExists`), as do a recursion on a tree (`RankedRecursion`)
and one that takes the elements of a finite set one by one (`SetRecursion`),
and that one which only adds to a finite set is
closed after as many steps as the set has elements (`IterationCloses`).

Only model-checked: liveness, fairness and everything about `ENABLED`, which are outside the
prover's reach (`Terminates`, `QueriesAnswered`, the fairness in `ImplementsInsnGraph`). Every other
property of a passing run is stated by a theorem.

## 5. Not modelled

* Text in and out: objdump, DWARF (`dwarf/`, `fparser/dwarf.py`), JSON and CSV syntax, OTAWA
  import, rendering, reports, command lines, logging. Together with the benchmark programs
  under `data/` that the tool is tried on, this is most of the repository by lines; nothing in
  it keeps state that a step could get wrong.
* `edge_matcher`'s matching of discriminators, with `reduce_to_connected_subgraph`, and how
  `homo_mapper` collects references from lines, calls and variables: what they deliver is an
  input, chosen freely (`place`, `refs`).
* Execution counts of skipped loops (`ExecCountRange`) and statistics.
* `SourceControlFlow`'s reading of its CSV, `findFunctions` and `generateFlows` (which
  functions there are), how mnemonics are classified.
* `split_block`, `get_reduced_flows` and `mapping/completer.py`, which nothing calls; `genarch`,
  which nothing imports; builds with `NDEBUG`, where `splitBlock` and `removeEdges`, called
  inside `assert`, would vanish.

## 6. The plan

Done: generator, reader, loops, dominators, matching of loops, the mapping pipeline and its
mappers. What is left:

1. **Proofs**: the mapping of levels, first the pairing part of `OnlyIsomorphicNests`.
2. **Discriminators**: `match_discriminators` and `reduce_to_connected_subgraph`, on top of
   `HomomorphismMapper`.
3. **Source flows** and **decoding**: `SourceControlFlow` (trailing exit, discriminators), and how
   `AvrInstruction` and `ArmV5Instruction` classify (a pop of pc is a return *and* a jump).
