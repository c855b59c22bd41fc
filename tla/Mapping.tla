------------------------------ MODULE Mapping ------------------------------
(***************************************************************************)
(* map_flows (src/py-mapping/mapping/__init__.py) from the matched loops   *)
(* to the finished map, and the safety check of do_mapping                 *)
(* (src/py-mapping/main.py): the levels of both flows are paired along the *)
(* matched loops; the control-dependency mapper maps each pair of levels,  *)
(* StraightLineLumping copies that, DominatorLumping completes it,         *)
(* SkipMapper maps the loops the user has annotated to be skipped, and     *)
(* flatten makes one map of all levels.                                    *)
(***************************************************************************)
EXTENDS HierarchicalFlow, Lumping, Sequences, Functions

(* A job has the two flows, bin and src, each a flow graph with its exit   *)
(* and, for each node, the place debug information gives it: a line and a  *)
(* discriminator that edge_matcher has matched, or NoPlace.  matches takes *)
(* source loops to binary loops, as loop_matcher found them; annotated are *)
(* the binary loops the user has annotated, mistaken those for which the   *)
(* line or address would be wrong.                                         *)
CONSTANTS Jobs, NoPlace

IsFlow(f) ==
    /\ f.node \subseteq Nat \ {Top} /\ IsFlowGraph(f) /\ ReachableNodes(f) = f.node
    /\ \A n \in f.node : f.exit \in ReachedFrom(f, {n}, f.node)
    /\ Succs(f, f.exit) = {}
    /\ DOMAIN f.place = f.node

Heads(f) == {loop.head : loop \in NaturalLoops(f)}

IsJob(j) ==
    LET bheads == Heads(j.bin)
    IN  /\ IsInjective(j.matches)
        /\ DOMAIN j.matches \subseteq Heads(j.src) /\ Range(j.matches) \subseteq bheads
        /\ j.annotated \subseteq bheads /\ j.mistaken \subseteq bheads

ASSUME JobsAreJobs ==
    /\ \A f \in {j.bin : j \in Jobs} \cup {j.src : j \in Jobs} : IsFlow(f)
    /\ \A j \in Jobs : IsJob(j)

VARIABLES
    job,
    bhFlow, shFlow,  \* the hierarchical flows
    stage,           \* what the pipeline is doing, or how it ended
    partner,         \* binary level -> its source level
    todo,            \* the levels, or pairs of levels, the stage has not come to
    precise,         \* binary level -> its map, from the control-dependency mapper
    hmap,            \* the same from the mapper at work, with maps of skipped levels
    flat             \* binary level -> what flatten has made of it so far

vars == <<job, bhFlow, shFlow, stage, partner, todo, precise, hmap, flat>>

inputs == <<job, bhFlow, shFlow>>

\* A map of one node, and a map with another where it says nothing.
Just(x, y) == [z \in {x} |-> y]
Over(f, g) == [x \in DOMAIN f \cup DOMAIN g |-> IF x \in DOMAIN f THEN f[x] ELSE g[x]]

Subflows(b)    == bhFlow[b].subflows
SrcSubflows(s) == shFlow[s].subflows
Paired         == DOMAIN partner

\* walk_level_b: a level that is marked is not descended into.
Skipped ==
    {c \in job.annotated : \A d \in job.annotated \ {c} :
        ~(bhFlow[c].nodes \subseteq bhFlow[d].nodes)}

Init ==
    /\ job \in Jobs
    /\ bhFlow = Hierarchy(job.bin)
    /\ shFlow = Hierarchy(job.src)
    /\ stage = "pair"
    /\ partner = Just(Top, Top)
    /\ todo = {<<Top, s>> : s \in SrcSubflows(Top)}
    /\ precise = <<>> /\ hmap = <<>> /\ flat = <<>>

-----------------------------------------------------------------------------
(* set_hierarchy_pairs and check_hierarchy.  An AssertionError refuses the *)
(* function; any other error, and whatever goes wrong in map_all, ends the *)
(* program.                                                                *)

\* Mutant: anywhere in the hierarchy.
LoopAnywhere(b, s) == {c \in DOMAIN bhFlow : c = job.matches[s]}

LoopBelow(b, s) == {c \in Subflows(b) : c = job.matches[s]}

\* matches_s2b[sub_shf.loop_id] is a KeyError for a source loop without match.
PairSubflow ==
    /\ stage = "pair"
    /\ \E p \in todo :
        LET s == p[2]
        IN  \/ /\ s \notin DOMAIN job.matches
               /\ stage' = "crashed" /\ UNCHANGED <<partner, todo>>
            \/ /\ s \in DOMAIN job.matches /\ LoopBelow(p[1], s) = {}
               /\ stage' = "refused" /\ UNCHANGED <<partner, todo>>
            \/ /\ s \in DOMAIN job.matches
               /\ \E c \in LoopBelow(p[1], s) :
                    /\ partner' = Over(partner, Just(c, s))
                    /\ todo' = (todo \ {p}) \cup {<<c, t>> : t \in SrcSubflows(s)}
               /\ UNCHANGED stage
    /\ UNCHANGED <<inputs, precise, hmap, flat>>

HierarchiesMatch ==
    \A b \in Paired :
        /\ b \notin Skipped
        /\ Cardinality(Subflows(b) \ Skipped) = Cardinality(SrcSubflows(partner[b]))

CheckHierarchy ==
    /\ stage = "pair" /\ todo = {}
    /\ IF HierarchiesMatch
       THEN stage' = "precise" /\ todo' = Paired
       ELSE stage' = "refused" /\ UNCHANGED todo
    /\ UNCHANGED <<inputs, partner, precise, hmap, flat>>

-----------------------------------------------------------------------------
(* CtrlDependencyMapper._map_subgraph.                                     *)

PostDominates(f, a, b) == Dominates([Transposed(f) EXCEPT !.entry = f.exit], a, b)

\* Mutant: decisions without their outcome.
DecisionLabel(f, side, e) ==
    IF f.place[e[1]] = NoPlace THEN <<side>> \o e ELSE <<f.place[e[1]]>>

\* Decisions with the same label are the same in both programs; where debug
\* information does not say, the label is used once only.
Label(f, side, e) ==
    LET where == <<f.place[e[1]], f.place[e[2]]>>
    IN  IF NoPlace \in Range(where) THEN <<side>> \o e ELSE where

Decisions(f) == {e \in f.edge : ~PostDominates(f, e[2], e[1])}

Controls(f, e, w) ==
    PostDominates(f, w, e[2]) /\ (w = e[1] \/ ~PostDominates(f, w, e[1]))

\* Node -> the labels of the edges of its level that control it directly.
Conditions(f, side, level, head) ==
    LET deciding == Decisions(f) \cap level.edge
    IN  [w \in (f.node \cap level.node) \ {head} |->
            {Label(f, side, e) : e \in {d \in deciding : Controls(f, d, w)}}]

\* Mutant: header and loops are left to their conditions.
EntryOnly(b) ==
    IF b = Top THEN Just(job.bin.entry, job.src.entry) ELSE Just(b, partner[b])

\* What must be mapped whatever the conditions: loops to their partners; entry and
\* exit, or the header.
FixedPoints(b) ==
    Over([n \in {Surrogate(job.bin, c) : c \in Subflows(b) \cap Paired} |->
             Surrogate(job.src, partner[HeaderOf(job.bin, n)])],
         IF b = Top
         THEN Over(Just(job.bin.entry, job.src.entry), Just(job.bin.exit, job.src.exit))
         ELSE Just(b, partner[b]))

\* "No valid src locations": none of the source nodes is sure to have a line.
MayLackLine(scond, c) ==
    \A v \in DOMAIN scond : scond[v] = c => job.src.place[v] = NoPlace

\* Children come first; nodes with the same conditions go to the same source node,
\* any of them with a line.  "Mapper missed to register fixed points in map" comes last.
PreciseLevel ==
    /\ stage = "precise"
    /\ \E b \in todo :
        /\ Subflows(b) \cap todo = {}
        /\ LET bcond == Conditions(job.bin, "bin", bhFlow[b].graph, b)
               scond == Conditions(job.src, "src", shFlow[partner[b]].graph, partner[b])
               conds == (Range(bcond) \cap Range(scond)) \ {{}}
           IN  \E found \in {S \in SUBSET conds : \A c \in conds \ S : MayLackLine(scond, c)} :
               \E pick \in {p \in [found -> DOMAIN scond] : \A c \in found : scond[p[c]] = c} :
                 precise' = Over(precise, Just(b,
                    Over([n \in {m \in DOMAIN bcond : bcond[m] \in found} |-> pick[bcond[n]]],
                         FixedPoints(b))))
        /\ todo' = todo \ {b}
        /\ stage' = IF \A c \in Subflows(b) \ Skipped :
                          Surrogate(job.bin, c) \in DOMAIN precise'[b]
                    THEN stage ELSE "crashed"
    /\ UNCHANGED <<inputs, partner, hmap, flat>>

-----------------------------------------------------------------------------
(* StraightLineLumping copies all maps; DominatorLumping completes them.   *)

CopyMaps ==
    /\ stage = "precise" /\ todo = {}
    /\ hmap' = precise
    /\ stage' = "lump" /\ todo' = Paired
    /\ UNCHANGED <<inputs, partner, precise, flat>>

LumpLevel ==
    /\ stage = "lump"
    /\ \E b \in todo :
        /\ Subflows(b) \cap todo = {}
        /\ \E lookup \in Completions(bhFlow[b].graph, DOMAIN hmap[b]) :
              hmap' = [hmap EXCEPT ![b] = [n \in DOMAIN lookup |-> @[lookup[n]]]]
        /\ todo' = todo \ {b}
    /\ UNCHANGED <<inputs, stage, partner, precise, flat>>

-----------------------------------------------------------------------------
(* SkipMapper.                                                             *)

FinishLumping ==
    /\ stage = "lump" /\ todo = {}
    /\ stage' = "skip" /\ todo' = {p \in Paired \X Skipped : p[2] \in Subflows(p[1])}
    /\ UNCHANGED <<inputs, partner, precise, hmap, flat>>

\* Mutant: the nodes that are in no inner loop.
OwnNodes(c) == bhFlow[c].graph.node \cap job.bin.node

\* ocm.mapping.unmapped(): a node of a skipped level may stand for an inner loop.
NodesToSkip(c) == bhFlow[c].graph.node

\* All of a skipped level goes where its surrogate went; a KeyError there is caught,
\* the assertions about the annotation are not.
SkipFlow ==
    /\ stage = "skip"
    /\ \E p \in todo :
        LET surro  == Surrogate(job.bin, p[2])
            mapped == surro \in DOMAIN hmap[p[1]]
        IN  IF mapped /\ p[2] \in job.mistaken
            THEN stage' = "crashed" /\ UNCHANGED <<hmap, todo>>
            ELSE /\ hmap' = Over(hmap, Just(p[2],
                               [n \in IF mapped THEN NodesToSkip(p[2]) ELSE {} |->
                                   hmap[p[1]][surro]]))
                 /\ todo' = todo \ {p}
                 /\ UNCHANGED stage
    /\ UNCHANGED <<inputs, partner, precise, flat>>

-----------------------------------------------------------------------------
(* flatten and the safety check.                                           *)

RealImage(n) == IF IsVirtual(job.src, n) THEN HeaderOf(job.src, n) ELSE n

StartFlattening ==
    /\ stage = "skip" /\ todo = {}
    /\ flat' = [b \in DOMAIN hmap |->
                   IF b \in Paired
                   THEN [n \in DOMAIN hmap[b] \cap job.bin.node |-> RealImage(hmap[b][n])]
                   ELSE hmap[b]]
    /\ stage' = "flatten"
    /\ todo' = {p \in Paired \X DOMAIN hmap : p[2] \in Subflows(p[1])}
    /\ UNCHANGED <<inputs, partner, precise, hmap>>

\* ret.add(...): "must be disjoint" is a symmetric difference.
AddChild ==
    /\ stage = "flatten"
    /\ \E p \in todo :
        /\ \A q \in todo : q[1] # p[2]
        /\ IF DOMAIN flat[p[1]] = DOMAIN flat[p[2]]
           THEN stage' = "refused" /\ UNCHANGED <<flat, todo>>
           ELSE /\ flat' = [flat EXCEPT ![p[1]] = Over(flat[p[2]], @)]
                /\ todo' = todo \ {p}
                /\ UNCHANGED stage
    /\ UNCHANGED <<inputs, partner, precise, hmap>>

FlatMap == flat[Top]

Unmapped ==
    ((UNION {bhFlow[b].graph.node \cap job.bin.node : b \in Paired})
       \cup UNION {NodesToSkip(c) : c \in Skipped}) \ DOMAIN FlatMap

Accepted ==
    Unmapped = {} /\ DOMAIN FlatMap \subseteq job.bin.node /\ Range(FlatMap) \subseteq job.src.node

SafetyCheck ==
    /\ stage = "flatten" /\ todo = {}
    /\ stage' = IF Accepted THEN "mapped" ELSE "refused"
    /\ UNCHANGED <<inputs, partner, todo, precise, hmap, flat>>

Ended ==
    /\ stage \in {"mapped", "refused", "crashed"}
    /\ UNCHANGED vars

Next ==
    \/ PairSubflow \/ CheckHierarchy
    \/ PreciseLevel \/ CopyMaps \/ LumpLevel \/ FinishLumping
    \/ SkipFlow \/ StartFlattening \/ AddChild \/ SafetyCheck
    \/ Ended

Spec == Init /\ [][Next]_vars

-----------------------------------------------------------------------------
TypeOK ==
    /\ stage \in {"pair", "precise", "lump", "skip", "flatten",
                  "mapped", "refused", "crashed"}
    /\ Paired \subseteq DOMAIN bhFlow /\ Range(partner) \subseteq DOMAIN shFlow
    /\ \A b \in DOMAIN precise :
        /\ DOMAIN precise[b] \subseteq bhFlow[b].graph.node
        /\ Range(precise[b]) \subseteq shFlow[partner[b]].graph.node

\* The level that maps a binary node: the innermost one around it that is paired.
PairedLevel(n) == CHOOSE b \in Paired : /\ n \in bhFlow[b].nodes
                                       /\ \A c \in Subflows(b) \cap Paired : n \notin bhFlow[c].nodes

\* A map that is accepted takes every binary node to a node of the source loop that
\* is the partner of its own: no time is accounted for outside the loop it is spent
\* in, whatever has been lumped, skipped and flattened.  Maps of levels never overlap.
NestRespected ==
    /\ TypeOK
    /\ stage = "mapped" =>
        /\ DOMAIN FlatMap = job.bin.node
        /\ \A n \in job.bin.node : FlatMap[n] \in shFlow[partner[PairedLevel(n)]].nodes
    /\ stage = "flatten" => \A b, c \in DOMAIN flat :
        (b # c /\ <<b, c>> \in todo) => DOMAIN flat[b] \cap DOMAIN flat[c] = {}

Image(s) == IF s = Top THEN Top ELSE job.matches[s]

\* A wrong matching of loops never becomes a map: the matches of an accepted map are
\* an isomorphism between the nest of source loops and that of the binary loops that
\* are not skipped, and what is skipped is annotated without mistake.
OnlyIsomorphicNests ==
    stage = "mapped" =>
        /\ DOMAIN job.matches = Heads(job.src)
        /\ \A s \in Heads(job.src), t \in DOMAIN shFlow :
              s \in SrcSubflows(t) <=> Image(s) \in Subflows(Image(t))
        /\ Heads(job.bin) \ Range(job.matches) = Skipped \ job.mistaken

\* The program only ends with an error if a source loop has no match ("likely been
\* unrolled") or an annotation is mistaken: no mapper loses a fixed point, leaves a
\* node unmapped or misses the surrogate of a loop, and maps that are added to each
\* other never have the same domain.
CrashesOnlyIf ==
    /\ stage = "crashed" => \/ Heads(job.src) # DOMAIN job.matches
                           \/ Skipped \cap job.mistaken # {}
    /\ stage = "flatten" => \A p \in todo : DOMAIN flat[p[1]] # DOMAIN flat[p[2]]

\* The same program twice, with all debug information and loops matched as they are.
Identical ==
    /\ job.bin = job.src
    /\ \A n, m \in job.bin.node : n # m => job.bin.place[n] # job.bin.place[m]
    /\ \A n \in job.bin.node : job.bin.place[n] # NoPlace
    /\ \A s \in DOMAIN job.matches : job.matches[s] = s

\* Two blocks run equally often in every run of a function: one comes before the
\* other and leads to it, every time.
Alike(f, a, b) ==
    LET Before(x, y) ==
            /\ Dominates(f, x, y) /\ PostDominates(f, y, x)
            /\ x \notin ReachedFrom(f, Succs(f, x), f.node \ {y})
            /\ y \notin ReachedFrom(f, Succs(f, y), f.node \ {x})
    IN  a = b \/ Before(a, b) \/ Before(b, a)

\* No decision is hidden by the hierarchy, leading into a loop or out of one, and none
\* decides whether a loop goes on from the middle to where it is again.
DecidedPlainly(f, hf) ==
    \A e \in Decisions(f) :
        /\ \E id \in DOMAIN hf : e \in hf[id].graph.edge
        /\ \A w \in f.node \ DOMAIN hf : Controls(f, e, w) => ~Dominates(f, w, e[1])

AllAlike == \A b \in DOMAIN precise : \A n \in DOMAIN precise[b] \cap job.bin.node :
                Alike(job.src, n, precise[b][n])

\* Between identical programs the precise map takes each block to one that runs as
\* often, as long as all decisions are plain.
PreciseIsAlike == (Identical /\ DecidedPlainly(job.bin, bhFlow)) => AllAlike

\* ctrldep_mapper.py:124: "If there are multiple src BBs, we can annotate to any of
\* them": if they run equally often.
AnyWillDo == Identical => AllAlike
=============================================================================
