-------------------------- MODULE MappingInvariants --------------------------
(***************************************************************************)
(* The inductive invariant of Mapping: what each mapper leaves to the next *)
(* one, from the pairs of levels to the map of the whole flow.             *)
(***************************************************************************)
EXTENDS Mapping

Level(b)       == bhFlow[b].graph.node
SrcLevel(s)    == shFlow[s].graph.node
Header(b)      == IF b = Top THEN job.bin.entry ELSE b

\* Partners are matched loops, and so are the levels around them.
PartnersFit ==
    /\ Paired \subseteq DOMAIN bhFlow /\ Top \in Paired /\ partner[Top] = Top
    /\ \A b \in Paired \ {Top} :
        /\ partner[b] \in DOMAIN job.matches /\ job.matches[partner[b]] = b
        /\ \E a \in Paired : b \in Subflows(a) /\ partner[b] \in SrcSubflows(partner[a])

\* The source loop s, below the partner of b, has got its partner.
HasPartner(b, s) ==
    /\ s \in DOMAIN job.matches
    /\ job.matches[s] \in Subflows(b) \cap Paired
    /\ partner[job.matches[s]] = s

WhilePairing ==
    stage = "pair" =>
        /\ DOMAIN precise = {}
        /\ \A p \in todo : /\ p = <<p[1], p[2]>> /\ p[1] \in Paired
                           /\ p[2] \in SrcSubflows(partner[p[1]])
        /\ \A b \in Paired : \A s \in SrcSubflows(partner[b]) :
              <<b, s>> \in todo \/ HasPartner(b, s)

\* What has passed check_hierarchy.
AllPaired ==
    stage \in {"precise", "lump", "skip", "flatten", "mapped"} =>
        /\ HierarchiesMatch
        /\ \A b \in Paired : \A s \in SrcSubflows(partner[b]) : HasPartner(b, s)

\* A map of a level is one into its partner, and maps the header.
MapsLevel(b, map) ==
    /\ Header(b) \in DOMAIN map /\ DOMAIN map \subseteq Level(b)
    /\ \A n \in DOMAIN map : map[n] \in SrcLevel(partner[b])

PreciseFits ==
    /\ DOMAIN precise \subseteq Paired
    /\ \A b \in DOMAIN precise : MapsLevel(b, precise[b])
    /\ stage = "precise" => todo \subseteq Paired /\ DOMAIN precise = Paired \ todo

WhileLumping ==
    stage = "lump" =>
        /\ todo \subseteq Paired /\ DOMAIN hmap = Paired
        /\ \A b \in Paired : MapsLevel(b, hmap[b])
        /\ \A b \in Paired \ todo : DOMAIN hmap[b] = Level(b)

\* A skipped level is mapped, as a whole, to where its surrogate is.
IsSkipped(c) ==
    /\ c \notin job.mistaken
    /\ DOMAIN hmap[c] = Level(c)
    /\ \E b \in Paired : /\ c \in Subflows(b)
                         /\ \A n \in Level(c) : hmap[c][n] \in SrcLevel(partner[b])

WhileSkipping ==
    stage = "skip" =>
        /\ \A p \in todo : /\ p = <<p[1], p[2]>> /\ p[1] \in Paired
                           /\ p[2] \in Skipped \cap Subflows(p[1])
        /\ Paired \subseteq DOMAIN hmap /\ DOMAIN hmap \subseteq Paired \cup Skipped
        /\ \A b \in Paired : MapsLevel(b, hmap[b]) /\ DOMAIN hmap[b] = Level(b)
        /\ \A b \in Paired : \A c \in Skipped \cap Subflows(b) :
              <<b, c>> \in todo \/ c \in DOMAIN hmap
        /\ \A c \in Skipped \cap DOMAIN hmap : IsSkipped(c)

\* Everything of a level: its nodes and the surrogates of all loops in it.
Area(b) ==
    bhFlow[b].nodes
    \cup {Surrogate(job.bin, d) : d \in (Heads(job.bin) \cap bhFlow[b].nodes) \ {b}}

\* Where the nodes of a level may be mapped to.
RightPlace(x, image) ==
    \/ x \in Paired /\ image \in shFlow[partner[x]].nodes
    \/ \E a \in Paired : x \in Subflows(a) \cap Skipped /\ image \in SrcLevel(partner[a])

\* A level that has been added is complete, and stays below the levels above it.
WhileFlattening ==
    stage \in {"flatten", "mapped"} =>
        /\ DOMAIN flat = Paired \cup Skipped /\ Skipped \cap job.mistaken = {}
        /\ \A p \in todo : /\ p = <<p[1], p[2]>> /\ p[1] \in Paired
                           /\ p[2] \in DOMAIN flat \cap Subflows(p[1])
                           /\ DOMAIN flat[p[1]] \cap Area(p[2]) = {}
        /\ \A b \in Paired : Level(b) \cap job.bin.node \subseteq DOMAIN flat[b]
        /\ \A c \in Skipped : DOMAIN flat[c] = Level(c)
        /\ \A b \in DOMAIN flat :
              /\ DOMAIN flat[b] \subseteq Area(b)
              /\ \A n \in DOMAIN flat[b] : \A x \in DOMAIN flat :
                    n \in Level(x) => RightPlace(x, flat[b][n])
        /\ \A b \in Paired : \A c \in DOMAIN flat \cap Subflows(b) :
              \/ <<b, c>> \in todo
              \/ /\ DOMAIN flat[c] \subseteq DOMAIN flat[b]
                 /\ \A q \in todo : q[1] # c

Ending ==
    /\ stage = "mapped" => todo = {} /\ Accepted
    /\ stage = "crashed" => \/ Heads(job.src) # DOMAIN job.matches
                            \/ Skipped \cap job.mistaken # {}
    /\ stage \in {"pair", "precise", "lump", "skip", "flatten", "mapped", "refused", "crashed"}

MappingInvariant ==
    /\ job \in Jobs /\ bhFlow = Hierarchy(job.bin) /\ shFlow = Hierarchy(job.src)
    /\ PartnersFit /\ WhilePairing /\ AllPaired
    /\ PreciseFits /\ WhileLumping /\ WhileSkipping /\ WhileFlattening
    /\ Ending
=============================================================================
