----------------------------- MODULE InsnGraph -----------------------------
(***************************************************************************)
(* What the rebuilding of a control flow graph promises, without blocks:   *)
(* starting at the function entry, straight runs of instructions become    *)
(* known together with the control transfers out of them, until nothing a  *)
(* known transfer leads to is unknown.  From then on the graph is final:   *)
(* however it is cut into blocks, it shows the same instructions, the same *)
(* transfers, the same entry and the same exits.                           *)
(***************************************************************************)
EXTENDS Program

VARIABLES
    prog,       \* any well-formed program, fixed
    known,      \* the instructions found so far
    transfers,  \* pairs of instructions: control can go from one to the other
    entry,      \* the instruction control enters at
    exits,      \* the known instructions control leaves from
    final       \* whether exploration is over

vars == <<prog, known, transfers, entry, exits, final>>

\* The straight run of instructions from a on.
Run(a) == LET last == Min(BlockEnds(prog, a))
          IN  {i \in Addresses(prog) : a <= i /\ i <= last}

Frontier == ({prog.entry} \cup {t[2] : t \in transfers}) \ known

Returns(S) == {a \in S : prog.insn[a].kind = "ret"}

Init ==
    /\ WellFormed(prog)
    /\ known = {} /\ transfers = {} /\ exits = {}
    /\ entry = prog.entry
    /\ final = FALSE

Explore ==
    /\ ~final
    /\ \E a \in Frontier :
        /\ known' = known \cup Run(a)
        /\ transfers' = transfers \cup ProgramArrows(prog, Run(a))
        /\ exits' = exits \cup Returns(Run(a))
    /\ UNCHANGED <<prog, entry, final>>

Finish ==
    /\ ~final
    /\ Frontier = {}
    /\ final' = TRUE
    /\ UNCHANGED <<prog, known, transfers, entry, exits>>

Next == Explore \/ Finish

Spec == Init /\ [][Next]_vars /\ WF_vars(Next)
=============================================================================
