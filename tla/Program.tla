------------------------------ MODULE Program ------------------------------
(***************************************************************************)
(* The decoded section a control flow graph is rebuilt from, as            *)
(* FlowGenerator sees it through DisasmSection and getInstruction          *)
(* (src/libbincfg/src/flow/FlowGenerator.cpp, include/bincfg/arch).        *)
(*                                                                         *)
(* A program p is a record: p.insn maps addresses to instructions, p.entry *)
(* is the entry address of the function.  An instruction is a record of    *)
(* its kind, its size and, for branches and jumps, its target.  A call to  *)
(* the instruction behind it counts as "plain": the generator does not     *)
(* treat it as a call.  What a call calls is outside the function.         *)
(***************************************************************************)
EXTENDS FiniteSetsExt, Sequences

Kinds == {"plain", "call", "skip", "branch", "jump", "ret"}

Instruction == [kind : Kinds, size : Nat \ {0}, target : Nat]

Addresses(p) == DOMAIN p.insn

Following(p, a) == a + p.insn[a].size

\* The instructions updateWorklist answers true for.
EndsBlock(p, a) == p.insn[a].kind \in {"skip", "branch", "jump", "ret"}

\* Where createFuncFlow can stop walking when it starts at a.
BlockEnds(p, a) == {t \in Addresses(p) : a <= t /\ EndsBlock(p, t)}

\* What updateWorklist pushes for the last instruction of a block, in order.
Targets(p, a) ==
    LET next == Following(p, a)
    IN  CASE p.insn[a].kind = "skip"   -> <<next, Following(p, next)>>
          [] p.insn[a].kind = "branch" -> <<p.insn[a].target, next>>
          [] p.insn[a].kind = "jump"   -> <<p.insn[a].target>>
          [] OTHER                     -> << >>

TargetSet(p, a) == {Targets(p, a)[i] : i \in DOMAIN Targets(p, a)}

CallsIn(p, first, last) ==
    {a \in Addresses(p) : first <= a /\ a <= last /\ p.insn[a].kind = "call"}

(* What the generator takes for granted of a section: instructions do not  *)
(* overlap; from the function entry, every block has an end, no gap in the *)
(* decoded instructions before it (the walk steps over gaps) and pushes    *)
(* what is decoded (the code dereferences insnMap->find(...) without a     *)
(* test); and no address is as small as a number of blocks, which is what  *)
(* fixOverlaps reads through an end iterator.                              *)
ClosedCode(p, starts) ==
    /\ p.entry \in starts
    /\ \A a \in starts :
        /\ BlockEnds(p, a) # {}
        /\ LET last == Min(BlockEnds(p, a))
           IN  /\ \A i \in Addresses(p) : a <= i /\ i < last => Following(p, i) \in Addresses(p)
               /\ p.insn[last].kind = "skip" => Following(p, last) \in Addresses(p)
               /\ TargetSet(p, last) \subseteq starts

WellFormed(p) ==
    /\ Addresses(p) \subseteq Nat
    /\ IsFiniteSet(Addresses(p))
    /\ p.insn \in [Addresses(p) -> Instruction]
    /\ \A a, b \in Addresses(p) : a < b => Following(p, a) <= b
    /\ \A a \in Addresses(p) : Cardinality(Addresses(p)) < a
    /\ \E starts \in SUBSET Addresses(p) : ClosedCode(p, starts)

\* Block starts enough for the function.
Code(p) == CHOOSE starts \in SUBSET Addresses(p) : ClosedCode(p, starts)

-----------------------------------------------------------------------------
(* Control flow between instructions, as the instruction set defines it.   *)

GoesTo(p, a) == IF EndsBlock(p, a) THEN TargetSet(p, a) ELSE {Following(p, a)}

ProgramArrows(p, S) == UNION {{<<a, s>> : s \in GoesTo(p, a)} : a \in S}

Reachable(p) ==
    LET within[n \in Nat] ==
            IF n = 0 THEN {p.entry}
            ELSE LET less == within[n - 1]
                 IN  less \cup UNION {GoesTo(p, a) : a \in less}
    IN  within[Cardinality(Addresses(p))]

\* The one way back to the entry instruction is a jump.
LoneEntryJump(p) ==
    \E a \in Reachable(p) : /\ p.insn[a].kind = "jump"
                            /\ {b \in Reachable(p) : p.entry \in GoesTo(p, b)} = {a}
=============================================================================
