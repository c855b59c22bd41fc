-------------------------- MODULE MCFlowGenerator --------------------------
(***************************************************************************)
(* Small programs for FlowGenerator.  A program is a row of instructions   *)
(* from address Base on; calls take two units, everything else one.        *)
(* Branches and jumps go to any instruction of the row.  There are all     *)
(* rows of Length instructions, and longer ones of calls and jumps only,   *)
(* for chains of merged blocks with several calls.                         *)
(***************************************************************************)
EXTENDS FlowGenerator

CONSTANTS
    Length,          \* instructions in a row
    Entries,         \* which of them a function may start at
    Used,            \* the kinds of instruction in the rows
    ChainLength,     \* instructions in a chain
    LoneEntryJumps   \* whether to keep the programs the generator fails on

Base == 16

SizeOf(kind) == IF kind = "call" THEN 2 ELSE 1

\* An instruction of a row: its kind and the index its target is at.
Shapes(length, kinds) ==
    ((kinds \ {"branch", "jump"}) \X {1})
    \cup ((kinds \cap {"branch", "jump"}) \X (1 .. length))

\* The address of the i-th instruction of a row.
AddressIn(row, i) == Base + FoldSet(LAMBDA j, n : n + SizeOf(row[j][1]), 0, 1 .. i - 1)

Assemble(row, start) ==
    LET at    == [i \in DOMAIN row |-> AddressIn(row, i)]
        index == [a \in {at[i] : i \in DOMAIN row} |-> CHOOSE i \in DOMAIN row : at[i] = a]
    IN  [entry |-> at[start],
         insn  |-> [a \in DOMAIN index |->
                      LET shape == row[index[a]]
                      IN  [kind   |-> shape[1],
                           size   |-> SizeOf(shape[1]),
                           target |-> IF shape[1] \in {"branch", "jump"}
                                      THEN at[shape[2]] ELSE 0]]]

\* Where control can go from the i-th instruction.
NextIn(row, i) ==
    CASE row[i][1] = "skip"   -> {i + 1, i + 2}
      [] row[i][1] = "branch" -> {row[i][2], i + 1}
      [] row[i][1] = "jump"   -> {row[i][2]}
      [] row[i][1] = "ret"    -> {}
      [] OTHER                -> {i + 1}

ReachedIn(row, start) ==
    LET within[n \in 0 .. Len(row)] ==
            IF n = 0 THEN {start}
            ELSE LET less == within[n - 1]
                 IN  less \cup UNION {NextIn(row, i) : i \in less \cap DOMAIN row}
    IN  within[Len(row)]

(* Control stays in the row, and what it never reaches is not varied.  The *)
(* generator fails when the one way back to the entry instruction is a     *)
(* jump, so those programs have a run of their own.                        *)
Wanted(row, start) ==
    LET reached == ReachedIn(row, start)
        back    == {i \in reached : start \in NextIn(row, i)}
    IN  /\ row[Len(row)][1] \in {"ret", "jump"}
        /\ reached \subseteq DOMAIN row
        /\ \A i \in DOMAIN row \ reached : row[i] = <<"ret", 1>>
        /\ \/ LoneEntryJumps
           \/ ~\E i \in back : back = {i} /\ row[i][1] = "jump"

Rows(length, kinds, entries) ==
    UNION {{Assemble(row, start) :
              row \in {r \in [1 .. length -> Shapes(length, kinds)] : Wanted(r, start)}}
             : start \in entries}

MCPrograms ==
    Rows(Length, Used, Entries)
    \cup (IF ChainLength = 0 THEN {} ELSE Rows(ChainLength, {"call", "jump", "ret"}, {1}))
=============================================================================
