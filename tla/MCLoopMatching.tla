--------------------------- MODULE MCLoopMatching ---------------------------
(***************************************************************************)
(* Two families of pairs for LoopMatching: any two source loops, on Lines  *)
(* lines, with any two binary loops; and three binary loops with the       *)
(* same tree of source loops, one line for each beginning and end of a     *)
(* loop and the lines around.                                              *)
(***************************************************************************)
EXTENDS LoopMatching

CONSTANT Lines

AtMostOne(S) == {{}} \cup {{x} : x \in S}

Forests(size) ==
    {up \in [1 .. size -> 0 .. size - 1] : \A n \in 1 .. size : up[n] < n}

\* The header of the second loop may be longer than a line.
Heads == [1 .. 2 -> {h \in (1 .. Lines) \X (1 .. Lines + 1) : h[2] \in {h[1], h[1] + 1}}]

KeyLine == [k \in 1 .. Lines + 1 |-> k]

Sources ==
    {s \in [parent : Forests(2), head : {h \in Heads : h[1][1] = h[1][2]},
            rest : [1 .. 2 -> AtMostOne(1 .. Lines)]] :
        \A n \in 1 .. 2 : \A l \in s.rest[n] : l >= s.head[n][1]}

Binaries ==
    [parent : Forests(2), head : [1 .. 2 -> {{k} : k \in DOMAIN KeyLine}],
     rest : [1 .. 2 -> AtMostOne(DOMAIN KeyLine)]]

MaySelf(bin) == {b \in DOMAIN bin.parent : bin.rest[b] = {} /\ b \notin Range(bin.parent)}

AnyPairs ==
    {p \in [src : Sources, bin : Binaries, line : {KeyLine}, self : SUBSET (1 .. 2),
           skip : AtMostOne({1})] :
        p.self \subseteq MaySelf(p.bin) /\ (p.skip = {} \/ p.self = {2})}

-----------------------------------------------------------------------------
\* Lines 2 .. 7 are those of three loops, nested as in up: loop n begins at a line and
\* ends at one, where it may have a block.
Nested(up) ==
    {[parent |-> up, head |-> [n \in 1 .. 3 |-> <<at[n][1], at[n][1]>>],
      rest |-> [n \in 1 .. 3 |-> IF n \in ended THEN {at[n][2]} ELSE {}]] :
        ended \in SUBSET (1 .. 3), at \in {a \in [1 .. 3 -> {l \in (2 .. 7) \X (2 .. 7) : l[1] < l[2]}] :
                  /\ UNION {Range(a[n]) : n \in 1 .. 3} = 2 .. 7
                  /\ \A n \in 1 .. 3 : up[n] # 0 =>
                        a[up[n]][1] < a[n][1] /\ a[n][2] < a[up[n]][2]
                  /\ \A m, n \in 1 .. 3 : m < n /\ up[m] = up[n] => a[m][2] < a[n][1]}}

TracedPairs ==
    UNION {[src : Nested(up),
            bin : [parent : {up}, head : {[n \in 1 .. 3 |-> {src.head[n][1]}] : src \in Nested(up)},
                   rest : [1 .. 3 -> AtMostOne(1 .. 8)]],
            line : {[k \in 1 .. 8 |-> k]}, self : {{}}, skip : {{}}] :
             up \in Forests(3)}

MCPairs == AnyPairs \cup TracedPairs
=============================================================================
