----------------------------- MODULE MCPartitioner -----------------------------
(***************************************************************************)
(* All graphs of four pieces of logic (dependencies upwards in the vertex  *)
(* number, each through a variable of its own) with every combination of   *)
(* costs, and one where a variable vertex is kept.                         *)
(***************************************************************************)
EXTENDS Partitioner, SequencesExt

Dependency(e) == [writers |-> {e[1]}, readers |-> {e[2]}]

Graphs(n) == SUBSET {e \in (1 .. n) \X (1 .. n) : e[1] < e[2]}

MoveGraph(n, c, e, extra, h) ==
    [n |-> n, cost |-> c, variables |-> extra \o SetToSeq({Dependency(x) : x \in e}), hazards |-> h]

\* Two writers and three readers: too many edges to bypass the variable.
Shared == [writers |-> {1, 2}, readers |-> {3, 4, 5}]

MCInputs ==
    {MoveGraph(4, c, e, <<>>, h) :
        c \in [1 .. 4 -> {10, 47}], e \in Graphs(4), h \in {<<>>, <<{1, 4}, {2, 3, 4}>>}}
    \cup {MoveGraph(5, c, e, <<Shared>>, <<{1, 2}, {3, 5}>>) :
        c \in [1 .. 5 -> {10, 47}], e \in {{}, {<<1, 2>>}, {<<3, 4>>, <<4, 5>>}}}

\* The truncated values of exp(k / 20) up to the total cost of an input.
MCSteps ==
    {0, 1, 2, 3, 4, 5, 6, 7, 8, 9, 10, 11, 12, 13, 14, 15, 16, 17, 18, 19, 20, 21, 22,
     23, 24, 25, 27, 28, 29, 31, 33, 34, 36, 38, 40, 42, 44, 46, 49, 51, 54, 57, 60,
     63, 66, 70, 73, 77, 81, 85, 90, 94, 99, 104, 109, 115, 121, 127, 134, 141, 148,
     156, 164, 172, 181, 190, 200, 210, 221, 232, 244, 257, 270, 284, 298, 314}
================================================================================
