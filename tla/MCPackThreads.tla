----------------------------- MODULE MCPackThreads -----------------------------
(***************************************************************************)
(* The empty graph, all graphs of three and four mtasks (edges upwards in  *)
(* the mtask number) with every combination of costs and widths and with   *)
(* priorities as finalizeCosts computes them, and the graph of the         *)
(* packer's own self test.                                                 *)
(***************************************************************************)
EXTENDS PackThreads, TLC

Graphs(n) == SUBSET {e \in (1 .. n) \X (1 .. n) : e[1] < e[2]}

\* t0 .. t6 of selfTestNormalFirst are 1 .. 7 here.
SelfTestInput ==
    [n |-> 7,
     edges |-> {<<1, 2>>, <<1, 3>>, <<3, 4>>, <<3, 5>>, <<4, 6>>, <<5, 7>>},
     cost |-> <<1000, 100, 100, 100, 100, 100, 100>>,
     priority |-> <<1100, 100, 100, 100, 100, 100, 100>>,
     threads |-> <<1, 1, 2, 3, 3, 1, 1>>]

AllInputs(n, costs) ==
    {[n |-> n, edges |-> g, cost |-> c, priority |-> FinalPriority(n, g, c), threads |-> w] :
        g \in Graphs(n), c \in [1 .. n -> costs], w \in [1 .. n -> {1, 3}]}

MCInputs == AllInputs(0, {}) \cup AllInputs(3, {0, 1, 10}) \cup AllInputs(4, {1, 10}) \cup {SelfTestInput}

\* What selfTestNormalFirst asserts of the packer: the threads of the three schedules
\* and the completion times as seen from other threads.
SelfTest ==
    input = SelfTestInput /\ ready = {} =>
        /\ [k \in DOMAIN result |-> result[k].threads] =
             <<(0 :> <<1, 2>> @@ 1 :> <<>>), (0 :> <<3, 4>> @@ 1 :> <<5>>),
               (0 :> <<6>> @@ 1 :> <<7>>)>>
        /\ CompletionTime(result[1], 1, 0) = 1000 /\ CompletionTime(result[1], 1, 1) = 1099
        /\ CompletionTime(result[1], 2, 0) = 1100 /\ CompletionTime(result[1], 2, 1) = 1130
        /\ CompletionTime(result[1], 3, 0) = 0 /\ CompletionTime(result[3], 3, 0) = 0
        /\ CompletionTime(result[2], 3, 0) = 1200
        /\ \A t \in 1 .. 5 : CompletionTime(result[2], 3, t) = 1230
        /\ CompletionTime(result[2], 4, 0) = 1300
        /\ \A t \in 1 .. 5 : CompletionTime(result[2], 4, t) = 1330
        /\ CompletionTime(result[2], 5, 1) = 1330
        /\ \A t \in {0, 2, 3, 4, 5} : CompletionTime(result[2], 5, t) = 1360
================================================================================
