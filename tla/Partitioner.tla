------------------------------ MODULE Partitioner ------------------------------
(***************************************************************************)
(* The partitioner of V3OrderParallel.cpp: the fine-grained graph of logic *)
(* and variable vertices is turned into mtasks (setupMTaskDeps), mtasks    *)
(* that write one variable are merged or ordered (FixDataHazards), and the *)
(* graph is coarsened by merging the pair of mtasks whose merge lengthens  *)
(* the local critical path least, until the critical path budget is spent  *)
(* (Contraction).  Critical paths are kept up to date incrementally        *)
(* (PropagateCp), and a search for a path is pruned by them                *)
(* (pathExistsFrom): a critical path that is too low would let a merge     *)
(* close a cycle of mtasks that wait for each other.                       *)
(*                                                                         *)
(* An mtask is a number, its LogicMTask::m_id; an edge is a pair of        *)
(* mtasks.  Critical paths run two ways, GraphWay::FORWARD and REVERSE.    *)
(***************************************************************************)
EXTENDS Integers, Sequences, FiniteSets, FiniteSetsExt, Functions

CONSTANTS
    Inputs,     \* the move graphs to partition, see PartitionInput
    Threads,    \* --threads
    MaxMTasks,  \* --threads-max-mtasks
    Steps       \* the values costs are rounded up to, see stepCost

ASSUME PartitionerAssumption ==
    /\ Threads \in Nat \ {0, 1}
    /\ MaxMTasks \in Nat \ {0}
    /\ IsFiniteSet(Steps) /\ Steps \subseteq Nat /\ 0 \in Steps

VARIABLES
    input,      \* the move graph and its variables
    pc,         \* stage of the partitioner
    g,          \* edges of m_mTaskGraphp
    cost,       \* m_cost of each mtask of the graph
    owner,      \* the mtask that holds each move vertex
    rank,       \* rank(), computed once by FixDataHazards
    hazards,    \* writer groups FixDataHazards has still to serialise
    cp,         \* m_critPathCost, per way
    heap,       \* per way: the edge heaps' keys, PropagateCp's pending heap and m_seen
    known,      \* m_sb: candidates with a known score, and that score
    unknown,    \* m_sb: candidates that need a rescore
    limit,      \* m_scoreLimit
    before,     \* m_scoreLimitBeforeRescore
    fresh,      \* m_mergesSinceRescore = 0
    merge,      \* recipient and donor of the merge in progress
    path0       \* history: the critical path before the contraction

vars == <<input, pc, g, cost, owner, rank, hazards, cp, heap, known, unknown, limit,
          before, fresh, merge, path0>>

mts == DOMAIN cost
Way == {"fwd", "rev"}
Unlimited == 1000000            \* larger than every score
NoMerge == [recipient |-> 0, donor |-> 0]

(***************************************************************************)
(* Graphs                                                                  *)
(***************************************************************************)

\* Vertices that edges E lead to from a vertex, in any number of steps.
Reach(E, a) ==
    LET step(S) == {e[2] : e \in {f \in E : f[1] \in S}}
        R[k \in Nat] == IF k = 0 THEN step({a}) ELSE UNION {Q \cup step(Q) : Q \in {R[k - 1]}}
    IN  R[Cardinality(E)]

\* Near and far end of an edge travelled one way, the edges that arrive at a vertex
\* and those that leave it.
Near(w, e) == IF w = "fwd" THEN e[1] ELSE e[2]
Far(w, e) == IF w = "fwd" THEN e[2] ELSE e[1]
Arriving(w, E, v) == {e \in E : Far(w, e) = v}
Leaving(w, E, v) == {e \in E : Near(w, e) = v}

\* Most expensive way from the graph's start (end) to the start (end) of each vertex.
PathCosts(w, E, V, weight) ==
    LET path[v \in V] ==
            Max({0} \cup {path[Near(w, e)] + weight[Near(w, e)] : e \in Arriving(w, E, v)})
    IN  path

(***************************************************************************)
(* setupMTaskDeps.  Logic vertices are 1 .. n; the k-th variable vertex is *)
(* n + k and gets an mtask only if bypassing it would need more edges.     *)
(***************************************************************************)

bypassOk(v) ==
    \/ Cardinality(v.writers) <= 1
    \/ Cardinality(v.readers) <= 1
    \/ Cardinality(v.writers) = 2 /\ Cardinality(v.readers) = 2

Entry == 0
Exit(i) == i.n + Len(i.variables) + 1
Kept(i) == {i.n + k : k \in {j \in DOMAIN i.variables : ~bypassOk(i.variables[j])}}

MTaskDeps(i) ==
    UNION {LET v == i.variables[k]
           IN  IF bypassOk(v) THEN v.writers \X v.readers
               ELSE (v.writers \X {i.n + k}) \cup ({i.n + k} \X v.readers)
           : k \in DOMAIN i.variables}

\* A move graph: V3SchedAcyclic and V3Order have broken its loops.
PartitionInput(i) ==
    /\ i.n \in Nat
    /\ i.cost \in [1 .. i.n -> Nat]
    /\ i.variables \in Seq([writers : SUBSET (1 .. i.n), readers : SUBSET (1 .. i.n)])
    /\ i.hazards \in Seq(SUBSET (1 .. i.n))
    /\ \A v \in 1 .. Exit(i) : v \notin Reach(MTaskDeps(i), v)

ASSUME InputsAssumption == \A i \in Inputs : PartitionInput(i)

EntryExitDeps(i) ==
    LET V == 1 .. i.n \cup Kept(i)
        D == MTaskDeps(i)
    IN  {<<Entry, v>> : v \in {u \in V : \A e \in D : e[2] # u}}
        \cup {<<v, Exit(i)>> : v \in {u \in V : \A e \in D : e[1] # u}}

setupMTaskDeps(i) ==
    /\ g = MTaskDeps(i) \cup EntryExitDeps(i)
    /\ cost = [m \in {Entry, Exit(i)} \cup 1 .. i.n \cup Kept(i) |->
                  IF m \in 1 .. i.n THEN i.cost[m] ELSE 0]
    /\ owner = [v \in 1 .. i.n \cup Kept(i) |-> v]

Ranks(i) == PathCosts("fwd", MTaskDeps(i) \cup EntryExitDeps(i),
                      {Entry, Exit(i)} \cup 1 .. i.n \cup Kept(i),
                      [m \in {Entry, Exit(i)} \cup 1 .. i.n \cup Kept(i) |-> 1])

Init ==
    /\ input \in Inputs
    /\ setupMTaskDeps(input)
    /\ rank = Ranks(input)
    /\ hazards = input.hazards
    /\ pc = "hazards"
    /\ cp = [w \in Way |-> <<>>]
    /\ heap = [w \in Way |-> [key |-> <<>>, pending |-> <<>>, seen |-> {}]]
    /\ known = <<>> /\ unknown = {}
    /\ limit = 0 /\ before = Unlimited /\ fresh = TRUE
    /\ merge = NoMerge /\ path0 = 0

(***************************************************************************)
(* FixDataHazards.  One group is the writers of a variable, of all SystemC *)
(* variables, or the callers of DPI imports.                               *)
(***************************************************************************)

\* The task at a rank that the group's others of this rank are merged into: the most
\* expensive, of these the one with the lowest id.
RankRecipient(tasks) ==
    LET most == {m \in tasks : \A o \in tasks : cost[o] <= cost[m]} IN Min(most)

\* A faulty variant: tasks of different ranks are left as they are.
SerialEdgesNone(recipients) == {}

\* The recipients of one group run in the order of their ranks.
SerialEdges(recipients) ==
    {e \in recipients \X recipients :
        /\ rank[e[1]] < rank[e[2]]
        /\ ~ \E m \in recipients : rank[e[1]] < rank[m] /\ rank[m] < rank[e[2]]}

mergeSameRankTasks ==
    /\ pc = "hazards" /\ hazards # <<>>
    /\ LET tasks == {owner[v] : v \in Head(hazards)}
           into(m) == IF m \in tasks
                      THEN RankRecipient({o \in tasks : rank[o] = rank[m]}) ELSE m
       IN  /\ g' = {<<into(e[1]), into(e[2])>> : e \in g} \cup SerialEdges({into(m) : m \in tasks})
           /\ cost' = [m \in {into(m) : m \in mts} |->
                          MapThenSumSet(LAMBDA o : cost[o], {o \in mts : into(o) = m})]
           /\ owner' = [v \in DOMAIN owner |-> into(owner[v])]
    /\ hazards' = Tail(hazards)
    /\ UNCHANGED <<input, pc, rank, cp, heap, known, unknown, limit, before, fresh, merge, path0>>

(***************************************************************************)
(* Costs, critical paths and candidates                                    *)
(***************************************************************************)

\* Costs are rounded up on a logarithmic scale; Steps are the values exp(k / 20), truncated,
\* as far as they are needed: a cost beyond them is not rounded.
stepTable == [c \in 0 .. Max(Steps) |-> Min({s \in Steps : s >= c})]
stepCost(c) == IF c \in DOMAIN stepTable THEN stepTable[c] ELSE c

\* An edge, and a pair of siblings <<bp, ap>>, bp having the lower id.
Edge(e) == [sibling |-> FALSE, from |-> e[1], to |-> e[2]]
Sibling(a, b) == [sibling |-> TRUE, from |-> IF a < b THEN a ELSE b,
                  to |-> IF a < b THEN b ELSE a]
Candidates == unknown \cup DOMAIN known

\* critPathCostWithout: the longest path arriving at v other than through edge e.
critPathCostWithout(w, v, e) ==
    Max({0} \cup {heap[w].key[f] : f \in Arriving(w, g, v) \ {e}})

\* Critical path to the mtask that candidate c would become.
MergedCp(w, c) ==
    LET e == <<c.from, c.to>>
        paths == IF c.sibling THEN {cp[w][c.from], cp[w][c.to]}
                 ELSE {cp[w][Near(w, e)], critPathCostWithout(w, Far(w, e), e)}
    IN  Max(paths)

\* A faulty variant: the path behind the merged mtask is forgotten.
ScoreForward(c) ==
    MergedCp("fwd", c) + stepCost(cost[c.from] + cost[c.to]) + (IF c.sibling THEN 0 ELSE 1)

\* rescore(): an edge is one worse than a pair of siblings with the same path.
Score(c) ==
    MergedCp("fwd", c) + MergedCp("rev", c) + stepCost(cost[c.from] + cost[c.to])
      + (IF c.sibling THEN 0 ELSE 1)

\* siblingPairFromRelatives: the relatives one way from v, ordered by critical path and
\* id, are paired with their neighbours; when not exhaustive, three pairs of many.
SiblingPairs(w, E, v, exhaustive) ==
    LET relatives == {Far(w, e) : e \in Leaving(w, E, v)}
        below(a, b) == LET x == cp[w][a] + cost[a]
                           y == cp[w][b] + cost[b]
                       IN  x < y \/ (x = y /\ a < b)
        place(a) == Cardinality({b \in relatives : below(b, a)})
        last == IF exhaustive \/ Cardinality(relatives) <= 6 THEN Cardinality(relatives) ELSE 6
    IN  {Sibling(p[1], p[2]) : p \in {q \in relatives \X relatives :
            place(q[1]) % 2 = 0 /\ place(q[2]) = place(q[1]) + 1 /\ place(q[2]) < last}}

\* pathExistsFrom: a path from a to b other than the edge excluded, looked for only
\* through vertices whose critical paths leave room for b behind them.
Worthwhile(v, b) ==
    /\ cp["rev"][v] >= cp["rev"][b] + stepCost(cost[b])
    /\ cp["fwd"][v] + stepCost(cost[v]) <= cp["fwd"][b]

pathExistsFrom(a, b, excluded) ==
    LET followed == {e \in g : Worthwhile(e[1], b)} \ excluded
    IN  b \in Reach(followed, a)

\* A faulty variant: siblings are checked in one direction only.
mergeWouldCreateCycleOneWay(c) ==
    IF c.sibling THEN pathExistsFrom(c.to, c.from, {})
    ELSE pathExistsFrom(c.from, c.to, {<<c.from, c.to>>})

mergeWouldCreateCycle(c) ==
    IF c.sibling
    THEN pathExistsFrom(c.from, c.to, {}) \/ pathExistsFrom(c.to, c.from, {})
    ELSE pathExistsFrom(c.from, c.to, {<<c.from, c.to>>})

\* partInitCriticalPaths, and the score limit that the partitioner then computes; a test
\* option (--no-threads-coarsen) skips the contraction.
partInitCriticalPaths ==
    /\ pc = "hazards" /\ hazards = <<>>
    /\ pc' \in {"scoreboard", "reduce"}
    /\ LET weight == [m \in mts |-> stepCost(cost[m])]
           path == [w \in Way |-> PathCosts(w, g, mts, weight)]
       IN  /\ cp' = path
           /\ heap' = [w \in Way |->
                         [key |-> [e \in g |-> path[w][Near(w, e)] + weight[Near(w, e)]],
                          pending |-> <<>>, seen |-> {}]]
           /\ path0' = path["fwd"][Exit(input)]
    /\ limit' = (MapThenSumSet(LAMBDA m : cost[m], mts) * 3) \div (Threads * 5)
    /\ UNCHANGED <<input, g, cost, owner, rank, hazards, known, unknown, before, fresh, merge>>

\* Contraction's constructor fills the scoreboard.
FillScoreboard ==
    /\ pc = "scoreboard"
    /\ pc' = "contract"
    /\ unknown' = {Edge(e) : e \in g}
                  \cup UNION {UNION {SiblingPairs(w, g, v, TRUE) : w \in Way} : v \in mts}
    /\ UNCHANGED <<input, g, cost, owner, rank, hazards, cp, heap, known, limit, before,
                   fresh, merge, path0>>

(***************************************************************************)
(* Contraction: the loop over the best candidate                           *)
(***************************************************************************)

\* best(): a candidate of least known score.  Ties are decided by serial numbers, which
\* the model leaves open.
Best(c) == c \in DOMAIN known /\ \A d \in DOMAIN known : known[c] <= known[d]

\* The candidate's own score is refreshed in place before it is judged.
Rescored(k, c) == [k EXCEPT ![c] = Score(c)]

\* doRescore: every candidate has a known score again.
Rescore(k) ==
    /\ known' = [c \in DOMAIN k \cup unknown |-> IF c \in unknown THEN Score(c) ELSE k[c]]
    /\ unknown' = {} /\ fresh' = TRUE /\ before' = Unlimited
    /\ UNCHANGED <<input, pc, g, cost, owner, rank, hazards, cp, heap, limit, merge, path0>>

Without(k, cs) == Restrict(k, DOMAIN k \ cs)

NothingKnown ==
    /\ pc = "contract" /\ DOMAIN known = {} /\ unknown # {}
    /\ Rescore(known)

\* The cached score was too low: the candidate needs a rescore.
StaleScore ==
    /\ pc = "contract"
    /\ \E c \in DOMAIN known :
        /\ Best(c) /\ Score(c) > known[c]
        /\ known' = Without(known, {c})
        /\ unknown' = unknown \cup {c}
    /\ UNCHANGED <<input, pc, g, cost, owner, rank, hazards, cp, heap, limit, before, fresh,
                   merge, path0>>

\* The best candidate exceeds the limit, or the score at which to rescore.
RescoreFirst ==
    /\ pc = "contract"
    /\ \E c \in DOMAIN known :
        /\ Best(c) /\ Score(c) <= known[c]
        /\ \/ Score(c) > limit /\ unknown # {}
           \/ Score(c) <= limit /\ Score(c) > before
        /\ Rescore(Rescored(known, c))

\* A faulty variant: the increment is computed apart and truncated to nothing.
RaiseLimitByPercent(l) == l + (l \div 100)

RaiseLimit(l) == (l * 120) \div 100

\* Nothing is left below the limit but there are too many mtasks.
TooManyMTasks ==
    /\ pc = "contract" /\ unknown = {}
    /\ Cardinality(mts) > MaxMTasks
    /\ \E c \in DOMAIN known :
        /\ Best(c) /\ Score(c) <= known[c] /\ Score(c) > limit
        /\ known' = Rescored(known, c)
    /\ limit' = RaiseLimit(limit)
    /\ UNCHANGED <<input, pc, g, cost, owner, rank, hazards, cp, heap, unknown, before, fresh,
                   merge, path0>>

\* No candidate is left, or none below the limit.
Exhausted ==
    /\ pc = "contract" /\ unknown = {}
    /\ \/ DOMAIN known = {}
       \/ /\ Cardinality(mts) <= MaxMTasks
          /\ \E c \in DOMAIN known : Best(c) /\ Score(c) <= known[c] /\ Score(c) > limit
    /\ pc' = "reduce"
    /\ known' = <<>>
    /\ UNCHANGED <<input, g, cost, owner, rank, hazards, cp, heap, unknown, limit, before,
                   fresh, merge, path0>>

Chosen(c) ==
    /\ pc = "contract"
    /\ Best(c) /\ Score(c) <= known[c] /\ Score(c) <= limit /\ Score(c) <= before

EntryOrExit(c) == ~c.sibling /\ (c.from = Entry \/ c.to = Exit(input))

\* A candidate that may not be merged leaves the scoreboard.
Discard ==
    /\ \E c \in DOMAIN known :
        /\ Chosen(c) /\ (EntryOrExit(c) \/ mergeWouldCreateCycle(c))
        /\ known' = Without(known, {c})
    /\ UNCHANGED <<input, pc, g, cost, owner, rank, hazards, cp, heap, unknown, limit, before,
                   fresh, merge, path0>>

\* A faulty variant: relatives become pending, but the keys of the edges do not grow.
cpHasIncreasedNoKey(w, h, E, v, inclusive) ==
    LET far == {Far(w, e) : e \in {f \in Leaving(w, E, v) : cp[w][Far(w, f)] < inclusive}}
        growth(m) == Max({inclusive - cp[w][m]}
                           \cup {h.pending[o] : o \in {m} \cap DOMAIN h.pending})
    IN  [h EXCEPT !.pending = [m \in DOMAIN h.pending \cup far |->
                                  IF m \in far THEN growth(m) ELSE h.pending[m]]]

\* cpHasIncreased: the inclusive critical path of v is now inclusive; keys of the edges
\* that leave v grow, and relatives whose own path is now too short become pending.
cpHasIncreased(w, h, E, v, inclusive) ==
    LET far == {Far(w, e) : e \in {f \in Leaving(w, E, v) : cp[w][Far(w, f)] < inclusive}}
        growth(m) == Max({inclusive - cp[w][m]}
                           \cup {h.pending[o] : o \in {m} \cap DOMAIN h.pending})
    IN  [h EXCEPT !.key = [e \in DOMAIN h.key |->
                              IF e \in Leaving(w, E, v) THEN Max({h.key[e], inclusive})
                              ELSE h.key[e]],
                  !.pending = [m \in DOMAIN h.pending \cup far |->
                                  IF m \in far THEN growth(m) ELSE h.pending[m]]]

\* contract(), up to the propagation: the cheaper mtask is merged into the other, which
\* takes the critical paths of both; the relatives of each that see a longer path are the
\* seeds of the propagation.
Contract ==
    \E c \in DOMAIN known :
        /\ Chosen(c) /\ ~EntryOrExit(c) /\ ~mergeWouldCreateCycle(c)
        /\ LET r == IF cost[c.from] > cost[c.to] THEN c.from ELSE c.to
               d == IF cost[c.from] > cost[c.to] THEN c.to ELSE c.from
               E == IF c.sibling THEN g ELSE g \ {<<c.from, c.to>>}
               inclusive(w) == MergedCp(w, c) + stepCost(cost[r] + cost[d])
               propagate(w, m) == inclusive(w) > cp[w][m] + stepCost(cost[m])
               seed(w, h, m) == IF propagate(w, m)
                                THEN cpHasIncreased(w, h, E, m, inclusive(w)) ELSE h
               start(w) == [heap[w] EXCEPT !.key = Restrict(heap[w].key, E), !.seen = {}]
           IN  /\ g' = E
               /\ cost' = [cost EXCEPT ![r] = cost[r] + cost[d]]
               /\ owner' = [v \in DOMAIN owner |-> IF owner[v] = d THEN r ELSE owner[v]]
               /\ cp' = [w \in Way |-> [cp[w] EXCEPT ![r] = MergedCp(w, c)]]
               /\ heap' = [w \in Way |-> seed(w, seed(w, start(w), r), d)]
               /\ merge' = [recipient |-> r, donor |-> d]
               /\ before' = IF fresh THEN Score(c) ELSE before
        /\ known' = Without(known, {c})
        /\ pc' = "propagate"
        /\ UNCHANGED <<input, rank, hazards, unknown, limit, fresh, path0>>

\* A faulty variant: the order of ids alone.
MostGrownById(h) == Min(DOMAIN h.pending)

\* go(): the pending mtask with the largest growth, then the highest id, gets its path.
MostGrown(h) ==
    LET most == {m \in DOMAIN h.pending : \A o \in DOMAIN h.pending : h.pending[o] <= h.pending[m]}
    IN  Max(most)

Propagate(w) ==
    /\ pc = "propagate"
    /\ DOMAIN heap[w].pending # {}
    /\ w = "rev" => DOMAIN heap["fwd"].pending = {}
    /\ LET m == MostGrown(heap[w])
           new == cp[w][m] + heap[w].pending[m]
           h == [heap[w] EXCEPT !.pending = Without(heap[w].pending, {m}),
                                !.seen = heap[w].seen \cup {m}]
       IN  /\ cp' = [cp EXCEPT ![w][m] = new]
           /\ heap' = [heap EXCEPT ![w] =
                         cpHasIncreased(w, h, g, m, new + stepCost(cost[m]))]
    /\ UNCHANGED <<input, pc, g, cost, owner, rank, hazards, known, unknown, limit, before,
                   fresh, merge, path0>>

\* A faulty variant: the score of an edge that was there already is kept.
RescoredEdgesNone(moved) == {}

\* Edges that a redirected edge would duplicate: transitive ones may be so no longer.
RescoredEdges(moved) == {Edge(e) : e \in moved \cap g} \cap Candidates

\* The edges that the donor's become: those of the recipient.
partRedirectEdgesFrom(r, d) ==
    LET into(m) == IF m = d THEN r ELSE m
    IN  {<<into(e[1]), into(e[2])>> : e \in {f \in g : d \in {f[1], f[2]}}}

\* contract(), after the propagation: siblings of both are forgotten, the donor's edges go
\* to the recipient (one that is there already only has its score forgotten), and new
\* sibling pairs are made around the recipient.
Redirect ==
    /\ pc = "propagate" /\ \A w \in Way : DOMAIN heap[w].pending = {}
    /\ LET r == merge.recipient
           d == merge.donor
           moved == partRedirectEdgesFrom(r, d)
           E == {e \in g : d \notin {e[1], e[2]}} \cup moved
           V == mts \ {d}
           stepped(m) == stepCost(cost[m])
           gone == {c \in Candidates : d \in {c.from, c.to}}
                     \cup {c \in Candidates : c.sibling /\ r \in {c.from, c.to}}
           existing == RescoredEdges(moved)
           redirected == {Edge(e) : e \in moved \ g}
           near == {SiblingPairs(w, E, r, TRUE) : w \in Way}
                     \cup {SiblingPairs("rev", E, e[2], FALSE) :
                              e \in Leaving("fwd", E, r)}
                     \cup {SiblingPairs("fwd", E, e[1], FALSE) :
                              e \in Leaving("rev", E, r)}
           left == Candidates \ gone
       IN  /\ g' = E
           /\ cost' = Restrict(cost, V)
           /\ cp' = [w \in Way |-> Restrict(cp[w], V)]
           /\ heap' = [w \in Way |-> [heap[w] EXCEPT !.seen = {}, !.key =
                         [e \in E |-> IF e \in moved \ g
                                      THEN cp[w][Near(w, e)] + stepped(Near(w, e))
                                      ELSE heap[w].key[e]]]]
           /\ known' = Without(known, gone \cup existing)
           /\ unknown' = (unknown \ gone) \cup existing \cup redirected
                           \cup ((UNION near) \ left)
    /\ fresh' = FALSE /\ merge' = NoMerge
    /\ pc' = "contract"
    /\ UNCHANGED <<input, owner, rank, hazards, limit, before, path0>>

(***************************************************************************)
(* The result: no transitive edges, no mtasks without logic.               *)
(***************************************************************************)

removeTransitiveEdges(E) == {e \in E : e[2] \notin Reach(E \ {e}, e[1])}

\* rerouteEdges of every vertex outside V: what they connected stays connected.
rerouteEdges(E, V) ==
    {e \in V \X V : e[2] \in Reach({f \in E : f[1] = e[1] \/ f[1] \notin V}, e[1])}

Reduce ==
    /\ pc = "reduce"
    /\ LET V == {owner[v] : v \in 1 .. input.n}
       IN  /\ g' = rerouteEdges(removeTransitiveEdges(g), V)
           /\ cost' = Restrict(cost, V)
    /\ owner' = Restrict(owner, 1 .. input.n)
    /\ cp' = [w \in Way |-> <<>>]
    /\ heap' = [w \in Way |-> [key |-> <<>>, pending |-> <<>>, seen |-> {}]]
    /\ unknown' = {}
    /\ pc' = "done"
    /\ UNCHANGED <<input, rank, hazards, known, limit, before, fresh, merge, path0>>

Done == pc = "done" /\ UNCHANGED vars

Next ==
    \/ mergeSameRankTasks \/ partInitCriticalPaths \/ FillScoreboard
    \/ NothingKnown \/ StaleScore \/ RescoreFirst \/ TooManyMTasks \/ Exhausted \/ Discard
    \/ Contract \/ \E w \in Way : Propagate(w)
    \/ Redirect \/ Reduce \/ Done

Spec == Init /\ [][Next]_vars /\ WF_vars(Next)

(***************************************************************************)
(* Properties                                                              *)
(***************************************************************************)

Ordered(a, b) == a = b \/ b \in Reach(g, a)

\* Between the stages and merges of the partitioner the mtask graph has no cycle, and logic
\* that depends on other logic, directly or through any number of variables, is in the
\* same mtask as what it depends on or in one that runs after it (mergeWouldCreateCycle,
\* partRedirectEdgesFrom, rerouteEdges).
SoundPartition ==
    pc # "propagate" =>
        /\ \A m \in mts : m \notin Reach(g, m)
        /\ \A k \in DOMAIN input.variables :
            \A w \in input.variables[k].writers, r \in input.variables[k].readers :
                Ordered(owner[w], owner[r])

\* Once FixDataHazards is done, and after every merge that follows, two pieces of logic that
\* write one variable (or call DPI imports) are in the same mtask or in mtasks that run in a
\* fixed order: the race its comment describes cannot occur.
WritersOrdered ==
    pc \in {"contract", "reduce", "done"} =>
        \A k \in DOMAIN input.hazards : \A a, b \in input.hazards[k] :
            Ordered(owner[a], owner[b]) \/ Ordered(owner[b], owner[a])

\* The longest path of a graph under stepped costs, its mtasks included.
CriticalPath ==
    LET weight == [m \in mts |-> stepCost(cost[m])]
        path == PathCosts("fwd", g, mts, weight)
    IN  Max({0} \cup {path[m] + weight[m] : m \in mts})

\* The budget: a merge is made only if the path through it stays within the score limit,
\* so the critical path of the graph never exceeds the larger of the limit and the
\* critical path that was there before the first merge of the contraction.
PathWithinBudget ==
    pc \in {"contract", "reduce", "done"} => CriticalPath <= Max({path0, limit})

\* The bounds partCheckCriticalPaths and partCheckCachedScoreVsActual assert, and what the
\* pruned search for paths needs: between merges no edge's key and no critical path is
\* below the value its neighbour implies, nor more than a tenth above it.
Close(cached, actual) == cached >= actual /\ cached * 10 <= actual * 11

CriticalPathsClose ==
    pc = "contract" =>
        \A w \in Way :
            /\ \A e \in g : Close(heap[w].key[e], cp[w][Near(w, e)] + stepCost(cost[Near(w, e)]))
            /\ \A m \in mts :
                Close(cp[w][m], Max({0} \cup {cp[w][Near(w, e)] + stepCost(cost[Near(w, e)]) :
                                                 e \in Arriving(w, g, m)}))

\* The assertion before a merge: the score the candidate was chosen by is not more than a
\* tenth above its actual score.
ScoresClose ==
    \A c \in DOMAIN known :
        Chosen(c) /\ ~EntryOrExit(c) /\ ~mergeWouldCreateCycle(c) => Close(known[c], Score(c))

\* What PropagateCp claims for its order of work: an mtask whose path is set is not pending
\* again in the same pass, and the path it is given is that of its longest edge.
PropagateOnce ==
    pc = "propagate" =>
        \A w \in Way : DOMAIN heap[w].pending # {} =>
            /\ DOMAIN heap[w].pending \cap heap[w].seen = {}
            /\ LET m == MostGrown(heap[w])
               IN  cp[w][m] + heap[w].pending[m]
                     = Max({heap[w].key[e] : e \in Arriving(w, g, m)})

\* The partitioner ends: the loop over the scoreboard cannot judge the same candidates for
\* ever, and a limit that stops everything is raised until something can be merged.
Terminates == <>(pc = "done")

================================================================================
