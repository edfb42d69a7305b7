--------------------------- MODULE PartitionerProofs ---------------------------
(***************************************************************************)
(* Proofs about the partitioner, for every move graph, every number of     *)
(* threads and every table of rounded costs: the graph of mtasks stays     *)
(* acyclic and keeps the order of the logic, writers stay ordered, the     *)
(* propagation visits an mtask once, and the critical path stays within    *)
(* the budget.                                                             *)
(***************************************************************************)
EXTENDS Partitioner, FiniteSetTheorems, SequenceTheorems, WellFoundedInduction, TLAPS

(***************************************************************************)
(* Least elements, iteration                                               *)
(***************************************************************************)

\* A nonempty set of naturals has a least element.
LEMMA LeastNat ==
    ASSUME NEW T \in SUBSET Nat, T # {}
    PROVE  \E x \in T : \A y \in T : x <= y
<1> DEFINE R == OpToRel(<, Nat)
<1>1. IsWellFoundedOn(R, Nat)
  BY NatLessThanWellFounded
<1>2. \A x, y \in Nat : y < x => <<y, x>> \in R
  BY DEF OpToRel
<1> HIDE DEF R
<1>3. PICK x \in T : \A y \in T : ~ (<<y, x>> \in R)
  BY <1>1, WFMin
<1>4. \A y \in T : x \in Nat /\ y \in Nat /\ ~(y < x)
  BY <1>2, <1>3
<1> QED
  BY <1>4

\* A set of naturals that holds 0 and with each number its successor holds them all.
LEMMA AllNats ==
    ASSUME NEW T, 0 \in T, \A n \in Nat : n \in T => n + 1 \in T
    PROVE  Nat \subseteq T
<1> DEFINE Bad == Nat \ T
<1> SUFFICES ASSUME Bad # {} PROVE FALSE
  OBVIOUS
<1>1. PICK x \in Bad : \A y \in Bad : x <= y
  BY LeastNat
<1>2. x \in Nat /\ x # 0 /\ x \notin T
  BY <1>1
<1>3. x - 1 \in Nat /\ x - 1 \notin Bad
  BY <1>1, <1>2
<1>4. x - 1 \in T /\ (x - 1) + 1 = x
  BY <1>2, <1>3
<1> QED
  BY <1>2, <1>3, <1>4

\* A nonempty family of subsets of a finite set has a member none of whose proper subsets is
\* in the family.
LEMMA LeastSubset ==
    ASSUME NEW S, IsFiniteSet(S), NEW Fam \in SUBSET SUBSET S, Fam # {}
    PROVE  \E T \in Fam : \A U \in Fam : U \subseteq T => U = T
<1>1. Fam \subseteq FiniteSubsetsOf(S)
  BY FS_FiniteSubsetsOfFinite
<1>2. PICK T \in Fam : \A U \in Fam : <<U, T>> \notin StrictSubsetOrdering(S)
  BY <1>1, WFMin, FS_StrictSubsetOrderingWellFounded
<1>3. ASSUME NEW U \in Fam, U \subseteq T, U # T PROVE FALSE
  BY <1>2, <1>3 DEF StrictSubsetOrdering
<1> QED
  BY <1>3

\* The same for the largest.
LEMMA LargestSubset ==
    ASSUME NEW S, IsFiniteSet(S), NEW Fam \in SUBSET SUBSET S, Fam # {}
    PROVE  \E T \in Fam : \A U \in Fam : T \subseteq U => U = T
<1> DEFINE Co == {U \in SUBSET S : S \ U \in Fam}
<1>1. Co # {}
  <2>1. PICK T \in Fam : TRUE
    OBVIOUS
  <2>2. S \ (S \ T) = T
    BY <2>1
  <2>3. S \ T \in Co
    BY <2>1, <2>2
  <2> QED
    BY <2>3
<1>2. PICK U \in Co : \A W \in Co : W \subseteq U => W = U
  <2> HIDE DEF Co
  <2>1. Co \in SUBSET SUBSET S
    BY DEF Co
  <2> QED
    BY <1>1, <2>1, LeastSubset
<1>3. ASSUME NEW W \in Fam, S \ U \subseteq W PROVE W = S \ U
  <2>1. S \ (S \ W) = W
    OBVIOUS
  <2>2. S \ W \in Co
    BY <2>1
  <2>3. S \ W \subseteq U
    BY <1>3
  <2>4. S \ W = U
    BY <1>2, <2>2, <2>3
  <2> QED
    BY <2>4
<1> DEFINE T == S \ U
<1>4. T \in Fam
  BY <1>2
<1>5. \A W \in Fam : T \subseteq W => W = T
  BY <1>3
<1> HIDE DEF T
<1> QED
  BY <1>4, <1>5

\* f is the sequence of iterates of F from x0.
Iterates(f, D, F, x0) ==
    f \in [Nat -> D] /\ f[0] = x0 /\ \A n \in Nat : f[n + 1] = F[f[n]]

\* A function can be iterated.
LEMMA Iterated ==
    ASSUME NEW D, NEW F, F \in [D -> D], NEW x0 \in D
    PROVE  \E f : Iterates(f, D, F, x0)
<1> DEFINE Sol(n) == {f \in [0 .. n -> D] : f[0] = x0 /\ \A k \in 0 .. n - 1 : f[k + 1] = F[f[k]]}
<1> DEFINE Has == {n \in Nat : Sol(n) # {}}
<1>1. Nat \subseteq Has
  <2>1. 0 \in Has
    <3>1. [k \in 0 .. 0 |-> x0] \in Sol(0)
      OBVIOUS
    <3> QED
      BY <3>1
  <2>2. ASSUME NEW n \in Nat, n \in Has PROVE n + 1 \in Has
    <3>1. PICK f \in Sol(n) : TRUE
      BY <2>2
    <3> DEFINE h == [k \in 0 .. n + 1 |-> IF k = n + 1 THEN F[f[n]] ELSE f[k]]
    <3>2. h \in [0 .. n + 1 -> D] /\ h[0] = x0
      BY <3>1
    <3>3. ASSUME NEW k \in 0 .. (n + 1) - 1 PROVE h[k + 1] = F[h[k]]
      <4>1. CASE k = n
        BY <4>1
      <4>2. CASE k # n
        <5>1. k \in 0 .. n - 1 /\ k + 1 \in 0 .. n /\ k # n + 1 /\ k + 1 # n + 1
          BY <4>2
        <5>2. h[k + 1] = f[k + 1] /\ h[k] = f[k]
          BY <5>1
        <5> QED
          BY <3>1, <5>1, <5>2
      <4> QED
        BY <4>1, <4>2
    <3>4. h \in Sol(n + 1)
      <4> HIDE DEF h
      <4>1. \A k \in 0 .. (n + 1) - 1 : h[k + 1] = F[h[k]]
        BY <3>3
      <4> QED
        BY <3>2, <4>1
    <3>5. Sol(n + 1) # {}
      <4> HIDE DEF h, Sol
      <4> QED
        BY <3>4
    <3> HIDE DEF Sol
    <3> QED
      BY <3>5
  <2> HIDE DEF Has
  <2> QED
    BY <2>1, <2>2, AllNats
<1> DEFINE f0 == [n \in Nat |-> CHOOSE f \in Sol(n) : TRUE]
<1>2. \A n \in Nat : f0[n] \in Sol(n)
  <2> HIDE DEF Sol
  <2> QED
    BY <1>1
<1> DEFINE Agree(k) == \A n \in Nat, m \in Nat : k <= n /\ k <= m => f0[n][k] = f0[m][k]
<1>3. \A k \in Nat : Agree(k)
  <2> DEFINE A == {k \in Nat : Agree(k)}
  <2>1. 0 \in A
    BY <1>2
  <2>2. ASSUME NEW k \in Nat, k \in A PROVE k + 1 \in A
    <3>1. ASSUME NEW n \in Nat, NEW m \in Nat, k + 1 <= n, k + 1 <= m
          PROVE  f0[n][k + 1] = f0[m][k + 1]
      <4> HIDE DEF f0
      <4>1. k \in 0 .. n - 1 /\ k \in 0 .. m - 1
        BY <3>1
      <4>2. f0[n][k + 1] = F[f0[n][k]]
        BY <1>2, <4>1
      <4>3. f0[m][k + 1] = F[f0[m][k]]
        BY <1>2, <4>1
      <4>4. f0[n][k] = f0[m][k]
        BY <2>2, <4>1
      <4> QED
        BY <4>2, <4>3, <4>4
    <3> HIDE DEF f0
    <3> QED
      BY <3>1
  <2>3. Nat \subseteq A
    <3> HIDE DEF A
    <3> QED
      BY <2>1, <2>2, AllNats
  <2> QED
    BY <2>3
<1> DEFINE g0 == [n \in Nat |-> f0[n][n]]
<1>4. g0 \in [Nat -> D] /\ g0[0] = x0
  <2> HIDE DEF f0
  <2>1. \A n \in Nat : f0[n][n] \in D
    BY <1>2
  <2>2. f0[0][0] = x0
    BY <1>2
  <2> QED
    BY <2>1, <2>2
<1>5. ASSUME NEW n \in Nat PROVE g0[n + 1] = F[g0[n]]
  <2> HIDE DEF f0
  <2>1. f0[n + 1][n + 1] = F[f0[n + 1][n]]
    BY <1>2
  <2>2. f0[n + 1][n] = f0[n][n]
    BY <1>3
  <2> QED
    BY <2>1, <2>2
<1> QED
  <2> HIDE DEF g0
  <2>1. Iterates(g0, D, F, x0)
    BY <1>4, <1>5 DEF Iterates
  <2> QED
    BY <2>1

(***************************************************************************)
(* Reach                                                                   *)
(***************************************************************************)

\* An image of a finite set is finite.
LEMMA FiniteEnds ==
    ASSUME NEW E, IsFiniteSet(E)
    PROVE  IsFiniteSet({e[2] : e \in E}) /\ Cardinality({e[2] : e \in E}) <= Cardinality(E)
<1> DEFINE T == {e[2] : e \in E}
           f == [e \in E |-> e[2]]
<1>1. f \in Surjection(E, T)
  BY DEF Surjection
<1> HIDE DEF f, T
<1>2. IsFiniteSet(T) /\ Cardinality(T) <= Cardinality(E)
  BY <1>1, FS_Surjection
<1> QED
  BY <1>2 DEF T

\* S is closed under the edges.
Closed(E, S) == \A e \in E : e[1] \in S => e[2] \in S

\* Reach holds the successors of a vertex and theirs, and nothing more.
LEMMA ReachLeast ==
    ASSUME NEW E, IsFiniteSet(E), NEW a
    PROVE  /\ \A e \in E : e[1] = a => e[2] \in Reach(E, a)
           /\ Closed(E, Reach(E, a))
           /\ Reach(E, a) \subseteq {e[2] : e \in E}
           /\ \A S : Closed(E, S) /\ (\A e \in E : e[1] = a => e[2] \in S) => Reach(E, a) \subseteq S
<1> DEFINE step(S) == {e[2] : e \in {f \in E : f[1] \in S}}
           S0 == step({a})
           Eq(r) == r = [k \in Nat |-> IF k = 0 THEN S0
                                       ELSE UNION {Q \cup step(Q) : Q \in {r[k - 1]}}]
           R == CHOOSE r : Eq(r)
           D == {e[2] : e \in E}
           n == Cardinality(E)
<1>1. Reach(E, a) = R[n]
  BY DEF Reach
<1>2. \E r : Eq(r)
  <2> DEFINE F == [Q \in SUBSET D |-> Q \cup step(Q)]
  <2>1. F \in [SUBSET D -> SUBSET D]
    OBVIOUS
  <2>2. S0 \in SUBSET D
    OBVIOUS
  <2>3. PICK f \in [Nat -> SUBSET D] : f[0] = S0 /\ \A k \in Nat : f[k + 1] = F[f[k]]
    <3> DEFINE P == SUBSET D
    <3>1. F \in [P -> P] /\ S0 \in P
      BY <2>1, <2>2
    <3> HIDE DEF F, P, step, R, Eq, S0
    <3>2. \E f : Iterates(f, P, F, S0)
      BY <3>1, Iterated
    <3> QED
      BY <3>2 DEF P, Iterates
  <2>4. ASSUME NEW k \in Nat, k # 0 PROVE f[k] = f[k - 1] \cup step(f[k - 1])
    <3>1. k - 1 \in Nat /\ (k - 1) + 1 = k
      BY <2>4
    <3>2. f[k] = F[f[k - 1]]
      BY <2>3, <3>1
    <3>3. f[k - 1] \in SUBSET D
      BY <2>3, <3>1
    <3> QED
      BY <3>2, <3>3
  <2>5. \A k \in Nat : f[k] = IF k = 0 THEN S0
                              ELSE UNION {Q \cup step(Q) : Q \in {f[k - 1]}}
    <3> HIDE DEF step, S0
    <3>1. \A k \in Nat : k # 0 => f[k] = UNION {Q \cup step(Q) : Q \in {f[k - 1]}}
      BY <2>4
    <3> QED
      BY <2>3, <3>1
  <2> HIDE DEF step, S0
  <2>6. Eq(f)
    BY <2>3, <2>5
  <2> QED
    BY <2>6
<1>3. Eq(R)
  <2> HIDE DEF Eq
  <2> QED
    BY <1>2
<1>4. R[0] = S0 /\ \A k \in Nat : R[k + 1] = R[k] \cup step(R[k])
  <2> HIDE DEF step, R, S0
  <2>1. R[0] = S0
    BY <1>3
  <2>2. ASSUME NEW k \in Nat PROVE R[k + 1] = R[k] \cup step(R[k])
    <3>1. k + 1 \in Nat /\ k + 1 # 0 /\ (k + 1) - 1 = k
      OBVIOUS
    <3>2. R[k + 1] = UNION {Q \cup step(Q) : Q \in {R[(k + 1) - 1]}}
      BY <1>3, <3>1
    <3> QED
      BY <3>1, <3>2
  <2> QED
    BY <2>1, <2>2
<1> HIDE DEF R, Eq
<1>5. n \in Nat /\ IsFiniteSet(D) /\ Cardinality(D) <= n
  BY FS_CardinalityType, FiniteEnds
<1> HIDE DEF n
\* Every stage is below the ends of edges, and below every closed set.
<1>6. \A k \in Nat : R[k] \subseteq D
  <2> DEFINE A == {k \in Nat : R[k] \subseteq D}
  <2>1. 0 \in A
    BY <1>4
  <2>2. ASSUME NEW k \in Nat, k \in A PROVE k + 1 \in A
    BY <2>2, <1>4
  <2>3. Nat \subseteq A
    <3> HIDE DEF A
    <3> QED
      BY <2>1, <2>2, AllNats
  <2> QED
    BY <2>3
<1>7. ASSUME NEW S, Closed(E, S), \A e \in E : e[1] = a => e[2] \in S
      PROVE  R[n] \subseteq S
  <2> DEFINE A == {k \in Nat : R[k] \subseteq S}
  <2>1. 0 \in A
    BY <1>4, <1>7
  <2>2. ASSUME NEW k \in Nat, k \in A PROVE k + 1 \in A
    <3>1. step(R[k]) \subseteq S
      BY <2>2, <1>7 DEF Closed
    <3> QED
      BY <2>2, <3>1, <1>4
  <2>3. Nat \subseteq A
    <3> HIDE DEF A
    <3> QED
      BY <2>1, <2>2, AllNats
  <2> QED
    BY <2>3, <1>5
<1>8. \A k \in Nat : S0 \subseteq R[k]
  <2> DEFINE A == {k \in Nat : S0 \subseteq R[k]}
  <2> HIDE DEF step, S0
  <2>1. 0 \in A
    BY <1>4
  <2>2. ASSUME NEW k \in Nat, k \in A PROVE k + 1 \in A
    <3>1. R[k] \subseteq R[k + 1]
      BY <1>4
    <3>2. S0 \subseteq R[k]
      BY <2>2
    <3>3. S0 \subseteq R[k + 1]
      BY <3>1, <3>2
    <3> QED
      BY <3>3
  <2>3. Nat \subseteq A
    <3> HIDE DEF A
    <3> QED
      BY <2>1, <2>2, AllNats
  <2> QED
    BY <2>3
\* A stage that is not closed has grown at every step.
<1>9. \A k \in Nat : step(R[k]) \subseteq R[k] \/ Cardinality(R[k]) > k
  <2> DEFINE A == {k \in Nat : step(R[k]) \subseteq R[k] \/ Cardinality(R[k]) > k}
  <2>0. \A k \in Nat : IsFiniteSet(R[k]) /\ Cardinality(R[k]) \in Nat
    BY <1>5, <1>6, FS_Subset, FS_CardinalityType
  <2>1. 0 \in A
    <3>1. CASE R[0] = {}
      BY <3>1
    <3>2. CASE R[0] # {}
      <4>1. Cardinality(R[0]) # 0
        BY <3>2, <2>0, FS_EmptySet
      <4>2. Cardinality(R[0]) > 0
        BY <2>0, <4>1
      <4> QED
        BY <4>2
    <3> QED
      BY <3>1, <3>2
  <2>2. ASSUME NEW k \in Nat, k \in A PROVE k + 1 \in A
    <3> HIDE DEF step
    <3>1. CASE step(R[k]) \subseteq R[k]
      <4>1. R[k + 1] = R[k]
        BY <1>4, <3>1
      <4> QED
        BY <3>1, <4>1
    <3>2. CASE ~(step(R[k]) \subseteq R[k])
      <4>1. R[k] \subseteq R[k + 1] /\ R[k] # R[k + 1]
        BY <1>4, <3>2
      <4>2. Cardinality(R[k]) <= Cardinality(R[k + 1]) /\ Cardinality(R[k]) # Cardinality(R[k + 1])
        <5>1. IsFiniteSet(R[k + 1])
          BY <2>0
        <5> QED
          BY <4>1, <5>1, FS_Subset
      <4>3. Cardinality(R[k]) > k
        BY <2>2, <3>2
      <4>4. Cardinality(R[k + 1]) > k + 1
        BY <2>0, <4>2, <4>3
      <4> QED
        BY <4>4
    <3> QED
      BY <3>1, <3>2
  <2>3. Nat \subseteq A
    <3> HIDE DEF A
    <3> QED
      BY <2>1, <2>2, AllNats
  <2> QED
    BY <2>3
<1>10. step(R[n]) \subseteq R[n]
  <2>1. Cardinality(R[n]) <= Cardinality(D) /\ Cardinality(R[n]) \in Nat /\ Cardinality(D) \in Nat
    BY <1>5, <1>6, FS_Subset, FS_CardinalityType
  <2>2. ~(Cardinality(R[n]) > n)
    BY <2>1, <1>5
  <2> HIDE DEF step
  <2> QED
    BY <1>5, <1>9, <2>2
<1>11. Closed(E, R[n])
  BY <1>10 DEF Closed
<1>12. \A e \in E : e[1] = a => e[2] \in R[n]
  BY <1>5, <1>8
<1>13. R[n] \subseteq D
  BY <1>5, <1>6
<1> QED
  BY <1>1, <1>7, <1>11, <1>12, <1>13

\* a is b or comes before it.
Leads(E, a, b) == a = b \/ b \in Reach(E, a)

\* No vertex is behind itself.
Acyclic(E) == \A a : a \notin Reach(E, a)

LEMMA ReachTrans ==
    ASSUME NEW E, IsFiniteSet(E), NEW a, NEW b \in Reach(E, a)
    PROVE  Reach(E, b) \subseteq Reach(E, a)
<1>1. Closed(E, Reach(E, a))
  BY ReachLeast
<1>2. \A e \in E : e[1] = b => e[2] \in Reach(E, a)
  BY <1>1 DEF Closed
<1> QED
  BY <1>1, <1>2, ReachLeast

LEMMA ReachEdge ==
    ASSUME NEW E, IsFiniteSet(E), NEW e \in E
    PROVE  e[2] \in Reach(E, e[1]) /\ Reach(E, e[2]) \subseteq Reach(E, e[1])
<1>1. e[2] \in Reach(E, e[1])
  BY ReachLeast
<1> QED
  BY <1>1, ReachTrans

LEMMA ReachMono ==
    ASSUME NEW E, NEW F, IsFiniteSet(F), E \subseteq F, NEW a
    PROVE  Reach(E, a) \subseteq Reach(F, a)
<1>1. IsFiniteSet(E)
  BY FS_Subset
<1>2. Closed(F, Reach(F, a)) /\ \A e \in F : e[1] = a => e[2] \in Reach(F, a)
  BY ReachLeast
<1>3. Closed(E, Reach(F, a)) /\ \A e \in E : e[1] = a => e[2] \in Reach(F, a)
  BY <1>2 DEF Closed
<1> QED
  BY <1>1, <1>3, ReachLeast

\* A way has a first and a last edge.
LEMMA ReachFront ==
    ASSUME NEW E, IsFiniteSet(E), NEW a, NEW b \in Reach(E, a)
    PROVE  \E e \in E : e[1] = a /\ Leads(E, e[2], b)
<1> DEFINE D == {e[2] : e \in E}
           S == {x \in D : \E e \in E : e[1] = a /\ Leads(E, e[2], x)}
<1>1. Closed(E, S)
  <2> SUFFICES ASSUME NEW f \in E, f[1] \in S PROVE f[2] \in S
    BY DEF Closed
  <2>1. PICK e \in E : e[1] = a /\ Leads(E, e[2], f[1])
    OBVIOUS
  <2>2. f[2] \in Reach(E, f[1])
    BY ReachEdge
  <2>3. f[2] \in Reach(E, e[2])
    <3>1. CASE e[2] = f[1]
      BY <2>2, <3>1
    <3>2. CASE f[1] \in Reach(E, e[2])
      BY <2>2, <3>2, ReachTrans
    <3> QED
      BY <2>1, <3>1, <3>2 DEF Leads
  <2> QED
    BY <2>1, <2>3 DEF Leads
<1>2. \A e \in E : e[1] = a => e[2] \in S
  BY DEF Leads
<1>3. Reach(E, a) \subseteq S
  <2> HIDE DEF S
  <2> QED
    BY <1>1, <1>2, ReachLeast
<1> QED
  BY <1>3

LEMMA ReachBack ==
    ASSUME NEW E, IsFiniteSet(E), NEW a, NEW b \in Reach(E, a)
    PROVE  \E e \in E : e[2] = b /\ Leads(E, a, e[1])
<1> DEFINE S == {e[2] : e \in {f \in E : Leads(E, a, f[1])}}
<1>1. S \subseteq Reach(E, a)
  <2> SUFFICES ASSUME NEW f \in E, Leads(E, a, f[1]) PROVE f[2] \in Reach(E, a)
    OBVIOUS
  <2>1. f[2] \in Reach(E, f[1])
    BY ReachEdge
  <2> QED
    BY <2>1, ReachTrans DEF Leads
<1>2. Closed(E, S)
  BY <1>1 DEF Closed, Leads
<1>3. \A e \in E : e[1] = a => e[2] \in S
  BY DEF Leads
<1>4. Reach(E, a) \subseteq S
  <2> HIDE DEF S
  <2> QED
    BY <1>2, <1>3, ReachLeast
<1> QED
  BY <1>4

LEMMA LeadsTrans ==
    ASSUME NEW E, IsFiniteSet(E), NEW a, NEW b, NEW c, Leads(E, a, b), Leads(E, b, c)
    PROVE  Leads(E, a, c) /\ (c \in Reach(E, b) => c \in Reach(E, a))
                          /\ (b \in Reach(E, a) => c \in Reach(E, a))
BY ReachTrans DEF Leads

\* A map under which the ends of every edge stay ordered keeps every way.
LEMMA ReachImage ==
    ASSUME NEW E, IsFiniteSet(E), NEW F, IsFiniteSet(F), NEW f,
           \A e \in E : Leads(F, f[e[1]], f[e[2]]),
           NEW a, NEW b, Leads(E, a, b)
    PROVE  Leads(F, f[a], f[b])
<1> DEFINE D == {e[2] : e \in E}
           S == {x \in D : Leads(F, f[a], f[x])}
<1>1. Closed(E, S)
  <2> SUFFICES ASSUME NEW e \in E, e[1] \in S PROVE e[2] \in S
    BY DEF Closed
  <2>1. Leads(F, f[a], f[e[1]]) /\ Leads(F, f[e[1]], f[e[2]])
    OBVIOUS
  <2>2. Leads(F, f[a], f[e[2]])
    BY <2>1, LeadsTrans
  <2> QED
    BY <2>2
<1>2. \A e \in E : e[1] = a => e[2] \in S
  OBVIOUS
<1>3. Reach(E, a) \subseteq S
  <2> HIDE DEF S
  <2> QED
    BY <1>1, <1>2, ReachLeast
<1> QED
  BY <1>3 DEF Leads

\* Edges that are ways of another graph lead nowhere else.
LEMMA ReachSub ==
    ASSUME NEW E, IsFiniteSet(E), NEW F, IsFiniteSet(F),
           \A e \in E : e[2] \in Reach(F, e[1]),
           NEW a
    PROVE  Reach(E, a) \subseteq Reach(F, a)
<1>1. Closed(E, Reach(F, a))
  BY ReachTrans DEF Closed
<1>2. \A e \in E : e[1] = a => e[2] \in Reach(F, a)
  OBVIOUS
<1> QED
  BY <1>1, <1>2, ReachLeast

LEMMA AcyclicSub ==
    ASSUME NEW E, IsFiniteSet(E), NEW F, IsFiniteSet(F), Acyclic(F),
           \A e \in E : e[2] \in Reach(F, e[1])
    PROVE  Acyclic(E)
BY ReachSub DEF Acyclic

\* A graph whose edges all go up a function is acyclic.
LEMMA UpwardAcyclic ==
    ASSUME NEW E, IsFiniteSet(E), NEW f,
           \A e \in E : f[e[1]] \in Int /\ f[e[2]] \in Int /\ f[e[1]] < f[e[2]]
    PROVE  /\ Acyclic(E)
           /\ \A a : \A b \in Reach(E, a) : f[a] < f[b]
<1>1. ASSUME NEW a, NEW b \in Reach(E, a) PROVE f[a] < f[b]
  <2> DEFINE D == {e[2] : e \in E}
             S == {x \in D : f[a] < f[x]}
  <2>1. f[a] \in Int
    <3>1. PICK e \in E : e[1] = a /\ Leads(E, e[2], b)
      BY ReachFront
    <3> QED
      BY <3>1
  <2>2. Closed(E, S)
    BY <2>1 DEF Closed
  <2>3. \A e \in E : e[1] = a => e[2] \in S
    OBVIOUS
  <2>4. Reach(E, a) \subseteq S
    <3> HIDE DEF S
    <3> QED
      BY <2>2, <2>3, ReachLeast
  <2> QED
    BY <2>4
<1>2. ASSUME NEW a, a \in Reach(E, a) PROVE FALSE
  <2>1. PICK e \in E : e[1] = a /\ Leads(E, e[2], a)
    BY <1>2, ReachFront
  <2>2. f[a] < f[a] /\ f[a] \in Int
    BY <1>1, <1>2, <2>1
  <2> QED
    BY <2>2
<1> QED
  BY <1>1, <1>2 DEF Acyclic

\* In an acyclic graph every nonempty set of vertices has a first and a last one.
LEMMA FirstVertex ==
    ASSUME NEW E, IsFiniteSet(E), Acyclic(E), NEW T, T # {}
    PROVE  /\ \E x \in T : \A e \in E : e[2] = x => e[1] \notin T
           /\ \E x \in T : \A e \in E : e[1] = x => e[2] \notin T
<1> DEFINE D == {e[2] : e \in E}
           Fam == {Reach(E, x) : x \in T}
<1>1. IsFiniteSet(D) /\ Fam \subseteq SUBSET D /\ Fam # {}
  <2>1. \A x \in T : Reach(E, x) \subseteq D
    BY ReachLeast
  <2> QED
    BY <2>1, FiniteEnds
<1>2. \E x \in T : \A e \in E : e[2] = x => e[1] \notin T
  <2>1. \E A \in Fam : \A B \in Fam : A \subseteq B => B = A
    <3> HIDE DEF Fam, D
    <3> QED
      BY <1>1, LargestSubset
  <2>2. PICK x \in T : \A y \in T : Reach(E, x) \subseteq Reach(E, y) => Reach(E, y) = Reach(E, x)
    BY <2>1
  <2>3. ASSUME NEW e \in E, e[2] = x, e[1] \in T PROVE FALSE
    <3>1. x \in Reach(E, e[1]) /\ Reach(E, x) \subseteq Reach(E, e[1])
      BY <2>3, ReachEdge
    <3>2. x \in Reach(E, x)
      BY <2>2, <2>3, <3>1
    <3> QED
      BY <3>2 DEF Acyclic
  <2> QED
    BY <2>3
<1>3. \E x \in T : \A e \in E : e[1] = x => e[2] \notin T
  <2>1. \E A \in Fam : \A B \in Fam : B \subseteq A => B = A
    <3> HIDE DEF Fam, D
    <3> QED
      BY <1>1, LeastSubset
  <2>2. PICK x \in T : \A y \in T : Reach(E, y) \subseteq Reach(E, x) => Reach(E, y) = Reach(E, x)
    BY <2>1
  <2>3. ASSUME NEW e \in E, e[1] = x, e[2] \in T PROVE FALSE
    <3>1. e[2] \in Reach(E, x) /\ Reach(E, e[2]) \subseteq Reach(E, x)
      BY <2>3, ReachEdge
    <3>2. e[2] \in Reach(E, e[2])
      BY <2>2, <2>3, <3>1
    <3> QED
      BY <3>2 DEF Acyclic
  <2> QED
    BY <2>3
<1> QED
  BY <1>2, <1>3

(***************************************************************************)
(* Maxima, sums and longest paths                                          *)
(***************************************************************************)

\* A finite set of naturals has a largest element, which Max picks.
LEMMA MaxOfNats ==
    ASSUME NEW S, S \subseteq Nat, IsFiniteSet(S), S # {}
    PROVE  /\ Max(S) \in S /\ Max(S) \in Nat
           /\ \A y \in S : y <= Max(S)
<1> DEFINE HasMax(T) == \E x \in T : \A y \in T : x >= y
           Fam == {T \in SUBSET S : T = {} \/ HasMax(T)}
<1>1. S \in Fam
  <2>1. Fam \in SUBSET SUBSET S /\ Fam # {}
    <3>1. {} \in Fam
      OBVIOUS
    <3> QED
      BY <3>1
  <2>2. PICK T \in Fam : \A U \in Fam : T \subseteq U => U = T
    <3> HIDE DEF Fam, HasMax
    <3>1. IsFiniteSet(S)
      OBVIOUS
    <3>2. \E T \in Fam : \A U \in Fam : T \subseteq U => U = T
      BY ONLY <2>1, <3>1, LargestSubset
    <3> QED
      BY <3>2
  <2>3. CASE T = S
    BY <2>3
  <2>4. CASE T # S
    <3>1. PICK x \in S : x \notin T
      BY <2>4
    <3> DEFINE U == T \cup {x}
    <3>2. HasMax(U)
      <4>1. CASE T = {}
        BY <4>1, <3>1
      <4>2. CASE T # {}
        <5>1. PICK z \in T : \A y \in T : z >= y
          BY <4>2
        <5>2. z \in Nat /\ x \in Nat /\ \A y \in T : y \in Nat
          BY <3>1
        <5>3. CASE z >= x
          BY <5>1, <5>2, <5>3
        <5>4. CASE ~(z >= x)
          <6>1. \A y \in U : x >= y
            BY <5>1, <5>2, <5>4
          <6> QED
            BY <6>1
        <5> QED
          BY <5>3, <5>4
      <4> QED
        BY <4>1, <4>2
    <3>3. U \in Fam
      BY <3>1, <3>2
    <3>4. U = T
      <4> HIDE DEF Fam
      <4> QED
        BY <2>2, <3>3
    <3> QED
      BY <3>1, <3>4
  <2> QED
    BY <2>3, <2>4
<1>2. Max(S) \in S /\ \A y \in S : Max(S) >= y
  BY <1>1 DEF Max
<1>3. Max(S) \in Nat
  BY <1>2
<1> QED
  BY <1>2, <1>3

LEMMA MinOfNats ==
    ASSUME NEW S \in SUBSET Nat, S # {}
    PROVE  /\ Min(S) \in S /\ Min(S) \in Nat
           /\ \A y \in S : Min(S) <= y
<1>1. \E x \in S : \A y \in S : x <= y
  BY LeastNat
<1>2. Min(S) \in S /\ \A y \in S : Min(S) <= y
  BY <1>1 DEF Min
<1> QED
  BY <1>2

LEMMA FiniteImage ==
    ASSUME NEW A, IsFiniteSet(A), NEW f
    PROVE  IsFiniteSet({f[e] : e \in A})
<1> DEFINE T == {f[e] : e \in A}
           h == [e \in A |-> f[e]]
<1>1. h \in Surjection(A, T)
  BY DEF Surjection
<1> HIDE DEF h, T
<1>2. IsFiniteSet(T)
  BY <1>1, FS_Surjection
<1> QED
  BY <1>2 DEF T

\* The largest value of a function on a finite set, or 0.
Largest(f, A) == Max({0} \cup {f[e] : e \in A})

LEMMA LargestValue ==
    ASSUME NEW A, IsFiniteSet(A), NEW f, \A e \in A : f[e] \in Nat
    PROVE  /\ Largest(f, A) \in Nat
           /\ \A e \in A : f[e] <= Largest(f, A)
           /\ Largest(f, A) = 0 \/ \E e \in A : f[e] = Largest(f, A)
<1> DEFINE T == {f[e] : e \in A}
           S == {0} \cup T
<1>1. IsFiniteSet(S) /\ S \subseteq Nat /\ S # {}
  <2>1. IsFiniteSet(T)
    BY FiniteImage
  <2>2. IsFiniteSet(T \cup {0})
    BY <2>1, FS_AddElement
  <2>3. T \cup {0} = S
    OBVIOUS
  <2> QED
    BY <2>2, <2>3
<1>2. Max(S) \in S /\ Max(S) \in Nat /\ \A y \in S : y <= Max(S)
  <2> HIDE DEF S
  <2> QED
    BY <1>1, MaxOfNats
<1> QED
  BY <1>2 DEF Largest

\* The larger of two numbers.
LEMMA MaxOfTwo ==
    ASSUME NEW a \in Nat, NEW b \in Nat
    PROVE  /\ Max({a, b}) \in {a, b} /\ Max({a, b}) \in Nat
           /\ a <= Max({a, b}) /\ b <= Max({a, b})
<1>1. \E x \in {a, b} : \A y \in {a, b} : x >= y
  <2>1. CASE a >= b
    BY <2>1
  <2>2. CASE ~(a >= b)
    BY <2>2
  <2> QED
    BY <2>1, <2>2
<1>2. Max({a, b}) \in {a, b} /\ \A y \in {a, b} : Max({a, b}) >= y
  BY <1>1 DEF Max
<1>3. Max({a, b}) \in Nat
  BY <1>2
<1> QED
  BY <1>2, <1>3

\* In an acyclic graph PathCosts are the longest paths: they satisfy their equation.
LEMMA LongestPaths ==
    ASSUME NEW V, IsFiniteSet(V), NEW E, E \subseteq V \X V, IsFiniteSet(E), Acyclic(E),
           NEW weight, weight \in [V -> Nat], NEW w
    PROVE  LET p == PathCosts(w, E, V, weight)
           IN  /\ p \in [V -> Nat]
               /\ \A e \in E : p[Near(w, e)] + weight[Near(w, e)] <= p[Far(w, e)]
               /\ \A v \in V : p[v] = 0 \/ \E e \in E : /\ Far(w, e) = v
                                                      /\ p[v] = p[Near(w, e)] + weight[Near(w, e)]
<1> DEFINE val(q, v) == Max({0} \cup {q[Near(w, e)] + weight[Near(w, e)] : e \in Arriving(w, E, v)})
           Below(U) == \A e \in E : Far(w, e) \in U => Near(w, e) \in U
           Sol(U) == {q \in [U -> Nat] : Below(U) /\ \A v \in U : q[v] = val(q, v)}
           Fam == {U \in SUBSET V : Sol(U) # {}}
<1>1. \A e \in E : Near(w, e) \in V /\ Far(w, e) \in V
  BY DEF Near, Far
<1>2. ASSUME NEW q, NEW v, \A e \in Arriving(w, E, v) : q[Near(w, e)] \in Nat
      PROVE  /\ val(q, v) \in Nat
             /\ \A e \in Arriving(w, E, v) : q[Near(w, e)] + weight[Near(w, e)] <= val(q, v)
             /\ val(q, v) = 0 \/ \E e \in Arriving(w, E, v) :
                                    val(q, v) = q[Near(w, e)] + weight[Near(w, e)]
  <2> DEFINE A == Arriving(w, E, v)
             f == [e \in A |-> q[Near(w, e)] + weight[Near(w, e)]]
  <2>1. IsFiniteSet(A) /\ A \subseteq E
    BY FS_Subset DEF Arriving
  <2>2. \A e \in A : f[e] \in Nat /\ f[e] = q[Near(w, e)] + weight[Near(w, e)]
    BY <1>1, <1>2, <2>1
  <2>3. {f[e] : e \in A} = {q[Near(w, e)] + weight[Near(w, e)] : e \in A}
    BY <2>2
  <2>4. val(q, v) = Largest(f, A)
    BY <2>3 DEF Largest
  <2> HIDE DEF f, A, val
  <2>5. /\ Largest(f, A) \in Nat
        /\ \A e \in A : f[e] <= Largest(f, A)
        /\ Largest(f, A) = 0 \/ \E e \in A : f[e] = Largest(f, A)
    BY <2>1, <2>2, LargestValue
  <2> QED
    BY <2>2, <2>4, <2>5 DEF A
<1> HIDE DEF val
<1>3. V \in Fam
  <2>1. Fam \in SUBSET SUBSET V /\ Fam # {}
    <3>1. <<>> \in Sol({})
      OBVIOUS
    <3>2. {} \in Fam
      BY <3>1
    <3> QED
      BY <3>2
  <2>2. PICK U \in Fam : \A W \in Fam : U \subseteq W => W = U
    <3> HIDE DEF Fam
    <3> QED
      BY <2>1, LargestSubset
  <2> SUFFICES ASSUME U # V PROVE FALSE
    BY <2>2
  <2>3. PICK q \in Sol(U) : TRUE
    BY <2>2
  <2>4. U \subseteq V /\ V \ U # {}
    BY <2>2
  <2>5. PICK x \in V \ U : \A e \in E : Far(w, e) = x => Near(w, e) \in U
    <3>1. CASE w = "fwd"
      <4>1. PICK x \in V \ U : \A e \in E : e[2] = x => e[1] \notin V \ U
        BY <2>4, FirstVertex
      <4> QED
        BY <4>1, <3>1, <1>1 DEF Near, Far
    <3>2. CASE w # "fwd"
      <4>1. PICK x \in V \ U : \A e \in E : e[1] = x => e[2] \notin V \ U
        BY <2>4, FirstVertex
      <4> QED
        BY <4>1, <3>2, <1>1 DEF Near, Far
    <3> QED
      BY <3>1, <3>2
  <2> DEFINE W == U \cup {x}
             r == [v \in W |-> IF v = x THEN val(q, x) ELSE q[v]]
  <2>6. \A e \in E : Far(w, e) \in W => Near(w, e) \in U /\ r[Near(w, e)] = q[Near(w, e)]
                                        /\ q[Near(w, e)] \in Nat
    BY <2>3, <2>5
  <2>7. \A v \in W : val(r, v) = val(q, v)
    <3> SUFFICES ASSUME NEW v \in W PROVE val(r, v) = val(q, v)
      OBVIOUS
    <3>1. \A e \in Arriving(w, E, v) : r[Near(w, e)] = q[Near(w, e)]
      BY <2>6 DEF Arriving
    <3> HIDE DEF r
    <3>2. {r[Near(w, e)] + weight[Near(w, e)] : e \in Arriving(w, E, v)}
            = {q[Near(w, e)] + weight[Near(w, e)] : e \in Arriving(w, E, v)}
      BY <3>1
    <3> QED
      BY <3>2 DEF val
  <2>8. val(q, x) \in Nat
    BY <1>2, <2>6 DEF Arriving
  <2>9. r \in [W -> Nat]
    BY <2>3, <2>8
  <2>10. \A v \in W : r[v] = val(r, v)
    BY <2>3, <2>7
  <2>11. Below(W)
    BY <2>6
  <2>12. r \in Sol(W)
    <3> HIDE DEF r, W
    <3> QED
      BY <2>9, <2>10, <2>11
  <2>13. W \in Fam
    <3> HIDE DEF r, Sol
    <3> QED
      BY <2>4, <2>5, <2>12
  <2>14. W = U
    <3> HIDE DEF Fam
    <3> QED
      BY <2>2, <2>13
  <2> QED
    BY <2>14, <2>5
<1> DEFINE Eq(r) == r = [v \in V |-> val(r, v)]
           p == PathCosts(w, E, V, weight)
<1>4. \E r : Eq(r) /\ r \in [V -> Nat]
  BY <1>3
<1>5. p = CHOOSE r : Eq(r)
  BY DEF PathCosts, val
<1>6. Eq(p)
  <2> HIDE DEF p, Eq
  <2> QED
    BY <1>4, <1>5
<1> HIDE DEF p
\* The solution is a natural at every vertex: look at the first where it is not.
<1>7. p \in [V -> Nat]
  <2> DEFINE T == {v \in V : p[v] \notin Nat}
  <2>1. \A v \in V : p[v] = val(p, v)
    BY <1>6
  <2> SUFFICES ASSUME T # {} PROVE FALSE
    BY <1>6
  <2>2. PICK x \in T : \A e \in E : Far(w, e) = x => Near(w, e) \notin T
    <3> HIDE DEF T
    <3>1. CASE w = "fwd"
      BY <3>1, FirstVertex DEF Near, Far
    <3>2. CASE w # "fwd"
      BY <3>2, FirstVertex DEF Near, Far
    <3> QED
      BY <3>1, <3>2
  <2>3. \A e \in Arriving(w, E, x) : p[Near(w, e)] \in Nat
    BY <2>2, <1>1 DEF Arriving
  <2>4. p[x] \in Nat
    BY <2>1, <2>3, <1>2
  <2> QED
    BY <2>4
<1>8. \A v \in V : p[v] = val(p, v) /\ \A e \in Arriving(w, E, v) : p[Near(w, e)] \in Nat
  BY <1>1, <1>6, <1>7 DEF Arriving
<1>9. ASSUME NEW e \in E PROVE p[Near(w, e)] + weight[Near(w, e)] <= p[Far(w, e)]
  <2>1. Far(w, e) \in V /\ e \in Arriving(w, E, Far(w, e))
    BY <1>1 DEF Arriving
  <2> QED
    BY <2>1, <1>2, <1>8
<1>10. ASSUME NEW v \in V
       PROVE  p[v] = 0 \/ \E e \in E : Far(w, e) = v /\ p[v] = p[Near(w, e)] + weight[Near(w, e)]
  <2>1. val(p, v) = 0 \/ \E e \in Arriving(w, E, v) : val(p, v) = p[Near(w, e)] + weight[Near(w, e)]
    BY <1>2, <1>8
  <2> QED
    BY <2>1, <1>8 DEF Arriving
<1> QED
  BY <1>7, <1>9, <1>10 DEF p

\* A sum of naturals is a natural, and the sum over one element is its value.
SumOver(f, S) == MapThenSumSet(LAMBDA o : f[o], S)

LEMMA SumOfNats ==
    ASSUME NEW S, IsFiniteSet(S), NEW f, \A x \in S : f[x] \in Nat
    PROVE  SumOver(f, S) \in Nat /\ \A x : S = {x} => SumOver(f, S) = f[x]
<1> DEFINE ch(s) == CHOOSE x \in s : TRUE
           val(q, s) == IF s = {} THEN 0 ELSE f[ch(s)] + q[s \ {ch(s)}]
           Eq(q) == q = [s \in SUBSET S |-> val(q, s)]
           sum == CHOOSE q : Eq(q)
<1>1. SumOver(f, S) = sum[S]
  BY DEF SumOver, MapThenSumSet, MapThenFoldSet
<1>2. \A s \in SUBSET S : s # {} => ch(s) \in s /\ f[ch(s)] \in Nat
  OBVIOUS
<1> HIDE DEF ch
<1> DEFINE Below(U) == \A s \in U : s # {} => s \ {ch(s)} \in U
           Sol(U) == {q \in [U -> Nat] : Below(U) /\ \A s \in U : q[s] = val(q, s)}
           P == SUBSET S
           Fam == {U \in SUBSET P : Sol(U) # {}}
<1>3. IsFiniteSet(P)
  BY FS_SUBSET
<1>4. P \in Fam
  <2>1. Fam \in SUBSET SUBSET P /\ Fam # {}
    <3>1. <<>> \in Sol({})
      OBVIOUS
    <3>2. {} \in Fam
      <4> HIDE DEF Sol
      <4> QED
        BY <3>1
    <3> HIDE DEF Sol
    <3> QED
      BY <3>2
  <2>2. \E U \in Fam : \A W \in Fam : U \subseteq W => W = U
    <3> HIDE DEF Fam, P
    <3> QED
      BY ONLY <1>3, <2>1, LargestSubset
  <2>3. PICK U \in Fam : \A W \in Fam : U \subseteq W => W = U
    BY ONLY <2>2
  <2> SUFFICES ASSUME U # P PROVE FALSE
    BY <2>3
  <2>4. PICK q \in Sol(U) : TRUE
    BY <2>3
  <2>5. U \subseteq P /\ P \ U # {}
    BY <2>3
  <2>6. \E x \in P \ U : \A y \in P \ U : y \subseteq x => y = x
    <3> DEFINE Q == P \ U
    <3>1. Q \in SUBSET SUBSET S /\ Q # {} /\ IsFiniteSet(S)
      BY <2>5
    <3> HIDE DEF Q
    <3>2. \E x \in Q : \A y \in Q : y \subseteq x => y = x
      BY ONLY <3>1, LeastSubset
    <3> QED
      BY <3>2 DEF Q
  <2>7. PICK x \in P \ U : \A y \in P \ U : y \subseteq x => y = x
    BY ONLY <2>6
  <2>8. x # {} => x \ {ch(x)} \in U
    BY <1>2, <2>7
  <2> DEFINE W == U \cup {x}
             r == [s \in W |-> IF s = x THEN val(q, x) ELSE q[s]]
  <2>9. \A s \in W : s # {} => s \ {ch(s)} \in U
    BY <2>4, <2>8
  <2>10. \A s \in W : s # {} => r[s \ {ch(s)}] = q[s \ {ch(s)}] /\ q[s \ {ch(s)}] \in Nat
    BY <2>4, <2>7, <2>9
  <2>11. \A s \in W : val(r, s) = val(q, s)
    <3> HIDE DEF r
    <3> QED
      BY <2>10
  <2>12. val(q, x) \in Nat
    BY <1>2, <2>7, <2>10
  <2>13. r \in [W -> Nat] /\ \A s \in W : r[s] = val(q, s)
    <3> HIDE DEF val
    <3>1. q \in [U -> Nat] /\ \A s \in U : q[s] = val(q, s)
      BY <2>4
    <3> QED
      BY <2>12, <3>1
  <2>14. Below(W)
    BY <2>9
  <2>15. r \in Sol(W)
    <3> HIDE DEF r, W, val, Below
    <3> QED
      BY <2>11, <2>13, <2>14
  <2>16. W \in Fam
    <3> HIDE DEF r, Sol
    <3> QED
      BY <2>5, <2>7, <2>15
  <2>17. W = U
    <3> HIDE DEF Fam
    <3> QED
      BY <2>3, <2>16
  <2> QED
    BY <2>17, <2>7
<1>5. \E q : Eq(q)
  <2>1. PICK q \in Sol(P) : TRUE
    BY <1>4
  <2>2. Eq(q)
    <3> HIDE DEF val, Below
    <3> QED
      BY <2>1
  <2> QED
    BY <2>2
<1>6. Eq(sum)
  <2> HIDE DEF Eq
  <2> QED
    BY <1>5
<1> HIDE DEF sum
<1>7. \A s \in P : sum[s] = val(sum, s)
  <2> HIDE DEF val
  <2> QED
    BY <1>6
<1>8. \A s \in P : sum[s] \in Nat
  <2> DEFINE Bad == {s \in P : sum[s] \notin Nat}
  <2> SUFFICES ASSUME Bad # {} PROVE FALSE
    OBVIOUS
  <2>1. Bad \in SUBSET SUBSET S /\ Bad # {} /\ IsFiniteSet(S)
    OBVIOUS
  <2>2. \E s \in Bad : \A t \in Bad : t \subseteq s => t = s
    <3> HIDE DEF Bad
    <3> QED
      BY ONLY <2>1, LeastSubset
  <2>3. PICK s \in Bad : \A t \in Bad : t \subseteq s => t = s
    BY ONLY <2>2
  <2>4. CASE s = {}
    <3>1. s \in P /\ sum[s] \notin Nat
      BY <2>3
    <3>2. sum[s] = val(sum, s)
      BY <1>7, <3>1
    <3>3. sum[s] = 0
      BY <3>2, <2>4
    <3> QED
      BY <3>1, <3>3
  <2>5. CASE s # {}
    <3>1. ch(s) \in s /\ f[ch(s)] \in Nat
      BY <2>5, <1>2, <2>3
    <3>2. s \ {ch(s)} \in P /\ s \ {ch(s)} # s
      BY <3>1, <2>3
    <3>3. sum[s \ {ch(s)}] \in Nat
      BY <3>2, <2>3
    <3>4. sum[s] = f[ch(s)] + sum[s \ {ch(s)}]
      BY <1>7, <2>3, <2>5
    <3> QED
      BY <3>1, <3>3, <3>4, <2>3
  <2> QED
    BY <2>4, <2>5
<1>9. ASSUME NEW x, S = {x} PROVE sum[S] = f[x]
  <2>1. ch(S) = x /\ f[x] \in Nat
    BY <1>2, <1>9
  <2>2. S # {} /\ S \ {x} = {} /\ S \in P /\ {} \in P
    BY <1>9
  <2>3. sum[{}] = 0
    BY <1>7, <2>2
  <2>4. sum[S] = f[x] + sum[S \ {x}]
    BY <1>7, <2>1, <2>2
  <2> QED
    BY <2>1, <2>2, <2>3, <2>4
<1> QED
  BY <1>1, <1>8, <1>9

--------------------------------------------------------------------------------

(***************************************************************************)
(* What the algorithms do to a graph                                       *)
(***************************************************************************)

\* A search for b needs to follow only the edges behind which b is.
LEMMA ReachThrough ==
    ASSUME NEW E, IsFiniteSet(E), NEW a, NEW b \in Reach(E, a)
    PROVE  b \in Reach({e \in E : Leads(E, e[2], b)}, a)
<1> DEFINE F == {e \in E : Leads(E, e[2], b)}
           D == {e[2] : e \in E}
           S == {x \in D : Leads(E, x, b) => x \in Reach(F, a)}
<1>1. IsFiniteSet(F)
  BY FS_Subset
<1>2. (\A e \in F : e[1] = a => e[2] \in Reach(F, a)) /\ Closed(F, Reach(F, a))
  <2> HIDE DEF F
  <2> QED
    BY <1>1, ReachLeast
<1>3. Closed(E, S)
  <2> SUFFICES ASSUME NEW e \in E, e[1] \in S, Leads(E, e[2], b) PROVE e[2] \in Reach(F, a)
    BY DEF Closed
  <2>1. Leads(E, e[1], e[2])
    BY ReachEdge DEF Leads
  <2>2. Leads(E, e[1], b)
    BY <2>1, LeadsTrans
  <2>3. e[1] \in Reach(F, a) /\ e \in F
    BY <2>2
  <2> QED
    BY <2>3, <1>2 DEF Closed
<1>4. \A e \in E : e[1] = a => e[2] \in S
  BY <1>2
<1>5. Reach(E, a) \subseteq S
  <2> HIDE DEF S
  <2> QED
    BY <1>3, <1>4, ReachLeast
<1> QED
  BY <1>5 DEF Leads

\* The graph that a merge of d into r makes of E.
Fold(E, r, d) ==
    {<<IF e[1] = d THEN r ELSE e[1], IF e[2] = d THEN r ELSE e[2]>> : e \in E}

LEMMA FiniteFold ==
    ASSUME NEW E, IsFiniteSet(E), NEW r, NEW d
    PROVE  IsFiniteSet(Fold(E, r, d))
<1> DEFINE f == [e \in E |-> <<IF e[1] = d THEN r ELSE e[1], IF e[2] = d THEN r ELSE e[2]>>]
<1>1. IsFiniteSet({f[e] : e \in E})
  <2> HIDE DEF f
  <2> QED
    BY FiniteImage
<1>2. {f[e] : e \in E} = Fold(E, r, d)
  BY DEF Fold
<1> QED
  BY <1>1, <1>2

\* A merge of two vertices neither of which is behind the other closes no cycle.
LEMMA MergeAcyclic ==
    ASSUME NEW E, IsFiniteSet(E), Acyclic(E), NEW r, NEW d, r # d,
           d \notin Reach(E, r), r \notin Reach(E, d)
    PROVE  Acyclic(Fold(E, r, d))
<1> DEFINE F == Fold(E, r, d)
           in(m) == IF m = d THEN r ELSE m
<1>1. IsFiniteSet(F)
  BY FiniteFold
<1>2. \A f \in F : \E e \in E : f[1] = in(e[1]) /\ f[2] = in(e[2])
  BY DEF Fold
<1> HIDE DEF F
<1>3. r \notin Reach(F, r)
  <2> DEFINE S == Reach(E, r) \cup Reach(E, d)
  <2>1. r \notin S /\ d \notin S
    BY DEF Acyclic
  <2>2. \A e \in E : e[1] \in S \/ e[1] = r \/ e[1] = d => e[2] \in S
    BY ReachLeast DEF Closed
  <2>3. Closed(F, S) /\ \A f \in F : f[1] = r => f[2] \in S
    <3> HIDE DEF S
    <3> SUFFICES ASSUME NEW f \in F, f[1] \in S \/ f[1] = r PROVE f[2] \in S
      BY DEF Closed
    <3>1. PICK e \in E : f[1] = in(e[1]) /\ f[2] = in(e[2])
      BY <1>2
    <3>2. e[1] \in S \/ e[1] = r \/ e[1] = d
      BY <3>1
    <3>3. e[2] \in S
      BY <2>2, <3>2
    <3> QED
      BY <2>1, <3>1, <3>3
  <2>4. Reach(F, r) \subseteq S
    <3> HIDE DEF S
    <3> QED
      BY <1>1, <2>3, ReachLeast
  <2> QED
    BY <2>1, <2>4
<1>4. ASSUME NEW x, x \in Reach(F, x) PROVE FALSE
  <2> DEFINE D == {e[2] : e \in F}
             C == {y \in D : y \in Reach(F, x) /\ x \in Reach(F, y)}
  <2>1. Reach(F, x) \subseteq D
    BY <1>1, ReachLeast
  <2>2. x \in C
    BY <1>4, <2>1
  <2>3. r \notin C
    BY <1>1, <1>3, ReachTrans
  <2>4. PICK y \in C : \A e \in E : e[2] = y => e[1] \notin C
    <3> HIDE DEF C
    <3> QED
      BY <2>2, FirstVertex
  <2>5. PICK f \in F : f[2] = y /\ Leads(F, x, f[1])
    BY <1>1, ReachBack
  <2>6. f[1] \in C
    <3>1. CASE f[1] = x
      BY <3>1, <2>2
    <3>2. CASE f[1] \in Reach(F, x)
      <4>1. y \in Reach(F, f[1])
        BY <1>1, <2>5, ReachEdge
      <4>2. x \in Reach(F, f[1])
        BY <1>1, <4>1, ReachTrans
      <4> QED
        BY <2>1, <3>2, <4>2
    <3> QED
      BY <2>5, <3>1, <3>2 DEF Leads
  <2>7. PICK e \in E : f[1] = in(e[1]) /\ f[2] = in(e[2])
    BY <1>2
  <2>8. f[1] # r /\ f[2] # r
    BY <2>3, <2>5, <2>6
  <2>9. e[1] = f[1] /\ e[2] = y
    BY <2>5, <2>7, <2>8
  <2> QED
    BY <2>4, <2>6, <2>9
<1> QED
  BY <1>4 DEF Acyclic, F

\* Removing transitive edges keeps every way.
LEMMA TransitiveReduction ==
    ASSUME NEW E, IsFiniteSet(E), Acyclic(E), \A e \in E : e = <<e[1], e[2]>>,
           NEW a0, NEW b0 \in Reach(E, a0)
    PROVE  b0 \in Reach(removeTransitiveEdges(E), a0)
<1> DEFINE F == removeTransitiveEdges(E)
           D == {e[2] : e \in E}
           Bad(a, b) == b \in Reach(E, a) /\ b \notin Reach(F, a)
           Mid(a, b) == {x \in D : x \in Reach(E, a) /\ b \in Reach(E, x)}
           A == {e[1] : e \in E}
           Fam == {M \in SUBSET D : \E a \in A, b \in D : Bad(a, b) /\ M = Mid(a, b)}
<1>1. F \subseteq E /\ IsFiniteSet(F)
  BY FS_Subset DEF removeTransitiveEdges
<1>2. \A a : Reach(E, a) \subseteq D
  BY ReachLeast
<1> SUFFICES ASSUME Bad(a0, b0) PROVE FALSE
  OBVIOUS
<1>3. a0 \in A /\ b0 \in D
  BY <1>2, ReachFront
<1>4. Fam \in SUBSET SUBSET D /\ Fam # {}
  <2>1. Mid(a0, b0) \in Fam
    BY <1>3
  <2> HIDE DEF Mid
  <2> QED
    BY <2>1
<1>5. PICK M \in Fam : \A N \in Fam : N \subseteq M => N = M
  <2>1. IsFiniteSet(D)
    BY FiniteEnds
  <2> HIDE DEF Fam, D
  <2>2. \E M \in Fam : \A N \in Fam : N \subseteq M => N = M
    BY ONLY <1>4, <2>1, LeastSubset
  <2> QED
    BY ONLY <2>2
<1>6. PICK a \in A, b \in D : Bad(a, b) /\ M = Mid(a, b)
  BY <1>5
<1> HIDE DEF F
<1>7. CASE M # {}
  <2>1. PICK x \in D : x \in M
    BY <1>6, <1>7
  <2>2. x \in Reach(E, a) /\ b \in Reach(E, x)
    BY <1>6, <2>1
  <2>3. Mid(a, x) \subseteq M /\ x \notin Mid(a, x)
    BY <1>6, <2>2, ReachTrans DEF Acyclic
  <2>4. Mid(x, b) \subseteq M /\ x \notin Mid(x, b)
    BY <1>6, <2>2, ReachTrans DEF Acyclic
  <2>5. x \in A
    BY <2>2, ReachFront
  <2>6. x \in Reach(F, a)
    <3> SUFFICES ASSUME x \notin Reach(F, a) PROVE FALSE
      OBVIOUS
    <3>1. Bad(a, x)
      BY <2>2
    <3>2. Mid(a, x) \in Fam
      <4> HIDE DEF Bad
      <4> QED
        BY <1>6, <2>1, <3>1
    <3> QED
      BY <1>5, <2>1, <2>3, <3>2
  <2>7. b \in Reach(F, x)
    <3> SUFFICES ASSUME b \notin Reach(F, x) PROVE FALSE
      OBVIOUS
    <3>1. Bad(x, b)
      BY <2>2
    <3>2. Mid(x, b) \in Fam
      <4> HIDE DEF Bad
      <4> QED
        BY <1>6, <2>5, <3>1
    <3> QED
      BY <1>5, <2>1, <2>4, <3>2
  <2>8. b \in Reach(F, a)
    BY <1>1, <2>6, <2>7, ReachTrans
  <2> QED
    BY <1>6, <2>8
<1>8. CASE M = {}
  <2>1. \A x : ~(x \in Reach(E, a) /\ b \in Reach(E, x))
    BY <1>2, <1>6, <1>8
  <2>2. PICK e \in E : e[1] = a /\ Leads(E, e[2], b)
    BY <1>6, ReachFront
  <2>3. e[2] \in Reach(E, a)
    BY <2>2, ReachEdge
  <2>4. e[2] = b
    BY <2>1, <2>2, <2>3 DEF Leads
  <2>5. CASE e \in F
    BY <1>1, <1>6, <2>2, <2>4, <2>5, ReachEdge
  <2>6. CASE e \notin F
    <3> DEFINE G == E \ {e}
    <3>1. IsFiniteSet(G) /\ G \subseteq E
      BY FS_RemoveElement
    <3>2. b \in Reach(G, a)
      BY <2>2, <2>4, <2>6 DEF F, removeTransitiveEdges
    <3> HIDE DEF G
    <3>3. PICK f \in G : f[1] = a /\ Leads(G, f[2], b)
      BY <3>1, <3>2, ReachFront
    <3>4. f \in E /\ f # e
      BY <3>1, <3>3 DEF G
    <3>5. f[2] # b
      <4>1. f = <<f[1], f[2]>> /\ e = <<e[1], e[2]>>
        BY <3>4
      <4> QED
        BY <4>1, <3>3, <3>4, <2>2, <2>4
    <3>6. b \in Reach(G, f[2])
      BY <3>3, <3>5 DEF Leads
    <3>7. b \in Reach(E, f[2])
      BY <3>1, <3>6, ReachMono
    <3>8. f[2] \in Reach(E, a)
      BY <3>3, <3>4, ReachEdge
    <3> QED
      BY <2>1, <3>7, <3>8
  <2> QED
    BY <2>5, <2>6
<1> QED
  BY <1>7, <1>8

\* Rerouting around the vertices outside V keeps the ways between those inside, and adds none.
LEMMA Rerouted ==
    ASSUME NEW E, IsFiniteSet(E), NEW V, IsFiniteSet(V)
    PROVE  /\ IsFiniteSet(rerouteEdges(E, V))
           /\ rerouteEdges(E, V) \subseteq V \X V
           /\ \A e \in rerouteEdges(E, V) : e[2] \in Reach(E, e[1])
           /\ \A a \in V, b \in V : b \in Reach(E, a) => b \in Reach(rerouteEdges(E, V), a)
<1> DEFINE R == rerouteEdges(E, V)
           F(y) == {f \in E : f[1] = y \/ f[1] \notin V}
<1>1. R = {e \in V \X V : e[2] \in Reach(F(e[1]), e[1])}
  BY DEF rerouteEdges
<1>2. IsFiniteSet(R) /\ R \subseteq V \X V
  <2>1. IsFiniteSet(V \X V)
    BY FS_Product
  <2>2. R \subseteq V \X V
    BY <1>1
  <2> HIDE DEF R
  <2> QED
    BY <2>1, <2>2, FS_Subset
<1>3. \A y : F(y) \subseteq E /\ IsFiniteSet(F(y))
  BY FS_Subset
<1> HIDE DEF R
<1>4. \A y, z : y \in V /\ z \in V /\ z \in Reach(F(y), y) => <<y, z>> \in R
  BY <1>1
<1>5. \A e \in R : e[2] \in Reach(E, e[1])
  BY <1>1, <1>3, ReachMono
<1>6. ASSUME NEW a \in V, NEW b \in V, b \in Reach(E, a) PROVE b \in Reach(R, a)
  <2> DEFINE D == {e[2] : e \in E}
             S == {z \in D : \E y \in V : Leads(R, a, y) /\ z \in Reach(F(y), y)}
  <2>0. \A y : /\ \A e \in E : e[1] = y => e \in F(y) /\ e[2] \in Reach(F(y), y)
               /\ \A e \in E : e[1] \notin V /\ e[1] \in Reach(F(y), y) => e[2] \in Reach(F(y), y)
    <3> SUFFICES ASSUME NEW y, NEW e \in E
                 PROVE  /\ e[1] = y => e \in F(y) /\ e[2] \in Reach(F(y), y)
                        /\ e[1] \notin V /\ e[1] \in Reach(F(y), y) => e[2] \in Reach(F(y), y)
      OBVIOUS
    <3> DEFINE G == F(y)
    <3>1. IsFiniteSet(G)
      BY <1>3
    <3>2. e[1] = y \/ e[1] \notin V => e \in G
      OBVIOUS
    <3> HIDE DEF G
    <3>3. (\A f \in G : f[1] = y => f[2] \in Reach(G, y)) /\ Closed(G, Reach(G, y))
      BY <3>1, ReachLeast
    <3>4. (e[1] = y => e \in G /\ e[2] \in Reach(G, y))
          /\ (e[1] \notin V /\ e[1] \in Reach(G, y) => e[2] \in Reach(G, y))
      BY <3>2, <3>3 DEF Closed
    <3> QED
      BY <3>4 DEF G
  <2> HIDE DEF F
  <2>1. \A z \in S : z \in V => z \in Reach(R, a)
    <3> SUFFICES ASSUME NEW z \in S, z \in V PROVE z \in Reach(R, a)
      OBVIOUS
    <3>1. PICK y \in V : Leads(R, a, y) /\ z \in Reach(F(y), y)
      OBVIOUS
    <3>2. <<y, z>> \in R
      BY <1>4, <3>1
    <3>3. z \in Reach(R, y)
      <4>1. <<y, z>>[1] = y /\ <<y, z>>[2] = z
        OBVIOUS
      <4> QED
        BY <1>2, <3>2, <4>1, ReachLeast
    <3> QED
      BY <1>2, <3>1, <3>3, ReachTrans DEF Leads
  <2>2. Closed(E, S)
    <3> SUFFICES ASSUME NEW e \in E, e[1] \in S PROVE e[2] \in S
      BY DEF Closed
    <3>1. CASE e[1] \in V
      <4>1. Leads(R, a, e[1]) /\ e[2] \in Reach(F(e[1]), e[1])
        BY <2>0, <2>1, <3>1 DEF Leads
      <4> QED
        BY <4>1, <3>1
    <3>2. CASE e[1] \notin V
      <4>1. PICK y \in V : Leads(R, a, y) /\ e[1] \in Reach(F(y), y)
        OBVIOUS
      <4>2. e[2] \in Reach(F(y), y)
        BY <2>0, <3>2, <4>1
      <4> QED
        BY <4>1, <4>2
    <3> QED
      BY <3>1, <3>2
  <2>3. \A e \in E : e[1] = a => e[2] \in S
    BY <2>0 DEF Leads
  <2>4. Reach(E, a) \subseteq S
    <3> HIDE DEF S
    <3> QED
      BY <2>2, <2>3, ReachLeast
  <2> QED
    BY <2>1, <2>4, <1>6
<1> QED
  BY <1>2, <1>5, <1>6 DEF R

\* Paths are no longer than any function that leaves room for every edge.
LEMMA PathsBelow ==
    ASSUME NEW V, IsFiniteSet(V), NEW E, E \subseteq V \X V, IsFiniteSet(E), Acyclic(E),
           NEW weight, weight \in [V -> Nat], NEW f, f \in [V -> Nat],
           \A e \in E : f[e[1]] + weight[e[1]] <= f[e[2]],
           NEW v \in V
    PROVE  PathCosts("fwd", E, V, weight)[v] <= f[v]
<1> DEFINE p == PathCosts("fwd", E, V, weight)
           T == {x \in V : ~(p[x] <= f[x])}
<1>1. /\ p \in [V -> Nat]
      /\ \A x \in V : p[x] = 0 \/ \E e \in E : e[2] = x /\ p[x] = p[e[1]] + weight[e[1]]
  BY LongestPaths DEF Near, Far
<1> HIDE DEF p
<1> SUFFICES ASSUME T # {} PROVE FALSE
  BY DEF p
<1>2. PICK x \in T : \A e \in E : e[2] = x => e[1] \notin T
  <2> HIDE DEF T
  <2> QED
    BY FirstVertex
<1>3. p[x] # 0
  BY <1>1, <1>2
<1>4. PICK e \in E : e[2] = x /\ p[x] = p[e[1]] + weight[e[1]]
  BY <1>1, <1>2, <1>3
<1>5. e[1] \in V /\ e[1] \notin T
  BY <1>2, <1>4
<1>6. p[e[1]] <= f[e[1]] /\ f[e[1]] + weight[e[1]] <= f[x]
  BY <1>4, <1>5
<1>7. p[x] \in Nat /\ f[x] \in Nat /\ p[e[1]] \in Nat /\ f[e[1]] \in Nat /\ weight[e[1]] \in Nat
  BY <1>1, <1>2, <1>5
<1> QED
  BY <1>2, <1>4, <1>6, <1>7

\* A function that leaves room for every edge leaves room for every way.
LEMMA Rises ==
    ASSUME NEW V, NEW E, E \subseteq V \X V, IsFiniteSet(E),
           NEW weight, weight \in [V -> Nat], NEW f, f \in [V -> Nat],
           NEW a \in V, NEW b \in Reach(E, a)
    PROVE  /\ (\A e \in E : f[e[1]] + weight[e[1]] <= f[e[2]]) => f[a] + weight[a] <= f[b]
           /\ (\A e \in E : f[e[2]] + weight[e[2]] <= f[e[1]]) => f[b] + weight[b] <= f[a]
<1>1. ASSUME \A e \in E : f[e[1]] + weight[e[1]] <= f[e[2]] PROVE f[a] + weight[a] <= f[b]
  <2> DEFINE S == {x \in V : f[a] + weight[a] <= f[x]}
  <2>1. Closed(E, S)
    <3> SUFFICES ASSUME NEW e \in E, e[1] \in S PROVE e[2] \in S
      BY DEF Closed
    <3>1. e[1] \in V /\ e[2] \in V /\ f[a] + weight[a] <= f[e[1]]
      OBVIOUS
    <3>2. f[e[1]] + weight[e[1]] <= f[e[2]]
      BY <1>1
    <3>3. f[a] \in Nat /\ weight[a] \in Nat /\ f[e[1]] \in Nat /\ weight[e[1]] \in Nat /\ f[e[2]] \in Nat
      BY <3>1
    <3>4. f[a] + weight[a] <= f[e[2]]
      BY <3>1, <3>2, <3>3
    <3> QED
      BY <3>1, <3>4
  <2>2. \A e \in E : e[1] = a => e[2] \in S
    BY <1>1
  <2>3. Reach(E, a) \subseteq S
    <3> HIDE DEF S
    <3> QED
      BY <2>1, <2>2, ReachLeast
  <2> QED
    BY <2>3
<1>2. ASSUME \A e \in E : f[e[2]] + weight[e[2]] <= f[e[1]] PROVE f[b] + weight[b] <= f[a]
  <2> DEFINE S == {x \in V : f[x] + weight[x] <= f[a]}
  <2>1. Closed(E, S)
    <3> SUFFICES ASSUME NEW e \in E, e[1] \in S PROVE e[2] \in S
      BY DEF Closed
    <3>1. e[1] \in V /\ e[2] \in V /\ f[e[1]] + weight[e[1]] <= f[a]
      OBVIOUS
    <3>2. f[e[2]] + weight[e[2]] <= f[e[1]]
      BY <1>2
    <3>3. f[a] \in Nat /\ weight[e[2]] \in Nat /\ f[e[1]] \in Nat /\ weight[e[1]] \in Nat /\ f[e[2]] \in Nat
      BY <3>1
    <3>4. f[e[2]] + weight[e[2]] <= f[a]
      BY <3>1, <3>2, <3>3
    <3> QED
      BY <3>1, <3>4
  <2>2. \A e \in E : e[1] = a => e[2] \in S
    BY <1>2
  <2>3. Reach(E, a) \subseteq S
    <3> HIDE DEF S
    <3> QED
      BY <2>1, <2>2, ReachLeast
  <2> QED
    BY <2>3
<1> QED
  BY <1>1, <1>2

\* Edges between neighbours in a ranking order all whose ranks differ.
LEMMA Chained ==
    ASSUME NEW E, IsFiniteSet(E), NEW T, NEW f, \A x \in T : f[x] \in Nat,
           \A x \in T, y \in T :
              /\ f[x] < f[y]
              /\ ~ \E m \in T : f[x] < f[m] /\ f[m] < f[y]
              => <<x, y>> \in E,
           NEW x0 \in T, NEW y0 \in T, f[x0] < f[y0]
    PROVE  y0 \in Reach(E, x0)
<1> DEFINE Bad(x, y) == f[x] < f[y] /\ y \notin Reach(E, x)
           N == {n \in Nat : \E x \in T, y \in T : Bad(x, y) /\ n = f[y] - f[x]}
<1> SUFFICES ASSUME Bad(x0, y0) PROVE FALSE
  OBVIOUS
<1>1. f[y0] - f[x0] \in N
  BY SMT
<1>2. PICK n \in N : \A k \in N : n <= k
  <2> HIDE DEF N
  <2>1. N \in SUBSET Nat /\ N # {}
    BY <1>1 DEF N
  <2> QED
    BY <2>1, LeastNat
<1>3. PICK x \in T, y \in T : Bad(x, y) /\ n = f[y] - f[x]
  BY <1>2
<1>4. \A u \in T, v \in T : Bad(u, v) => n <= f[v] - f[u]
  <2> SUFFICES ASSUME NEW u \in T, NEW v \in T, Bad(u, v) PROVE n <= f[v] - f[u]
    OBVIOUS
  <2>1. f[v] - f[u] \in Nat
    OBVIOUS
  <2>2. f[v] - f[u] \in N
    BY <2>1
  <2> QED
    BY <1>2, <2>2
<1>5. CASE \E m \in T : f[x] < f[m] /\ f[m] < f[y]
  <2>1. PICK m \in T : f[x] < f[m] /\ f[m] < f[y]
    BY <1>5
  <2>2. f[x] \in Nat /\ f[y] \in Nat /\ f[m] \in Nat
    OBVIOUS
  <2>3. ~(n <= f[m] - f[x]) /\ ~(n <= f[y] - f[m])
    BY <1>3, <2>1, <2>2
  <2>4. ~Bad(x, m) /\ ~Bad(m, y)
    BY <1>4, <2>3
  <2>5. m \in Reach(E, x) /\ y \in Reach(E, m)
    BY <2>1, <2>4
  <2> QED
    BY <2>5, <1>3, ReachTrans
<1>6. CASE ~ \E m \in T : f[x] < f[m] /\ f[m] < f[y]
  <2>1. <<x, y>> \in E
    BY <1>3, <1>6
  <2>2. <<x, y>>[1] = x /\ <<x, y>>[2] = y
    OBVIOUS
  <2> QED
    BY <1>3, <2>1, <2>2, ReachLeast
<1> QED
  BY <1>5, <1>6

(***************************************************************************)
(* Rounded costs and move graphs                                           *)
(***************************************************************************)

LEMMA StepCosts ==
    /\ \A c \in Nat : stepCost(c) \in Nat
    /\ stepCost(0) = 0
<1>1. IsFiniteSet(Steps) /\ Steps \subseteq Nat /\ Steps # {} /\ 0 \in Steps
  BY PartitionerAssumption DEF PartitionerAssumption
<1>2. Max(Steps) \in Steps /\ Max(Steps) \in Nat
  BY <1>1, MaxOfNats
<1>3. ASSUME NEW c \in 0 .. Max(Steps)
      PROVE  LET S == {s \in Steps : s >= c} IN Min(S) \in S /\ Min(S) \in Nat /\ \A s \in S : Min(S) <= s
  <2> DEFINE S == {s \in Steps : s >= c}
  <2>0. Max(Steps) \in S
    BY <1>2
  <2>1. S \in SUBSET Nat /\ S # {}
    BY <1>1, <2>0
  <2> HIDE DEF S
  <2>2. Min(S) \in S /\ Min(S) \in Nat /\ \A s \in S : Min(S) <= s
    BY <2>1, MinOfNats
  <2> QED
    BY <2>2 DEF S
<1>4. ASSUME NEW c \in Nat PROVE stepCost(c) \in Nat
  <2>1. CASE c \in 0 .. Max(Steps)
    BY <1>3, <2>1 DEF stepCost, stepTable
  <2>2. CASE c \notin 0 .. Max(Steps)
    BY <2>2 DEF stepCost, stepTable
  <2> QED
    BY <2>1, <2>2
<1>5. stepCost(0) = 0
  <2>1. 0 \in 0 .. Max(Steps)
    BY <1>2
  <2> DEFINE S == {s \in Steps : s >= 0}
  <2>2. 0 \in S
    BY <1>1
  <2>3. stepCost(0) = Min(S)
    BY <2>1 DEF stepCost, stepTable
  <2>4. Min(S) \in Nat /\ \A s \in S : Min(S) <= s
    BY <1>3, <2>1
  <2> HIDE DEF S
  <2>5. Min(S) <= 0
    BY <2>2, <2>4
  <2> QED
    BY <2>3, <2>4, <2>5
<1> QED
  BY <1>4, <1>5

\* The vertices of a move graph that get an mtask, and all mtasks.
Inner(i) == 1 .. i.n \cup Kept(i)
All(i) == {Entry, Exit(i)} \cup Inner(i)
InitialGraph(i) == MTaskDeps(i) \cup EntryExitDeps(i)

LEMMA InputFacts ==
    ASSUME NEW i \in Inputs
    PROVE  /\ i.n \in Nat /\ Exit(i) \in Nat /\ i.n < Exit(i)
           /\ i.cost \in [1 .. i.n -> Nat]
           /\ i.hazards \in Seq(SUBSET (1 .. i.n))
           /\ \A k \in DOMAIN i.variables : /\ i.variables[k].writers \subseteq 1 .. i.n
                                            /\ i.variables[k].readers \subseteq 1 .. i.n
           /\ Inner(i) \subseteq 1 .. Exit(i) - 1
           /\ MTaskDeps(i) \subseteq Inner(i) \X Inner(i)
           /\ \A v \in 1 .. Exit(i) : v \notin Reach(MTaskDeps(i), v)
<1>1. PartitionInput(i)
  BY InputsAssumption DEF InputsAssumption
<1>2. /\ i.n \in Nat /\ i.cost \in [1 .. i.n -> Nat]
      /\ i.variables \in Seq([writers : SUBSET (1 .. i.n), readers : SUBSET (1 .. i.n)])
      /\ i.hazards \in Seq(SUBSET (1 .. i.n))
      /\ \A v \in 1 .. Exit(i) : v \notin Reach(MTaskDeps(i), v)
  BY <1>1 DEF PartitionInput
<1> DEFINE l == Len(i.variables)
<1>3. l \in Nat /\ DOMAIN i.variables = 1 .. l
  BY <1>2
<1>4. \A k \in 1 .. l : i.variables[k].writers \subseteq 1 .. i.n /\ i.variables[k].readers \subseteq 1 .. i.n
  <2> DEFINE P == SUBSET (1 .. i.n)
             T == [writers : P, readers : P]
  <2>1. \A t \in T : t.writers \in P /\ t.readers \in P
    OBVIOUS
  <2>2. i.variables \in Seq(T)
    BY <1>2
  <2> HIDE DEF T
  <2>3. \A k \in 1 .. l : i.variables[k] \in T
    BY <2>2
  <2> QED
    BY <2>1, <2>3
<1> HIDE DEF l
<1>5. Exit(i) = i.n + l + 1
  BY DEF Exit, l
<1>6. Inner(i) \subseteq 1 .. Exit(i) - 1
  <2>1. Kept(i) \subseteq {i.n + k : k \in 1 .. l}
    BY <1>3 DEF Kept
  <2>2. \A k \in 1 .. l : i.n + k \in 1 .. i.n + l
    BY <1>2, <1>3
  <2>3. Exit(i) - 1 = i.n + l /\ 1 .. i.n \subseteq 1 .. i.n + l
    BY <1>2, <1>3, <1>5
  <2>4. Kept(i) \subseteq 1 .. i.n + l
    BY <2>1, <2>2
  <2> QED
    BY <2>3, <2>4 DEF Inner
<1>7. MTaskDeps(i) \subseteq Inner(i) \X Inner(i)
  <2> DEFINE D(k) == LET v == i.variables[k]
                     IN  IF bypassOk(v) THEN v.writers \X v.readers
                         ELSE (v.writers \X {i.n + k}) \cup ({i.n + k} \X v.readers)
  <2>1. MTaskDeps(i) = UNION {D(k) : k \in 1 .. l}
    BY <1>3 DEF MTaskDeps
  <2>2. ASSUME NEW k \in 1 .. l PROVE D(k) \subseteq Inner(i) \X Inner(i)
    <3>1. i.variables[k].writers \subseteq Inner(i) /\ i.variables[k].readers \subseteq Inner(i)
      BY <1>4 DEF Inner
    <3>2. CASE bypassOk(i.variables[k])
      BY <3>1, <3>2
    <3>3. CASE ~bypassOk(i.variables[k])
      <4>1. i.n + k \in Inner(i)
        BY <1>3, <3>3 DEF Inner, Kept
      <4> QED
        BY <3>1, <3>3, <4>1
    <3> QED
      BY <3>2, <3>3
  <2> HIDE DEF D
  <2> QED
    BY <2>1, <2>2
<1>8. Exit(i) \in Nat /\ i.n < Exit(i)
  BY <1>2, <1>3, <1>5
<1> QED
  BY <1>2, <1>3, <1>4, <1>6, <1>7, <1>8

LEMMA InitialGraphFacts ==
    ASSUME NEW i \in Inputs
    PROVE  /\ All(i) \subseteq 0 .. Exit(i) /\ IsFiniteSet(All(i))
           /\ Entry \notin Inner(i) /\ Exit(i) \notin Inner(i) /\ Entry # Exit(i)
           /\ InitialGraph(i) \subseteq All(i) \X All(i) /\ IsFiniteSet(InitialGraph(i))
           /\ Acyclic(InitialGraph(i))
           /\ \A e \in InitialGraph(i) : e[2] # Entry /\ e[1] # Exit(i)
           /\ \A m \in Inner(i) : \E e \in InitialGraph(i) : e[1] = m
           /\ \A k \in DOMAIN i.variables :
                \A w \in i.variables[k].writers, r \in i.variables[k].readers :
                    r \in Reach(InitialGraph(i), w)
<1> DEFINE D == MTaskDeps(i)
           X == EntryExitDeps(i)
           E == InitialGraph(i)
           V == Inner(i)
<1>1. /\ i.n \in Nat /\ Exit(i) \in Nat /\ i.n < Exit(i)
      /\ V \subseteq 1 .. Exit(i) - 1 /\ D \subseteq V \X V
      /\ \A v \in 1 .. Exit(i) : v \notin Reach(D, v)
      /\ \A k \in DOMAIN i.variables : /\ i.variables[k].writers \subseteq 1 .. i.n
                                       /\ i.variables[k].readers \subseteq 1 .. i.n
  BY InputFacts
<1>2. Entry \notin V /\ Exit(i) \notin V /\ Entry # Exit(i) /\ Entry = 0
  BY <1>1 DEF Entry
<1>3. All(i) \subseteq 0 .. Exit(i) /\ IsFiniteSet(All(i))
  <2>1. All(i) \subseteq 0 .. Exit(i)
    BY <1>1 DEF All, Entry
  <2>2. IsFiniteSet(0 .. Exit(i))
    BY <1>1, FS_Interval
  <2> QED
    BY <2>1, <2>2, FS_Subset
<1>4. X = {<<Entry, v>> : v \in {u \in V : \A e \in D : e[2] # u}}
            \cup {<<v, Exit(i)>> : v \in {u \in V : \A e \in D : e[1] # u}}
  BY DEF EntryExitDeps, Inner
<1>5. \A e \in X : \/ e[1] = Entry /\ e[2] \in V /\ e = <<e[1], e[2]>>
                   \/ e[2] = Exit(i) /\ e[1] \in V /\ e = <<e[1], e[2]>>
  BY <1>4
<1>6. \A u \in V : \E e \in D \cup X : e[1] = u
  <2> SUFFICES ASSUME NEW u \in V, \A e \in D : e[1] # u PROVE \E e \in X : e[1] = u
    OBVIOUS
  <2>1. <<u, Exit(i)>> \in X
    BY <1>4
  <2>2. <<u, Exit(i)>>[1] = u
    OBVIOUS
  <2> QED
    BY <2>1, <2>2
<1> HIDE DEF D, X, V
<1>7. E = D \cup X
  BY DEF InitialGraph, D, X
<1>8. All(i) = {Entry, Exit(i)} \cup V
  BY DEF All, V
<1>9. E \subseteq All(i) \X All(i) /\ IsFiniteSet(E)
  <2>1. D \subseteq All(i) \X All(i)
    BY <1>1, <1>8
  <2>2. X \subseteq All(i) \X All(i)
    BY <1>5, <1>8
  <2>3. E \subseteq All(i) \X All(i)
    BY <1>7, <2>1, <2>2
  <2>4. IsFiniteSet(All(i) \X All(i))
    BY <1>3, FS_Product
  <2> HIDE DEF E
  <2> QED
    BY <2>3, <2>4, FS_Subset
<1>10. \A e \in E : e[2] # Entry /\ e[1] # Exit(i)
  BY <1>1, <1>2, <1>5, <1>7
<1>11. IsFiniteSet(D)
  <2>1. D \subseteq E
    BY <1>7
  <2> QED
    BY <1>9, <2>1, FS_Subset
<1> HIDE DEF E
<1>12. Acyclic(E)
  <2> SUFFICES ASSUME NEW a, a \in Reach(E, a) PROVE FALSE
    BY DEF Acyclic
  <2>1. PICK e \in E : e[1] = a /\ Leads(E, e[2], a)
    BY <1>9, ReachFront
  <2>2. PICK f \in E : f[2] = a /\ Leads(E, a, f[1])
    BY <1>9, ReachBack
  <2>3. a \in V
    <3>1. a # Exit(i) /\ a # Entry
      BY <1>10, <2>1, <2>2
    <3>2. a \in All(i)
      BY <1>9, <2>1
    <3> QED
      BY <1>8, <3>1, <3>2
  <2> DEFINE S == Reach(D, a) \cup {Exit(i)}
  <2>4. Reach(D, a) \subseteq V
    <3>1. Reach(D, a) \subseteq {d[2] : d \in D}
      BY <1>11, ReachLeast
    <3> QED
      BY <1>1, <3>1
  <2>5. \A d \in E : d[1] \in Reach(D, a) \/ d[1] = a => d[2] \in S
    <3> SUFFICES ASSUME NEW d \in E, d[1] \in Reach(D, a) \/ d[1] = a PROVE d[2] \in S
      OBVIOUS
    <3>1. CASE d \in D
      BY <1>11, <3>1, ReachLeast DEF Closed
    <3>2. CASE d \in X
      <4>1. d[1] # Entry
        BY <1>2, <2>3, <2>4
      <4> QED
        BY <1>5, <3>2, <4>1
    <3> QED
      BY <1>7, <3>1, <3>2
  <2>6. Closed(E, S) /\ \A d \in E : d[1] = a => d[2] \in S
    BY <1>10, <2>5 DEF Closed
  <2>7. Reach(E, a) \subseteq S
    <3> HIDE DEF S
    <3> QED
      BY <1>9, <2>6, ReachLeast
  <2>8. a \in Reach(D, a)
    BY <1>2, <2>3, <2>7
  <2>9. a \in 1 .. Exit(i)
    BY <1>1, <2>3
  <2> QED
    BY <1>1, <2>8, <2>9
<1>13. ASSUME NEW k \in DOMAIN i.variables,
              NEW w \in i.variables[k].writers, NEW r \in i.variables[k].readers
       PROVE  r \in Reach(E, w)
  <2> DEFINE v == i.variables[k]
             B == IF bypassOk(v) THEN v.writers \X v.readers
                  ELSE (v.writers \X {i.n + k}) \cup ({i.n + k} \X v.readers)
  <2>1. B \subseteq E
    <3>1. B \subseteq D
      BY DEF D, MTaskDeps
    <3> QED
      BY <1>7, <3>1
  <2>2. \A x, y : <<x, y>> \in E => y \in Reach(E, x)
    <3> SUFFICES ASSUME NEW x, NEW y, <<x, y>> \in E PROVE y \in Reach(E, x)
      OBVIOUS
    <3>1. <<x, y>>[1] = x /\ <<x, y>>[2] = y
      OBVIOUS
    <3> QED
      BY <1>9, <3>1, ReachLeast
  <2>3. CASE bypassOk(v)
    <3>1. <<w, r>> \in E
      BY <2>1, <2>3
    <3> QED
      BY <2>2, <3>1
  <2>4. CASE ~bypassOk(v)
    <3>1. <<w, i.n + k>> \in E /\ <<i.n + k, r>> \in E
      BY <2>1, <2>4
    <3>2. i.n + k \in Reach(E, w) /\ r \in Reach(E, i.n + k)
      BY <2>2, <3>1
    <3> QED
      BY <1>9, <3>2, ReachTrans
  <2> QED
    BY <2>3, <2>4
<1>14. \A m \in V : \E e \in E : e[1] = m
  BY <1>6, <1>7
<1> QED
  BY <1>2, <1>3, <1>9, <1>10, <1>12, <1>13, <1>14 DEF V, E

--------------------------------------------------------------------------------

(***************************************************************************)
(* The inductive invariant                                                 *)
(***************************************************************************)

\* The graph as it is when the merge in progress is complete.
Into(m) == IF pc = "propagate" /\ m = merge.donor THEN merge.recipient ELSE m
Merged == {<<Into(e[1]), Into(e[2])>> : e \in g}
Nodes == {Into(m) : m \in mts}

Logic == 1 .. input.n
Coarse == {"scoreboard", "contract", "propagate", "reduce"}

Types ==
    /\ input \in Inputs
    /\ pc \in {"hazards", "done"} \cup Coarse
    /\ mts \subseteq 0 .. Exit(input)
    /\ cost \in [mts -> Nat]
    /\ g \subseteq mts \X mts
    /\ Logic \subseteq DOMAIN owner
    /\ \A v \in Logic : owner[v] \in Nodes
    /\ limit \in Nat /\ path0 \in Nat
    /\ pc = "propagate" => /\ merge.recipient \in mts /\ merge.donor \in mts
                           /\ merge.recipient # merge.donor

\* The order of the logic.
Before(a, b) == Leads(Merged, owner[a], owner[b])

Handled == 1 .. Len(input.hazards) - Len(hazards)

Order ==
    /\ Acyclic(Merged)
    /\ \A k \in DOMAIN input.variables :
        \A w \in input.variables[k].writers, r \in input.variables[k].readers : Before(w, r)
    /\ \A k \in Handled : \A a, b \in input.hazards[k] : Before(a, b) \/ Before(b, a)

\* The groups that are left, and the shape of the graph while they are handled.
Groups ==
    /\ hazards \in Seq(SUBSET Logic)
    /\ Len(hazards) <= Len(input.hazards)
    /\ \A j \in 1 .. Len(hazards) : hazards[j] = input.hazards[Len(input.hazards) - Len(hazards) + j]
    /\ pc # "hazards" => hazards = <<>>

Ranked ==
    /\ \A m \in mts : rank[m] \in Nat
    /\ \A e \in g : rank[e[1]] < rank[e[2]]

Ends ==
    /\ {Entry, Exit(input)} \subseteq mts
    /\ cost[Entry] = 0 /\ cost[Exit(input)] = 0
    /\ \A v \in Logic : owner[v] \notin {Entry, Exit(input)}
    /\ \A e \in g : e[2] # Entry /\ e[1] # Exit(input)
    /\ \A m \in mts \ {Entry, Exit(input)} : \E e \in g : e[1] = m

\* A candidate is an edge of the graph or a pair of mtasks.
Fit(c, V, E) ==
    /\ c \in [sibling : BOOLEAN, from : V, to : V]
    /\ c.sibling => c.from # c.to
    /\ ~c.sibling => <<c.from, c.to>> \in E

Valid ==
    /\ pc \notin {"contract", "propagate"} => Candidates = {}
    /\ DOMAIN known \cap unknown = {}
    /\ \A c \in Candidates : Fit(c, mts, g)

\* The critical path an mtask has or is about to be given.
Pend(w, m) == IF m \in DOMAIN heap[w].pending THEN heap[w].pending[m] ELSE 0
Due(w, m) == cp[w][m] + Pend(w, m)
Stepped(m) == stepCost(cost[m])

PathTypes ==
    /\ cp \in [Way -> [mts -> Nat]]
    /\ heap \in [Way -> [key : [g -> Nat],
                         pending : UNION {[D -> Nat] : D \in SUBSET mts},
                         seen : SUBSET mts]]
    /\ pc # "propagate" => \A w \in Way : DOMAIN heap[w].pending = {}

\* The key of an edge is at least the path behind it and at most the path before it.
Keys ==
    \A w \in Way : \A e \in g :
        /\ cp[w][Into(Near(w, e))] + Stepped(Into(Near(w, e))) <= heap[w].key[e]
        /\ heap[w].key[e] <= Due(w, Into(Far(w, e)))

Budget ==
    \A m \in Nodes : Due("fwd", m) + Stepped(m) + Due("rev", m) <= Max({path0, limit})

\* b is behind a, one way.
Behind(w, a, b) == IF w = "fwd" THEN b \in Reach(Merged, a) ELSE a \in Reach(Merged, b)

\* PropagateCp works its way from the merged mtask; an mtask it has left was given a path
\* that no growth still pending can exceed.
Pending ==
    \A w \in Way :
        /\ \A m \in DOMAIN heap[w].pending :
            /\ Behind(w, merge.recipient, m)
            /\ m \notin heap[w].seen
            /\ \E e \in g : Far(w, e) = m /\ heap[w].key[e] = Due(w, m)
        /\ \A e \in g :
            LET u == Near(w, e)
                v == Far(w, e)
            IN  u \notin heap[w].seen /\ {u, v} \cap {merge.recipient, merge.donor} = {} =>
                   /\ v \notin heap[w].seen => cp[w][u] + Stepped(u) <= cp[w][v]
                   /\ v \in heap[w].seen =>
                       \A p \in DOMAIN heap[w].pending :
                           cp[w][u] + Stepped(u) + heap[w].pending[p] <= cp[w][v]

\* A way to give every mtask of the result a place within the budget.
Fits ==
    \E f \in [mts -> Nat] :
        /\ \A e \in g : f[e[1]] + Stepped(e[1]) <= f[e[2]]
        /\ \A m \in mts : f[m] + Stepped(m) <= Max({path0, limit})

Inv ==
    /\ Types /\ Order /\ Groups /\ Valid
    /\ pc = "hazards" => Ranked /\ Ends
    /\ pc \in Coarse => PathTypes /\ Keys /\ Budget
    /\ pc = "propagate" => Pending
    /\ pc = "done" => Fits

--------------------------------------------------------------------------------

(***************************************************************************)
(* Facts about a state                                                     *)
(***************************************************************************)

LEMMA FiniteGraph ==
    ASSUME NEW x \in Nat, NEW V, V \subseteq 0 .. x, NEW E, E \subseteq V \X V
    PROVE  IsFiniteSet(V) /\ IsFiniteSet(E) /\ \A e \in E : e = <<e[1], e[2]>> /\ e[1] \in V /\ e[2] \in V
<1>1. IsFiniteSet(0 .. x)
  BY FS_Interval
<1>2. IsFiniteSet(V)
  BY <1>1, FS_Subset
<1>3. IsFiniteSet(V \X V)
  BY <1>2, FS_Product
<1>4. IsFiniteSet(E)
  BY <1>3, FS_Subset
<1> QED
  BY <1>2, <1>4

\* Between merges the graph is as it is.
LEMMA NoMergeInProgress ==
    ASSUME pc # "propagate", g \subseteq mts \X mts
    PROVE  Merged = g /\ Nodes = mts /\ \A m : Into(m) = m
<1>1. \A m : Into(m) = m
  BY DEF Into
<1>2. Nodes = mts
  BY <1>1 DEF Nodes
<1>3. \A e \in g : <<Into(e[1]), Into(e[2])>> = e
  BY <1>1
<1>4. Merged = g
  BY <1>3 DEF Merged
<1> QED
  BY <1>1, <1>2, <1>4

LEMMA NoMergeAfter ==
    ASSUME pc' # "propagate", g' \subseteq mts' \X mts'
    PROVE  Merged' = g' /\ Nodes' = mts' /\ \A m : Into(m)' = m
<1>1. \A m : Into(m)' = m
  BY DEF Into
<1>2. Nodes' = mts'
  BY <1>1 DEF Nodes
<1>3. \A e \in g' : <<Into(e[1])', Into(e[2])'>> = e
  BY <1>1
<1>4. Merged' = g'
  BY <1>3 DEF Merged
<1> QED
  BY <1>1, <1>2, <1>4

\* The logic that the properties speak of.
LEMMA LogicOfInput ==
    ASSUME Types, Groups
    PROVE  /\ \A k \in DOMAIN input.variables : /\ input.variables[k].writers \subseteq Logic
                                                /\ input.variables[k].readers \subseteq Logic
           /\ \A k \in Handled : input.hazards[k] \subseteq Logic
<1>1. /\ input.hazards \in Seq(SUBSET Logic)
      /\ \A k \in DOMAIN input.variables : /\ input.variables[k].writers \subseteq Logic
                                           /\ input.variables[k].readers \subseteq Logic
  BY InputFacts DEF Types, Logic
<1>2. Len(hazards) \in Nat /\ Len(hazards) <= Len(input.hazards) /\ Len(input.hazards) \in Nat
  BY <1>1 DEF Groups
<1>3. \A k \in Handled : k \in 1 .. Len(input.hazards)
  BY <1>2 DEF Handled
<1>4. \A k \in 1 .. Len(input.hazards) : input.hazards[k] \in SUBSET Logic
  BY <1>1
<1> QED
  BY <1>1, <1>3, <1>4

\* What Init establishes.
LEMMA InitInv == Init => Inv
<1> SUFFICES ASSUME Init PROVE Inv
  OBVIOUS
<1> DEFINE i == input
<1>1. /\ i \in Inputs /\ pc = "hazards" /\ hazards = i.hazards
      /\ known = <<>> /\ unknown = {} /\ limit = 0 /\ path0 = 0
      /\ rank = Ranks(i)
  BY DEF Init
<1>2. /\ g = InitialGraph(i)
      /\ cost = [m \in All(i) |-> IF m \in 1 .. i.n THEN i.cost[m] ELSE 0]
      /\ owner = [v \in Inner(i) |-> v]
  <2>1. All(i) = {Entry, Exit(i)} \cup 1 .. i.n \cup Kept(i)
    BY DEF All, Inner
  <2> QED
    BY <2>1 DEF Init, setupMTaskDeps, InitialGraph, Inner
<1>3. mts = All(i)
  BY <1>2 DEF mts
<1>4. /\ i.n \in Nat /\ Exit(i) \in Nat /\ i.n < Exit(i)
      /\ i.cost \in [1 .. i.n -> Nat]
      /\ i.hazards \in Seq(SUBSET (1 .. i.n))
      /\ \A k \in DOMAIN i.variables : /\ i.variables[k].writers \subseteq 1 .. i.n
                                       /\ i.variables[k].readers \subseteq 1 .. i.n
  BY <1>1, InputFacts
<1>5. /\ All(i) \subseteq 0 .. Exit(i) /\ IsFiniteSet(All(i))
      /\ Entry \notin Inner(i) /\ Exit(i) \notin Inner(i) /\ Entry # Exit(i)
      /\ InitialGraph(i) \subseteq All(i) \X All(i) /\ IsFiniteSet(InitialGraph(i))
      /\ Acyclic(InitialGraph(i))
      /\ \A e \in InitialGraph(i) : e[2] # Entry /\ e[1] # Exit(i)
      /\ \A m \in Inner(i) : \E e \in InitialGraph(i) : e[1] = m
      /\ \A k \in DOMAIN i.variables :
           \A w \in i.variables[k].writers, r \in i.variables[k].readers :
               r \in Reach(InitialGraph(i), w)
  BY <1>1, InitialGraphFacts
<1> HIDE DEF i
<1>6. Merged = g /\ Nodes = mts /\ input = i
  <2>1. g \subseteq mts \X mts
    BY <1>2, <1>3, <1>5
  <2> QED
    BY <1>1, <2>1, NoMergeInProgress DEF i
<1>7. 1 .. i.n \subseteq Inner(i) /\ Inner(i) \subseteq All(i) /\ {Entry, Exit(i)} \subseteq All(i)
  BY DEF Inner, All
<1>8. Types
  <2>1. cost \in [mts -> Nat]
    BY <1>2, <1>3, <1>4
  <2>2. g \subseteq mts \X mts /\ mts \subseteq 0 .. Exit(i)
    BY <1>2, <1>3, <1>5
  <2>3. Logic \subseteq DOMAIN owner /\ \A v \in Logic : owner[v] \in Nodes
    BY <1>2, <1>3, <1>6, <1>7 DEF Logic
  <2> QED
    BY <1>1, <1>6, <2>1, <2>2, <2>3 DEF Types
<1>9. Order
  <2>1. Acyclic(Merged)
    BY <1>2, <1>5, <1>6
  <2>2. ASSUME NEW k \in DOMAIN i.variables,
               NEW w \in i.variables[k].writers, NEW r \in i.variables[k].readers
        PROVE  Before(w, r)
    <3>1. owner[w] = w /\ owner[r] = r
      BY <1>2, <1>4, <1>7
    <3> QED
      BY <1>2, <1>5, <1>6, <3>1 DEF Before, Leads
  <2>3. Handled = {}
    <3>1. Len(i.hazards) \in Nat
      BY <1>4
    <3> QED
      BY <1>1, <1>6, <3>1 DEF Handled
  <2> QED
    BY <1>6, <2>1, <2>2, <2>3 DEF Order
<1>10. Groups
  <2>1. Len(i.hazards) \in Nat
    BY <1>4
  <2>2. Logic = 1 .. i.n
    BY <1>6 DEF Logic
  <2> QED
    BY <1>1, <1>4, <1>6, <2>1, <2>2 DEF Groups
<1>11. Valid
  BY <1>1 DEF Valid, Candidates
<1>12. Ranked
  <2> DEFINE one == [m \in All(i) |-> 1]
  <2>1. rank = PathCosts("fwd", InitialGraph(i), All(i), one)
    <3>1. All(i) = {Entry, Exit(i)} \cup 1 .. i.n \cup Kept(i)
      BY DEF All, Inner
    <3> QED
      BY <1>1, <3>1 DEF Ranks, InitialGraph
  <2>2. one \in [All(i) -> Nat] /\ \A m \in All(i) : one[m] = 1
    OBVIOUS
  <2> HIDE DEF one
  <2>3. /\ rank \in [All(i) -> Nat]
        /\ \A e \in InitialGraph(i) : rank[e[1]] + one[e[1]] <= rank[e[2]]
    BY <1>5, <2>1, <2>2, LongestPaths DEF Near, Far
  <2>4. \A e \in g : rank[e[1]] < rank[e[2]]
    <3> SUFFICES ASSUME NEW e \in g PROVE rank[e[1]] < rank[e[2]]
      OBVIOUS
    <3>1. e[1] \in All(i) /\ e[2] \in All(i) /\ e \in InitialGraph(i)
      BY <1>2, <1>5
    <3>2. rank[e[1]] \in Nat /\ rank[e[2]] \in Nat /\ rank[e[1]] + 1 <= rank[e[2]]
      BY <2>2, <2>3, <3>1
    <3> QED
      BY <3>2
  <2> QED
    BY <1>3, <2>3, <2>4 DEF Ranked
<1>13. Ends
  <2>1. cost[Entry] = 0 /\ cost[Exit(i)] = 0
    BY <1>2, <1>5, <1>7
  <2>2. \A v \in Logic : owner[v] \notin {Entry, Exit(i)}
    BY <1>2, <1>5, <1>6, <1>7 DEF Logic
  <2>3. \A m \in mts \ {Entry, Exit(i)} : \E e \in g : e[1] = m
    BY <1>2, <1>3, <1>5 DEF All
  <2> QED
    BY <1>2, <1>3, <1>5, <1>6, <1>7, <2>1, <2>2, <2>3 DEF Ends
<1> QED
  BY <1>1, <1>8, <1>9, <1>10, <1>11, <1>12, <1>13 DEF Inv, Coarse

(***************************************************************************)
(* FixDataHazards                                                          *)
(***************************************************************************)

LEMMA RankRecipientIn ==
    ASSUME cost \in [mts -> Nat], mts \subseteq Nat, NEW S, S \subseteq mts, IsFiniteSet(S), S # {}
    PROVE  RankRecipient(S) \in S
<1> DEFINE C == {cost[m] : m \in S}
           most == {m \in S : \A o \in S : cost[o] <= cost[m]}
<1>1. C \subseteq Nat /\ C # {} /\ IsFiniteSet(C)
  BY FiniteImage
<1>2. Max(C) \in C /\ \A y \in C : y <= Max(C)
  <2> HIDE DEF C
  <2> QED
    BY <1>1, MaxOfNats
<1>3. PICK m \in S : cost[m] = Max(C)
  BY <1>2
<1>4. m \in most
  BY <1>2, <1>3
<1>5. most \in SUBSET Nat /\ most # {} /\ most \subseteq S
  BY <1>4
<1>6. Min(most) \in most
  <2> HIDE DEF most
  <2> QED
    BY <1>5, MinOfNats
<1>7. RankRecipient(S) = Min(most)
  BY DEF RankRecipient
<1> QED
  BY <1>5, <1>6, <1>7

\* The writers of a variable are merged rank by rank and then chained.
LEMMA HazardStep == Inv /\ mergeSameRankTasks => Inv'
<1> SUFFICES ASSUME Inv, mergeSameRankTasks PROVE Inv'
  OBVIOUS
<1> DEFINE tasks == {owner[v] : v \in Head(hazards)}
           into(m) == IF m \in tasks THEN RankRecipient({o \in tasks : rank[o] = rank[m]}) ELSE m
           f == [m \in mts |-> into(m)]
           recips == {into(m) : m \in tasks}
           x == Exit(input)
           k0 == Len(input.hazards) - Len(hazards)
<1>0. Types /\ Order /\ Groups /\ Valid /\ Ranked /\ Ends
  BY DEF Inv, mergeSameRankTasks
<1>1. /\ pc = "hazards" /\ hazards # <<>>
      /\ g' = {<<into(e[1]), into(e[2])>> : e \in g} \cup SerialEdges(recips)
      /\ cost' = [m \in {into(m) : m \in mts} |->
                          MapThenSumSet(LAMBDA o : cost[o], {o \in mts : into(o) = m})]
      /\ owner' = [v \in DOMAIN owner |-> into(owner[v])]
      /\ hazards' = Tail(hazards)
      /\ UNCHANGED <<input, pc, rank, cp, heap, known, unknown, limit, before, fresh, merge, path0>>
  BY DEF mergeSameRankTasks
<1>2. /\ input \in Inputs /\ x \in Nat /\ mts \subseteq 0 .. x /\ cost \in [mts -> Nat]
      /\ g \subseteq mts \X mts /\ Logic \subseteq DOMAIN owner /\ limit \in Nat /\ path0 \in Nat
  BY <1>0, InputFacts DEF Types
<1>3. /\ IsFiniteSet(mts) /\ IsFiniteSet(g) /\ mts \subseteq Nat
      /\ \A e \in g : e = <<e[1], e[2]>> /\ e[1] \in mts /\ e[2] \in mts
  <2>1. mts \subseteq Nat
    BY <1>2
  <2> HIDE DEF x
  <2>2. /\ IsFiniteSet(mts) /\ IsFiniteSet(g)
        /\ \A e \in g : e = <<e[1], e[2]>> /\ e[1] \in mts /\ e[2] \in mts
    BY <1>2, FiniteGraph
  <2> QED
    BY <2>1, <2>2
<1>4. Merged = g /\ Nodes = mts
  BY <1>1, <1>2, NoMergeInProgress
<1>5. /\ hazards \in Seq(SUBSET Logic) /\ Len(hazards) \in Nat /\ Len(hazards) # 0
      /\ Head(hazards) = hazards[1] /\ Head(hazards) \subseteq Logic
      /\ Tail(hazards) \in Seq(SUBSET Logic) /\ Len(Tail(hazards)) = Len(hazards) - 1
      /\ \A j \in 1 .. Len(hazards) - 1 : Tail(hazards)[j] = hazards[j + 1]
  BY <1>0, <1>1 DEF Groups
<1>6. /\ tasks \subseteq mts \ {Entry, x} /\ IsFiniteSet(tasks)
      /\ \A v \in Logic : owner[v] \in mts /\ owner[v] \notin {Entry, x}
  <2>1. \A v \in Logic : owner[v] \in mts /\ owner[v] \notin {Entry, x}
    BY <1>0, <1>4 DEF Types, Ends
  <2>2. tasks \subseteq mts \ {Entry, x}
    BY <1>5, <2>1
  <2> HIDE DEF tasks
  <2> QED
    BY <1>3, <2>1, <2>2, FS_Subset
<1> HIDE DEF tasks, x
\* A task is merged into one of its own rank.
<1>7. ASSUME NEW m \in mts
      PROVE  /\ into(m) \in mts /\ rank[into(m)] = rank[m]
             /\ m \in tasks => into(m) \in tasks
             /\ m \notin tasks => into(m) = m
  <2>1. CASE m \in tasks
    <3> DEFINE S == {o \in tasks : rank[o] = rank[m]}
    <3>1. S \subseteq mts /\ IsFiniteSet(S) /\ S # {}
      BY <1>6, <2>1, FS_Subset
    <3> HIDE DEF S
    <3>2. RankRecipient(S) \in S
      BY <1>2, <1>3, <3>1, RankRecipientIn
    <3> QED
      BY <1>6, <2>1, <3>2 DEF S
  <2>2. CASE m \notin tasks
    BY <2>2
  <2> QED
    BY <2>1, <2>2
<1>8. \A m, n \in tasks : rank[m] = rank[n] => into(m) = into(n)
  OBVIOUS
<1> HIDE DEF into
<1>9. mts' = {into(m) : m \in mts} /\ mts' \subseteq mts
  BY <1>1, <1>7 DEF mts
<1>10. \A m \in mts : f[m] = into(m)
  OBVIOUS
<1>11. recips \subseteq mts' /\ recips \subseteq tasks
  BY <1>6, <1>7, <1>9
<1>12. SerialEdges(recips) \subseteq recips \X recips
  BY DEF SerialEdges
<1>13. g' \subseteq mts' \X mts' /\ mts' \subseteq 0 .. x
  <2>1. {<<into(e[1]), into(e[2])>> : e \in g} \subseteq mts' \X mts'
    BY <1>3, <1>9
  <2> QED
    BY <1>1, <1>2, <1>9, <1>11, <1>12, <2>1
<1>14. IsFiniteSet(mts') /\ IsFiniteSet(g')
  BY <1>2, <1>13, FiniteGraph
<1>15. \A e \in g' : \/ \E d \in g : e[1] = into(d[1]) /\ e[2] = into(d[2])
                     \/ e \in SerialEdges(recips)
  BY <1>1
<1>16. \A e \in g' : rank[e[1]] \in Nat /\ rank[e[2]] \in Nat /\ rank[e[1]] < rank[e[2]]
  <2> SUFFICES ASSUME NEW e \in g' PROVE rank[e[1]] < rank[e[2]]
    BY <1>0, <1>9, <1>13 DEF Ranked
  <2>1. CASE \E d \in g : e[1] = into(d[1]) /\ e[2] = into(d[2])
    BY <1>0, <1>3, <1>7, <2>1 DEF Ranked
  <2>2. CASE e \in SerialEdges(recips)
    BY <2>2 DEF SerialEdges
  <2> QED
    BY <1>15, <2>1, <2>2
<1>17. Acyclic(g')
  BY <1>14, <1>16, UpwardAcyclic
<1>18. Merged' = g' /\ Nodes' = mts' /\ pc' = "hazards"
  <2>1. pc' = "hazards"
    BY <1>1
  <2> QED
    BY <1>13, <2>1, NoMergeAfter
<1>19. \A v \in Logic : v \in DOMAIN owner' /\ owner'[v] = into(owner[v]) /\ owner'[v] = f[owner[v]]
  BY <1>1, <1>2, <1>6
<1>20. Types'
  <2>1. cost' \in [mts' -> Nat]
    <3>1. ASSUME NEW m \in mts' PROVE cost'[m] \in Nat
      <4> DEFINE S == {o \in mts : into(o) = m}
      <4>1. IsFiniteSet(S) /\ \A o \in S : cost[o] \in Nat
        BY <1>2, <1>3, FS_Subset
      <4> HIDE DEF S
      <4>2. SumOver(cost, S) \in Nat
        BY <4>1, SumOfNats
      <4>3. cost'[m] = SumOver(cost, S)
        BY <1>1, <1>9 DEF S, SumOver
      <4> QED
        BY <4>2, <4>3
    <3> QED
      BY <1>1, <1>9, <3>1
  <2>2. (\A v \in Logic : owner[v] \in Nodes)'
    BY <1>1, <1>6, <1>9, <1>18, <1>19 DEF Logic
  <2>3. (Logic \subseteq DOMAIN owner)'
    BY <1>1, <1>19 DEF Logic
  <2> QED
    BY <1>0, <1>1, <1>13, <1>18, <2>1, <2>2, <2>3 DEF Types, x
<1>21. \A a, b \in Logic : Before(a, b) => Before(a, b)'
  <2>1. ASSUME NEW e \in g PROVE Leads(g', f[e[1]], f[e[2]])
    <3>1. <<f[e[1]], f[e[2]]>> \in g'
      BY <1>1, <1>3, <1>10
    <3>2. <<f[e[1]], f[e[2]]>>[1] = f[e[1]] /\ <<f[e[1]], f[e[2]]>>[2] = f[e[2]]
      OBVIOUS
    <3> QED
      BY <1>14, <3>1, <3>2, ReachEdge DEF Leads
  <2> HIDE DEF f
  <2> SUFFICES ASSUME NEW a \in Logic, NEW b \in Logic, Leads(g, owner[a], owner[b])
               PROVE  Leads(g', f[owner[a]], f[owner[b]])
    BY <1>4, <1>18, <1>19 DEF Before
  <2> QED
    BY <1>3, <1>14, <2>1, ReachImage
\* The group is ordered now.
<1>22. ASSUME NEW a \in Head(hazards), NEW b \in Head(hazards) PROVE Before(a, b)' \/ Before(b, a)'
  <2>1. /\ owner[a] \in tasks /\ owner[b] \in tasks /\ a \in Logic /\ b \in Logic
        /\ owner'[a] = into(owner[a]) /\ owner'[b] = into(owner[b])
    BY <1>5, <1>19 DEF tasks
  <2>2. /\ owner'[a] \in recips /\ owner'[b] \in recips
        /\ rank[owner'[a]] = rank[owner[a]] /\ rank[owner'[b]] = rank[owner[b]]
    BY <1>6, <1>7, <2>1
  <2>3. \A r \in recips : rank[r] \in Nat
    BY <1>0, <1>6, <1>11 DEF Ranked
  <2>4. \A r \in recips, s \in recips :
          /\ rank[r] < rank[s]
          /\ ~ \E m \in recips : rank[r] < rank[m] /\ rank[m] < rank[s]
          => <<r, s>> \in g'
    <3> HIDE DEF recips
    <3> QED
      BY <1>1 DEF SerialEdges
  <2> HIDE DEF recips
  <2>5. \A r \in recips, s \in recips : rank[r] < rank[s] => s \in Reach(g', r)
    BY <1>14, <2>3, <2>4, Chained
  <2>6. CASE rank[owner[a]] = rank[owner[b]]
    <3>1. owner'[a] = owner'[b]
      BY <1>8, <2>1, <2>6
    <3> QED
      BY <3>1 DEF Before, Leads
  <2>7. CASE rank[owner'[a]] < rank[owner'[b]]
    BY <1>18, <2>2, <2>5, <2>7 DEF Before, Leads
  <2>8. CASE rank[owner'[b]] < rank[owner'[a]]
    BY <1>18, <2>2, <2>5, <2>8 DEF Before, Leads
  <2> QED
    BY <2>2, <2>3, <2>6, <2>7, <2>8
<1>23. /\ Len(input.hazards) \in Nat /\ k0 \in Nat /\ DOMAIN input.hazards = 1 .. Len(input.hazards)
       /\ Handled = 1 .. k0 /\ Handled' = 1 .. k0 + 1 /\ Head(hazards) = input.hazards[k0 + 1]
       /\ \A k \in DOMAIN input.hazards : input.hazards[k] \subseteq Logic
  <2>1. input.hazards \in Seq(SUBSET Logic)
    BY <1>2, InputFacts DEF Logic
  <2>2. Len(input.hazards) \in Nat /\ DOMAIN input.hazards = 1 .. Len(input.hazards)
        /\ \A k \in DOMAIN input.hazards : input.hazards[k] \subseteq Logic
    BY <2>1
  <2>3. k0 \in Nat /\ hazards[1] = input.hazards[k0 + 1]
    BY <1>0, <1>5, <2>2 DEF Groups
  <2>4. Handled = 1 .. k0
    BY DEF Handled
  <2>5. Handled' = 1 .. k0 + 1
    <3>1. Handled' = 1 .. Len(input.hazards) - (Len(hazards) - 1)
      BY <1>1, <1>5 DEF Handled
    <3>2. Len(input.hazards) - (Len(hazards) - 1) = k0 + 1
      BY <1>5, <2>2
    <3> QED
      BY <3>1, <3>2
  <2> QED
    BY <1>5, <2>2, <2>3, <2>4, <2>5
<1>24. Order'
  <2>1. \A k \in DOMAIN input.variables :
          \A w \in input.variables[k].writers, r \in input.variables[k].readers : Before(w, r)'
    BY <1>0, <1>2, <1>21, InputFacts DEF Order, Logic
  <2>2. ASSUME NEW k \in 1 .. k0 + 1, NEW a \in input.hazards[k], NEW b \in input.hazards[k]
        PROVE  Before(a, b)' \/ Before(b, a)'
    <3>1. CASE k = k0 + 1
      BY <1>22, <1>23, <3>1
    <3>2. CASE k # k0 + 1
      <4>1. k \in Handled /\ k \in DOMAIN input.hazards
        BY <1>0, <1>23, <1>5, <3>2 DEF Groups
      <4>2. Before(a, b) \/ Before(b, a)
        BY <1>0, <4>1 DEF Order
      <4> QED
        BY <1>21, <1>23, <4>1, <4>2
    <3> QED
      BY <3>1, <3>2
  <2> QED
    BY <1>1, <1>17, <1>18, <1>23, <2>1, <2>2 DEF Order
<1>25. Groups'
  <2>1. Logic' = Logic
    BY <1>1 DEF Logic
  <2>2. Len(hazards') <= Len(input.hazards) /\ Len(hazards') = Len(hazards) - 1
    BY <1>0, <1>1, <1>5, <1>23 DEF Groups
  <2>3. ASSUME NEW j \in 1 .. Len(hazards')
        PROVE  hazards'[j] = input.hazards[Len(input.hazards) - Len(hazards') + j]
    <3>1. j + 1 \in 1 .. Len(hazards) /\ hazards'[j] = hazards[j + 1]
      BY <1>1, <1>5, <2>2
    <3>2. hazards[j + 1] = input.hazards[Len(input.hazards) - Len(hazards) + (j + 1)]
      BY <1>0, <3>1 DEF Groups
    <3>3. Len(input.hazards) - Len(hazards) + (j + 1) = Len(input.hazards) - Len(hazards') + j
      <4>1. \A a, b, c \in Int : a - b + (c + 1) = a - (b - 1) + c
        OBVIOUS
      <4> DEFINE a == Len(input.hazards)
                 b == Len(hazards)
                 c == Len(hazards')
      <4>2. j \in Int /\ a \in Int /\ b \in Int /\ c = b - 1
        BY <1>5, <1>23, <2>2
      <4> HIDE DEF a, b, c
      <4>3. a - b + (j + 1) = a - c + j
        BY <4>1, <4>2
      <4> QED
        BY <4>3 DEF a, b, c
    <3> QED
      BY <3>1, <3>2, <3>3
  <2> QED
    BY <1>1, <1>5, <1>18, <2>1, <2>2, <2>3 DEF Groups
<1>26. Valid'
  <2>1. Candidates = {}
    <3>1. \A c \in Candidates : FALSE
      BY <1>0, <1>1 DEF Valid
    <3> QED
      BY <3>1
  <2> QED
    BY <1>1, <2>1 DEF Valid, Candidates
<1>27. Ranked'
  BY <1>0, <1>1, <1>9, <1>16 DEF Ranked
<1>28. Ends'
  <2>1. \A m \in mts : m \in {Entry, x} => into(m) = m
    BY <1>6, <1>7
  <2>2. \A m \in mts : into(m) \in {Entry, x} => into(m) = m
    <3> SUFFICES ASSUME NEW m \in mts, into(m) \in {Entry, x} PROVE into(m) = m
      OBVIOUS
    <3>1. m \notin tasks
      BY <1>6, <1>7
    <3> QED
      BY <1>7, <3>1
  <2>3. {Entry, x} \subseteq mts /\ {Entry, x} \subseteq mts'
    BY <1>0, <1>9, <2>1 DEF Ends, x
  <2>4. ASSUME NEW m \in {Entry, x} PROVE cost'[m] = 0
    <3> DEFINE S == {o \in mts : into(o) = m}
    <3>1. S = {m}
      BY <2>1, <2>2, <2>3
    <3>2. cost'[m] = SumOver(cost, S)
      BY <1>1, <1>9, <2>3 DEF SumOver
    <3> HIDE DEF S
    <3>3. IsFiniteSet(S) /\ \A o \in S : cost[o] \in Nat
      BY <1>2, <2>3, <3>1, FS_Singleton
    <3>4. SumOver(cost, S) = cost[m]
      BY <3>1, <3>3, SumOfNats
    <3> QED
      BY <1>0, <3>2, <3>4 DEF Ends, x
  <2>5. \A v \in Logic : owner'[v] \notin {Entry, x}
    BY <1>6, <1>19, <2>2
  <2>6. \A e \in g' : e[2] # Entry /\ e[1] # x
    <3> SUFFICES ASSUME NEW e \in g' PROVE e[2] # Entry /\ e[1] # x
      OBVIOUS
    <3>1. CASE \E d \in g : e[1] = into(d[1]) /\ e[2] = into(d[2])
      <4>1. PICK d \in g : e[1] = into(d[1]) /\ e[2] = into(d[2])
        BY <3>1
      <4>2. d[1] \in mts /\ d[2] \in mts /\ d[2] # Entry /\ d[1] # x
        BY <1>0, <1>3 DEF Ends, x
      <4> QED
        BY <2>2, <4>1, <4>2
    <3>2. CASE e \in SerialEdges(recips)
      BY <1>6, <1>11, <1>12, <3>2
    <3> QED
      BY <1>15, <3>1, <3>2
  <2>7. ASSUME NEW m \in mts' \ {Entry, x} PROVE \E e \in g' : e[1] = m
    <3>1. PICK o \in mts : m = into(o)
      BY <1>9
    <3>2. o \notin {Entry, x}
      BY <2>1, <3>1
    <3>3. PICK d \in g : d[1] = o
      BY <1>0, <3>2 DEF Ends, x
    <3>4. <<into(d[1]), into(d[2])>> \in g' /\ <<into(d[1]), into(d[2])>>[1] = m
      BY <1>1, <3>1, <3>3
    <3> QED
      BY <3>4
  <2>8. x' = x /\ Logic' = Logic
    BY <1>1 DEF x, Logic
  <2> QED
    BY <2>3, <2>4, <2>5, <2>6, <2>7, <2>8 DEF Ends, x
<1> QED
  BY <1>18, <1>20, <1>24, <1>25, <1>26, <1>27, <1>28 DEF Inv, Coarse

(***************************************************************************)
(* The first critical paths, and the scoreboard                            *)
(***************************************************************************)

\* In a graph that runs from z to x no path is longer than the one to x.
LEMMA PathsEndAtExit ==
    ASSUME NEW V, IsFiniteSet(V), NEW E, E \subseteq V \X V, IsFiniteSet(E), Acyclic(E),
           NEW weight, weight \in [V -> Nat], NEW z \in V, NEW x \in V,
           weight[z] = 0, weight[x] = 0, \A e \in E : e[2] # z /\ e[1] # x,
           \A m \in V \ {z, x} : \E e \in E : e[1] = m,
           NEW m0 \in V
    PROVE  PathCosts("fwd", E, V, weight)[m0] + weight[m0] + PathCosts("rev", E, V, weight)[m0]
             <= PathCosts("fwd", E, V, weight)[x]
<1> DEFINE F == PathCosts("fwd", E, V, weight)
           R == PathCosts("rev", E, V, weight)
           T == {m \in V : ~(F[m] + weight[m] + R[m] <= F[x])}
<1>1. /\ F \in [V -> Nat]
      /\ \A e \in E : F[e[1]] + weight[e[1]] <= F[e[2]]
      /\ \A v \in V : F[v] = 0 \/ \E e \in E : e[2] = v
  BY LongestPaths DEF Near, Far
<1>2. /\ R \in [V -> Nat]
      /\ \A v \in V : R[v] = 0 \/ \E e \in E : e[1] = v /\ R[v] = R[e[2]] + weight[e[2]]
  BY LongestPaths DEF Near, Far
<1> HIDE DEF F, R
<1> SUFFICES ASSUME T # {} PROVE FALSE
  BY DEF F, R
<1>3. PICK y \in T : \A e \in E : e[1] = y => e[2] \notin T
  <2> HIDE DEF T
  <2> QED
    BY FirstVertex
<1>4. /\ y \in V /\ F[y] \in Nat /\ R[y] \in Nat /\ weight[y] \in Nat /\ F[x] \in Nat
      /\ ~(F[y] + weight[y] + R[y] <= F[x])
  BY <1>1, <1>2, <1>3
<1>5. ASSUME NEW e \in E, e[1] = y, R[y] = 0 \/ R[y] = R[e[2]] + weight[e[2]] PROVE FALSE
  <2>1. e[2] \in V /\ e[2] \notin T
    BY <1>3, <1>5
  <2>2. F[e[2]] + weight[e[2]] + R[e[2]] <= F[x] /\ F[y] + weight[y] <= F[e[2]]
    BY <1>1, <1>5, <2>1
  <2>3. F[e[2]] \in Nat /\ weight[e[2]] \in Nat /\ R[e[2]] \in Nat
    BY <1>1, <1>2, <2>1
  <2> QED
    BY <1>4, <1>5, <2>2, <2>3
<1>6. R[y] = 0 /\ ~ \E e \in E : e[1] = y
  BY <1>2, <1>4, <1>5
<1>7. y \in {z, x} /\ weight[y] = 0
  BY <1>4, <1>6
<1>8. CASE y = x
  BY <1>4, <1>6, <1>7, <1>8
<1>9. CASE y = z
  <2>1. F[y] = 0
    BY <1>1, <1>4, <1>9
  <2> QED
    BY <1>4, <1>6, <1>7, <2>1
<1> QED
  BY <1>7, <1>8, <1>9

\* partInitCriticalPaths starts from the longest paths.
LEMMA FirstPathsStep == Inv /\ partInitCriticalPaths => Inv'
<1> SUFFICES ASSUME Inv, partInitCriticalPaths PROVE Inv'
  OBVIOUS
<1> DEFINE weight == [m \in mts |-> stepCost(cost[m])]
           path == [w \in Way |-> PathCosts(w, g, mts, weight)]
           x == Exit(input)
<1>0. Types /\ Order /\ Groups /\ Valid /\ Ends
  BY DEF Inv, partInitCriticalPaths
<1>1. /\ pc = "hazards" /\ hazards = <<>> /\ pc' \in {"scoreboard", "reduce"}
      /\ cp' = path
      /\ heap' = [w \in Way |->
                    [key |-> [e \in g |-> path[w][Near(w, e)] + weight[Near(w, e)]],
                     pending |-> <<>>, seen |-> {}]]
      /\ path0' = path["fwd"][x]
      /\ limit' = (MapThenSumSet(LAMBDA m : cost[m], mts) * 3) \div (Threads * 5)
      /\ UNCHANGED <<input, g, cost, owner, rank, hazards, known, unknown, before, fresh, merge>>
  BY DEF partInitCriticalPaths
<1>2. /\ input \in Inputs /\ x \in Nat /\ mts \subseteq 0 .. x /\ cost \in [mts -> Nat]
      /\ g \subseteq mts \X mts
  BY <1>0, InputFacts DEF Types
<1>3. /\ IsFiniteSet(mts) /\ IsFiniteSet(g)
      /\ \A e \in g : e = <<e[1], e[2]>> /\ e[1] \in mts /\ e[2] \in mts
  <2> HIDE DEF x
  <2> QED
    BY <1>2, FiniteGraph
<1>4. Merged = g /\ Nodes = mts
  BY <1>1, <1>2, NoMergeInProgress
<1>5. mts' = mts /\ Merged' = g /\ Nodes' = mts /\ (\A m : Into(m)' = m) /\ g' = g /\ Logic' = Logic
  <2>1. mts' = mts /\ pc' # "propagate" /\ g' = g /\ Logic' = Logic
    BY <1>1 DEF mts, Logic
  <2> QED
    BY <1>2, <2>1, NoMergeAfter
<1>6. weight \in [mts -> Nat] /\ \A m \in mts : weight[m] = stepCost(cost[m]) /\ Stepped(m)' = weight[m]
  BY <1>1, <1>2, StepCosts DEF Stepped
<1>7. Acyclic(g)
  BY <1>0, <1>4 DEF Order
<1> HIDE DEF weight, x
<1>8. ASSUME NEW w \in Way
      PROVE  /\ path[w] \in [mts -> Nat]
             /\ \A e \in g : path[w][Near(w, e)] + weight[Near(w, e)] <= path[w][Far(w, e)]
  <2>1. path[w] = PathCosts(w, g, mts, weight)
    OBVIOUS
  <2>2. IsFiniteSet(mts) /\ g \subseteq mts \X mts /\ IsFiniteSet(g) /\ Acyclic(g) /\ weight \in [mts -> Nat]
    BY <1>2, <1>3, <1>6, <1>7
  <2> DEFINE p == PathCosts(w, g, mts, weight)
  <2>3. /\ p \in [mts -> Nat]
        /\ \A e \in g : p[Near(w, e)] + weight[Near(w, e)] <= p[Far(w, e)]
    BY ONLY <2>2, LongestPaths
  <2> HIDE DEF path
  <2> QED
    BY <2>1, <2>3
<1>9. {Entry, x} \subseteq mts /\ weight[Entry] = 0 /\ weight[x] = 0
  BY <1>0, <1>6, StepCosts DEF Ends, x
<1>10. \A m \in mts : path["fwd"][m] + weight[m] + path["rev"][m] <= path["fwd"][x]
  <2>1. path["fwd"] = PathCosts("fwd", g, mts, weight) /\ path["rev"] = PathCosts("rev", g, mts, weight)
    BY DEF Way
  <2>2. (\A e \in g : e[2] # Entry /\ e[1] # x) /\ \A m \in mts \ {Entry, x} : \E e \in g : e[1] = m
    BY <1>0 DEF Ends, x
  <2>3. /\ IsFiniteSet(mts) /\ g \subseteq mts \X mts /\ IsFiniteSet(g) /\ Acyclic(g)
        /\ weight \in [mts -> Nat] /\ Entry \in mts /\ x \in mts /\ weight[Entry] = 0 /\ weight[x] = 0
    BY <1>2, <1>3, <1>6, <1>7, <1>9
  <2>4. ASSUME NEW m \in mts
        PROVE  PathCosts("fwd", g, mts, weight)[m] + weight[m] + PathCosts("rev", g, mts, weight)[m]
                 <= PathCosts("fwd", g, mts, weight)[x]
    <3>1. m \in mts
      OBVIOUS
    <3> QED
      BY ONLY <2>2, <2>3, <3>1, PathsEndAtExit
  <2> HIDE DEF path
  <2> QED
    BY <2>1, <2>4
<1> HIDE DEF path
<1>11. path0' \in Nat
  BY <1>1, <1>8, <1>9 DEF Way
<1>12. limit' \in Nat
  <2>1. SumOver(cost, mts) \in Nat
    BY <1>2, <1>3, SumOfNats
  <2>2. limit' = (SumOver(cost, mts) * 3) \div (Threads * 5)
    BY <1>1 DEF SumOver
  <2>3. Threads * 5 \in Nat /\ Threads * 5 > 0
    BY PartitionerAssumption DEF PartitionerAssumption
  <2>4. \A a \in Nat, b \in Nat : b > 0 => (a * 3) \div b \in Nat
    OBVIOUS
  <2> DEFINE s == SumOver(cost, mts)
             t == Threads * 5
  <2>5. s \in Nat /\ t \in Nat /\ t > 0
    BY <2>1, <2>3
  <2> HIDE DEF s, t
  <2>6. (s * 3) \div t \in Nat
    BY <2>4, <2>5
  <2> QED
    BY <2>2, <2>6 DEF s, t
<1>13. Types'
  BY <1>0, <1>1, <1>4, <1>5, <1>11, <1>12 DEF Types, Coarse
<1>14. Order'
  <2>1. \A a, b : Before(a, b)' <=> Before(a, b)
    BY <1>1, <1>4, <1>5 DEF Before
  <2>2. Handled' = Handled /\ input' = input
    BY <1>1 DEF Handled
  <2> QED
    BY <1>0, <1>4, <1>5, <2>1, <2>2 DEF Order
<1>15. Groups'
  BY <1>0, <1>1, <1>5 DEF Groups
<1>16. Valid'
  <2>1. Candidates = {} /\ Candidates' = Candidates /\ known' = known /\ unknown' = unknown
    BY <1>0, <1>1 DEF Valid, Candidates
  <2> QED
    BY <1>0, <2>1 DEF Valid
<1>17. ASSUME NEW w \in Way
       PROVE  /\ heap'[w] = [key |-> [e \in g |-> path[w][Near(w, e)] + weight[Near(w, e)]],
                             pending |-> <<>>, seen |-> {}]
              /\ heap'[w].pending = <<>> /\ DOMAIN heap'[w].pending = {}
              /\ \A e \in g : heap'[w].key[e] = path[w][Near(w, e)] + weight[Near(w, e)]
              /\ \A m : Due(w, m)' = path[w][m] + 0
  <2>1. heap'[w] = [key |-> [e \in g |-> path[w][Near(w, e)] + weight[Near(w, e)]],
                    pending |-> <<>>, seen |-> {}]
    BY <1>1
  <2>2. heap'[w].pending = <<>> /\ DOMAIN heap'[w].pending = {}
    BY <2>1
  <2>3. \A e \in g : heap'[w].key[e] = path[w][Near(w, e)] + weight[Near(w, e)]
    BY <2>1
  <2>4. \A m : Due(w, m)' = path[w][m] + 0
    BY <1>1, <2>2 DEF Due, Pend
  <2> QED
    BY <2>1, <2>2, <2>3, <2>4
<1>18. PathTypes'
  <2>1. cp' \in [Way -> [mts -> Nat]]
    <3>1. cp' = [w \in Way |-> path[w]]
      BY <1>1 DEF path
    <3> QED
      BY <1>8, <3>1
  <2> DEFINE P == UNION {[D -> Nat] : D \in SUBSET mts}
  <2>2. <<>> \in P
    <3>1. <<>> \in [{} -> Nat]
      OBVIOUS
    <3> QED
      BY <3>1
  <2> HIDE DEF P
  <2>3. ASSUME NEW w \in Way PROVE heap'[w] \in [key : [g -> Nat], pending : P, seen : SUBSET mts]
    <3>1. \A e \in g : Near(w, e) \in mts
      BY <1>3 DEF Near
    <3>2. [e \in g |-> path[w][Near(w, e)] + weight[Near(w, e)]] \in [g -> Nat]
      BY <1>6, <1>8, <3>1
    <3> DEFINE k == [e \in g |-> path[w][Near(w, e)] + weight[Near(w, e)]]
               G == [g -> Nat]
    <3>3. k \in G /\ heap'[w] = [key |-> k, pending |-> <<>>, seen |-> {}]
      BY <1>17, <3>2
    <3> HIDE DEF k, G
    <3>4. heap'[w] \in [key : G, pending : P, seen : SUBSET mts]
      BY <2>2, <3>3
    <3> QED
      BY <3>4 DEF G
  <2>4. heap' \in [Way -> [key : [g -> Nat], pending : P, seen : SUBSET mts]]
    BY <1>1, <2>3
  <2> QED
    BY <1>5, <1>17, <2>1, <2>4 DEF PathTypes, P
<1>19. Keys'
  <2> SUFFICES ASSUME NEW w \in Way, NEW e \in g
               PROVE  /\ cp'[w][Near(w, e)] + Stepped(Near(w, e))' <= heap'[w].key[e]
                      /\ heap'[w].key[e] <= Due(w, Far(w, e))'
    BY <1>5 DEF Keys
  <2>1. Near(w, e) \in mts /\ Far(w, e) \in mts
    BY <1>3 DEF Near, Far
  <2>2. cp'[w] = path[w]
    BY <1>1
  <2>3. path[w][Near(w, e)] \in Nat /\ path[w][Far(w, e)] \in Nat /\ weight[Near(w, e)] \in Nat
    BY <1>6, <1>8, <2>1
  <2>4. /\ Stepped(Near(w, e))' = weight[Near(w, e)]
        /\ heap'[w].key[e] = path[w][Near(w, e)] + weight[Near(w, e)]
        /\ Due(w, Far(w, e))' = path[w][Far(w, e)] + 0
        /\ path[w][Near(w, e)] + weight[Near(w, e)] <= path[w][Far(w, e)]
    BY <1>6, <1>8, <1>17, <2>1
  <2> QED
    BY <2>2, <2>3, <2>4
<1>20. Budget'
  <2> SUFFICES ASSUME NEW m \in mts
               PROVE  Due("fwd", m)' + Stepped(m)' + Due("rev", m)' <= Max({path0', limit'})
    BY <1>5 DEF Budget
  <2>1. Due("fwd", m)' = path["fwd"][m] + 0 /\ Due("rev", m)' = path["rev"][m] + 0 /\ Stepped(m)' = weight[m]
    BY <1>6, <1>17 DEF Way
  <2>2. path["fwd"][m] \in Nat /\ path["rev"][m] \in Nat /\ weight[m] \in Nat /\ path["fwd"][x] \in Nat
    BY <1>6, <1>8, <1>9 DEF Way
  <2>3. path0' <= Max({path0', limit'}) /\ Max({path0', limit'}) \in Nat
    BY <1>11, <1>12, MaxOfTwo
  <2>4. path["fwd"][m] + weight[m] + path["rev"][m] <= path0'
    BY <1>1, <1>10
  <2> QED
    BY <1>11, <2>1, <2>2, <2>3, <2>4
<1> QED
  BY <1>1, <1>13, <1>14, <1>15, <1>16, <1>18, <1>19, <1>20 DEF Inv, Coarse

\* Sibling pairs are two different mtasks.
LEMMA SiblingsValid ==
    ASSUME NEW V, IsFiniteSet(V), NEW E, E \subseteq V \X V, NEW w, NEW v, NEW exhaustive,
           NEW c \in SiblingPairs(w, E, v, exhaustive)
    PROVE  Fit(c, V, E) /\ c.sibling
<1> DEFINE relatives == {Far(w, e) : e \in Leaving(w, E, v)}
           below(a, b) == LET x == cp[w][a] + cost[a]
                              y == cp[w][b] + cost[b]
                          IN  x < y \/ (x = y /\ a < b)
           place(a) == Cardinality({b \in relatives : below(b, a)})
<1>1. PICK q \in relatives \X relatives : c = Sibling(q[1], q[2]) /\ place(q[2]) = place(q[1]) + 1
  BY DEF SiblingPairs
<1>2. relatives \subseteq V
  BY DEF Leaving, Far
<1> HIDE DEF below, relatives
<1>3. place(q[1]) \in Nat
  <2>1. {b \in relatives : below(b, q[1])} \in SUBSET V
    BY <1>2
  <2> QED
    BY <2>1, FS_Subset, FS_CardinalityType
<1> HIDE DEF place
<1>4. q[1] # q[2]
  BY <1>1, <1>3
<1>5. q[1] \in V /\ q[2] \in V
  BY <1>1, <1>2
<1>6. /\ c.sibling = TRUE /\ c.from # c.to
      /\ c \in [sibling : BOOLEAN, from : V, to : V]
  BY <1>1, <1>4, <1>5 DEF Sibling
<1> QED
  BY <1>6 DEF Fit

LEMMA EdgeFits ==
    ASSUME NEW V, NEW E, E \subseteq V \X V, NEW e \in E
    PROVE  Fit(Edge(e), V, E) /\ ~Edge(e).sibling
<1>1. e = <<e[1], e[2]>> /\ e[1] \in V /\ e[2] \in V
  OBVIOUS
<1>2. /\ Edge(e).sibling = FALSE /\ Edge(e).from = e[1] /\ Edge(e).to = e[2]
      /\ Edge(e) \in [sibling : BOOLEAN, from : V, to : V]
  BY <1>1 DEF Edge
<1> QED
  BY <1>1, <1>2 DEF Fit

\* Steps that only move candidates between the two sets, or raise the limit.
LEMMA CandidateStep ==
    ASSUME Inv, pc \in Coarse \ {"propagate"}, pc' \in Coarse \ {"propagate"},
           UNCHANGED <<input, g, cost, owner, rank, hazards, cp, heap, merge, path0>>,
           limit' \in Nat, limit <= limit', Valid'
    PROVE  Inv'
<1>0. Types /\ Order /\ Groups /\ PathTypes /\ Keys /\ Budget
  BY DEF Inv
<1>1. g \subseteq mts \X mts /\ mts' = mts /\ Logic' = Logic /\ Handled' = Handled
  BY <1>0 DEF Types, mts, Logic, Handled
<1>2. Merged = g /\ Nodes = mts /\ \A m : Into(m) = m
  BY <1>1, NoMergeInProgress
<1>3. Merged' = g' /\ Nodes' = mts' /\ \A m : Into(m)' = m
  BY <1>1, NoMergeAfter
<1>4. Types'
  BY <1>0, <1>1, <1>2, <1>3 DEF Types
<1>5. Order'
  <2>1. \A a, b : Before(a, b)' <=> Before(a, b)
    BY <1>2, <1>3 DEF Before
  <2> QED
    BY <1>0, <1>1, <1>2, <1>3, <2>1 DEF Order
<1>6. Groups'
  BY <1>0, <1>1 DEF Groups, Coarse
<1>7. PathTypes'
  BY <1>0, <1>1 DEF PathTypes
<1>8. \A w, m : Due(w, m)' = Due(w, m) /\ Stepped(m)' = Stepped(m)
  BY DEF Due, Pend, Stepped
<1>9. Keys'
  BY <1>0, <1>2, <1>3, <1>8 DEF Keys
<1>10. Budget'
  <2> SUFFICES ASSUME NEW m \in mts
               PROVE  Due("fwd", m) + Stepped(m) + Due("rev", m) <= Max({path0, limit'})
    BY <1>1, <1>3, <1>8 DEF Budget
  <2>1. Due("fwd", m) + Stepped(m) + Due("rev", m) <= Max({path0, limit})
    BY <1>0, <1>2 DEF Budget
  <2>2. limit \in Nat /\ path0 \in Nat /\ cost[m] \in Nat
    BY <1>0 DEF Types
  <2>3. Max({path0, limit}) <= Max({path0, limit'}) /\ Max({path0, limit}) \in Nat /\ Max({path0, limit'}) \in Nat
    <3>1. /\ Max({path0, limit}) \in {path0, limit} /\ Max({path0, limit}) \in Nat
          /\ Max({path0, limit'}) \in Nat
          /\ path0 <= Max({path0, limit'}) /\ limit' <= Max({path0, limit'})
      BY <2>2, MaxOfTwo
    <3> QED
      BY <2>2, <3>1
  <2>4. Due("fwd", m) \in Nat /\ Due("rev", m) \in Nat /\ Stepped(m) \in Nat
    <3>1. \A w \in Way : cp[w][m] \in Nat /\ Pend(w, m) = 0
      BY <1>0 DEF PathTypes, Pend
    <3> QED
      BY <2>2, <3>1, StepCosts DEF Due, Stepped, Way
  <2> QED
    BY <2>1, <2>3, <2>4
<1> QED
  BY <1>4, <1>5, <1>6, <1>7, <1>9, <1>10 DEF Inv, Coarse

LEMMA FillStep == Inv /\ FillScoreboard => Inv'
<1> SUFFICES ASSUME Inv, FillScoreboard PROVE Inv'
  OBVIOUS
<1>1. /\ pc = "scoreboard" /\ pc' = "contract"
      /\ unknown' = {Edge(e) : e \in g}
                    \cup UNION {UNION {SiblingPairs(w, g, v, TRUE) : w \in Way} : v \in mts}
      /\ UNCHANGED <<input, g, cost, owner, rank, hazards, cp, heap, known, limit, before,
                     fresh, merge, path0>>
  BY DEF FillScoreboard
<1>2. Types /\ Valid
  BY DEF Inv
<1>3. Exit(input) \in Nat /\ mts \subseteq 0 .. Exit(input) /\ g \subseteq mts \X mts
  BY <1>2, InputFacts DEF Types
<1>4. IsFiniteSet(mts) /\ \A e \in g : e = <<e[1], e[2]>> /\ e[1] \in mts /\ e[2] \in mts
  BY <1>3, FiniteGraph
<1>5. Valid'
  <2>1. DOMAIN known = {}
    BY <1>1, <1>2 DEF Valid, Candidates
  <2>2. Candidates' = unknown' /\ DOMAIN known' = {}
    BY <1>1, <2>1 DEF Candidates
  <2>3. mts' = mts /\ g' = g
    BY <1>1 DEF mts
  <2>4. ASSUME NEW c \in unknown' PROVE Fit(c, mts, g)
    <3>1. CASE \E e \in g : c = Edge(e)
      BY <1>3, <3>1, EdgeFits
    <3>2. CASE \E w \in Way, v \in mts : c \in SiblingPairs(w, g, v, TRUE)
      BY <1>3, <1>4, <3>2, SiblingsValid
    <3> DEFINE A == {Edge(e) : e \in g}
               B == UNION {UNION {SiblingPairs(w, g, v, TRUE) : w \in Way} : v \in mts}
    <3>3. unknown' = A \cup B
      BY <1>1
    <3>4. ASSUME c \in B PROVE \E w \in Way, v \in mts : c \in SiblingPairs(w, g, v, TRUE)
      <4> DEFINE C(v) == UNION {SiblingPairs(w, g, v, TRUE) : w \in Way}
      <4>1. B = UNION {C(v) : v \in mts}
        OBVIOUS
      <4>2. \A v : c \in C(v) => \E w \in Way : c \in SiblingPairs(w, g, v, TRUE)
        OBVIOUS
      <4> HIDE DEF B, C
      <4>3. PICK v \in mts : c \in C(v)
        BY <3>4, <4>1
      <4> QED
        BY <4>2, <4>3
    <3>5. c \in A => \E e \in g : c = Edge(e)
      OBVIOUS
    <3> HIDE DEF A, B
    <3> QED
      BY <3>1, <3>2, <3>3, <3>4, <3>5
  <2> QED
    BY <1>1, <2>2, <2>3, <2>4 DEF Valid
<1>6. limit \in Nat
  BY <1>2 DEF Types
<1> QED
  BY <1>1, <1>5, <1>6, CandidateStep DEF Coarse

LEMMA ScoreboardSteps ==
    Inv /\ (NothingKnown \/ StaleScore \/ RescoreFirst \/ TooManyMTasks \/ Exhausted \/ Discard) => Inv'
<1> SUFFICES ASSUME Inv, NothingKnown \/ StaleScore \/ RescoreFirst \/ TooManyMTasks \/ Exhausted \/ Discard
             PROVE  Inv'
  OBVIOUS
<1>1. Types /\ Valid /\ limit \in Nat
  BY DEF Inv, Types
<1>2. /\ pc = "contract" /\ pc' \in {"contract", "reduce"}
      /\ UNCHANGED <<input, g, cost, owner, rank, hazards, cp, heap, merge, path0>>
  BY DEF NothingKnown, StaleScore, RescoreFirst, Rescore, TooManyMTasks, Exhausted, Discard, Chosen
<1>3. mts' = mts
  BY <1>2 DEF mts
\* Candidates that stay are valid; each stays in one of the sets.
<1>4. ASSUME Candidates' \subseteq Candidates, DOMAIN known' \cap unknown' = {},
             pc' = "reduce" => Candidates' = {}
      PROVE  Valid'
  BY <1>1, <1>2, <1>3, <1>4 DEF Valid
<1>5. ASSUME NEW k, Rescore(k), DOMAIN k = DOMAIN known PROVE Valid' /\ limit' = limit
  <2>1. unknown' = {} /\ DOMAIN known' = DOMAIN k \cup unknown /\ pc' = pc /\ limit' = limit
    BY <1>5 DEF Rescore
  <2> QED
    BY <1>2, <1>4, <1>5, <2>1 DEF Candidates
<1>6. \A cs : DOMAIN Without(known, cs) = DOMAIN known \ cs
  BY DEF Without, Restrict
<1>7. \A c : DOMAIN Rescored(known, c) = DOMAIN known
  BY DEF Rescored
<1>8. CASE NothingKnown
  BY <1>1, <1>2, <1>5, <1>8, CandidateStep DEF NothingKnown, Coarse
<1>9. CASE StaleScore
  <2>1. PICK c \in DOMAIN known : known' = Without(known, {c}) /\ unknown' = unknown \cup {c}
    BY <1>9 DEF StaleScore
  <2>2. pc' = pc /\ limit' = limit
    BY <1>9 DEF StaleScore
  <2>3. Valid'
    BY <1>1, <1>2, <1>4, <1>6, <2>1, <2>2 DEF Candidates, Valid
  <2> QED
    BY <1>1, <1>2, <2>2, <2>3, CandidateStep DEF Coarse
<1>10. CASE RescoreFirst
  <2>1. PICK c \in DOMAIN known : Rescore(Rescored(known, c))
    BY <1>10 DEF RescoreFirst
  <2>2. Valid' /\ limit' = limit
    BY <1>5, <1>7, <2>1
  <2> QED
    BY <1>1, <1>2, <2>2, CandidateStep DEF Coarse
<1>11. CASE TooManyMTasks
  <2>1. PICK c \in DOMAIN known : known' = Rescored(known, c)
    BY <1>11 DEF TooManyMTasks
  <2>2. unknown' = unknown /\ pc' = pc /\ limit' = RaiseLimit(limit)
    BY <1>11 DEF TooManyMTasks
  <2>3. Valid'
    BY <1>1, <1>2, <1>4, <1>7, <2>1, <2>2 DEF Candidates, Valid
  <2>4. limit' \in Nat /\ limit <= limit'
    <3>1. \A l \in Nat : (l * 120) \div 100 \in Nat /\ l <= (l * 120) \div 100
      OBVIOUS
    <3> QED
      BY <1>1, <2>2, <3>1 DEF RaiseLimit
  <2> QED
    BY <1>1, <1>2, <2>3, <2>4, CandidateStep DEF Coarse
<1>12. CASE Exhausted
  <2>1. unknown = {} /\ unknown' = unknown /\ known' = <<>> /\ limit' = limit
    BY <1>12 DEF Exhausted
  <2>2. Valid'
    BY <1>4, <2>1 DEF Candidates
  <2> QED
    BY <1>1, <1>2, <2>1, <2>2, CandidateStep DEF Coarse
<1>13. CASE Discard
  <2>1. PICK c \in DOMAIN known : known' = Without(known, {c})
    BY <1>13 DEF Discard
  <2>2. unknown' = unknown /\ pc' = pc /\ limit' = limit
    BY <1>13 DEF Discard
  <2>3. Valid'
    BY <1>1, <1>2, <1>4, <1>6, <2>1, <2>2 DEF Candidates, Valid
  <2> QED
    BY <1>1, <1>2, <2>2, <2>3, CandidateStep DEF Coarse
<1> QED
  BY <1>8, <1>9, <1>10, <1>11, <1>12, <1>13

(***************************************************************************)
(* The search for a path, pruned by the critical paths                     *)
(***************************************************************************)

\* The types of the critical paths, stated for one way.
LEMMA PathFacts ==
    ASSUME Types, PathTypes, NEW w \in Way
    PROVE  /\ Exit(input) \in Nat /\ IsFiniteSet(mts) /\ IsFiniteSet(g)
           /\ \A e \in g : e = <<e[1], e[2]>> /\ e[1] \in mts /\ e[2] \in mts
           /\ \A e \in g : Near(w, e) \in mts /\ Far(w, e) \in mts
           /\ cp[w] \in [mts -> Nat]
           /\ \A m \in mts : cp[w][m] \in Nat /\ Stepped(m) \in Nat /\ Pend(w, m) \in Nat /\ Due(w, m) \in Nat
           /\ heap[w].key \in [g -> Nat]
           /\ \A e \in g : heap[w].key[e] \in Nat
           /\ DOMAIN heap[w].pending \subseteq mts
           /\ heap[w].pending \in [DOMAIN heap[w].pending -> Nat]
           /\ heap[w].seen \subseteq mts
           /\ heap[w] = [key |-> heap[w].key, pending |-> heap[w].pending, seen |-> heap[w].seen]
<1>1. Exit(input) \in Nat /\ mts \subseteq 0 .. Exit(input) /\ g \subseteq mts \X mts /\ cost \in [mts -> Nat]
  BY InputFacts DEF Types
<1>2. IsFiniteSet(mts) /\ IsFiniteSet(g) /\ \A e \in g : e = <<e[1], e[2]>> /\ e[1] \in mts /\ e[2] \in mts
  BY <1>1, FiniteGraph
<1>3. \A e \in g : Near(w, e) \in mts /\ Far(w, e) \in mts
  BY <1>2 DEF Near, Far
<1> DEFINE K == [g -> Nat]
           P == UNION {[D -> Nat] : D \in SUBSET mts}
           S == SUBSET mts
<1>4. heap[w] \in [key : K, pending : P, seen : S] /\ cp[w] \in [mts -> Nat]
  BY DEF PathTypes
<1>5. /\ \A k \in K : k \in [g -> Nat] /\ \A e \in g : k[e] \in Nat
      /\ \A s \in S : s \subseteq mts
  OBVIOUS
<1>6. \A p \in P : DOMAIN p \subseteq mts /\ p \in [DOMAIN p -> Nat]
  OBVIOUS
<1> HIDE DEF K, P, S
<1>7. /\ heap[w].key \in K /\ heap[w].pending \in P /\ heap[w].seen \in S
      /\ heap[w] = [key |-> heap[w].key, pending |-> heap[w].pending, seen |-> heap[w].seen]
  BY <1>4
<1>8. \A m \in mts : cp[w][m] \in Nat /\ Stepped(m) \in Nat
  BY <1>1, <1>4, StepCosts DEF Stepped
<1>9. \A m \in mts : Pend(w, m) \in Nat
  BY <1>6, <1>7 DEF Pend
<1>10. \A m \in mts : Due(w, m) \in Nat
  BY <1>8, <1>9 DEF Due
<1> QED
  BY <1>1, <1>2, <1>3, <1>4, <1>5, <1>6, <1>7, <1>8, <1>9, <1>10

\* Between merges each path is at least what its neighbours imply.
LEMMA PathsCover ==
    ASSUME Types, PathTypes, Keys, pc # "propagate", NEW w \in Way, NEW e \in g
    PROVE  /\ cp[w][Near(w, e)] + Stepped(Near(w, e)) <= heap[w].key[e]
           /\ heap[w].key[e] <= cp[w][Far(w, e)]
           /\ cp[w][Near(w, e)] + Stepped(Near(w, e)) <= cp[w][Far(w, e)]
<1>1. \A m : Into(m) = m
  BY DEF Into
<1> DEFINE u == Near(w, e)
           v == Far(w, e)
           k == heap[w].key[e]
<1>2. u \in mts /\ v \in mts /\ cp[w][u] \in Nat /\ Stepped(u) \in Nat /\ cp[w][v] \in Nat /\ k \in Nat
  BY PathFacts
<1>3. cp[w][u] + Stepped(u) <= k /\ k <= Due(w, v)
  BY <1>1 DEF Keys
<1>4. Due(w, v) = cp[w][v] + 0
  BY DEF PathTypes, Due, Pend
<1> HIDE DEF u, v, k
<1>5. cp[w][u] + Stepped(u) <= k /\ k <= cp[w][v] /\ cp[w][u] + Stepped(u) <= cp[w][v]
  BY <1>2, <1>3, <1>4
<1> QED
  BY <1>5 DEF u, v, k

\* A path that is there is found: every vertex on it passes the test of the pruning.
LEMMA SearchExact ==
    ASSUME Types, PathTypes, Keys, pc # "propagate",
           NEW a \in mts, NEW b \in mts, NEW X, ~pathExistsFrom(a, b, X)
    PROVE  b \notin Reach(g \ X, a)
<1> DEFINE E == g \ X
           F == {e \in E : Leads(E, e[2], b)}
           followed == {e \in g : Worthwhile(e[1], b)} \ X
           wt == [m \in mts |-> Stepped(m)]
<1>1. IsFiniteSet(g) /\ \A e \in g : e = <<e[1], e[2]>> /\ e[1] \in mts /\ e[2] \in mts
  BY PathFacts DEF Way
<1>2. E \subseteq g /\ IsFiniteSet(E) /\ E \subseteq mts \X mts
  BY <1>1, FS_Subset DEF Types
<1>3. wt \in [mts -> Nat] /\ \A m \in mts : wt[m] = Stepped(m)
  BY PathFacts DEF Way
<1>4. cp["fwd"] \in [mts -> Nat] /\ cp["rev"] \in [mts -> Nat]
  BY PathFacts DEF Way
<1>5. /\ \A e \in E : cp["fwd"][e[1]] + wt[e[1]] <= cp["fwd"][e[2]]
      /\ \A e \in E : cp["rev"][e[2]] + wt[e[2]] <= cp["rev"][e[1]]
  BY <1>1, <1>2, <1>3, PathsCover DEF Way, Near, Far
<1> SUFFICES ASSUME b \in Reach(E, a) PROVE FALSE
  OBVIOUS
<1> HIDE DEF E, wt
<1>6. b \in Reach(F, a)
  BY <1>2, ReachThrough
<1>7. ASSUME NEW e \in F PROVE e \in followed
  <2>1. e \in E /\ e \in g /\ e \notin X /\ e[1] \in mts /\ e[2] \in mts
    BY <1>1, <1>2 DEF E
  <2>2. b \in Reach(E, e[1])
    <3>1. e[2] \in Reach(E, e[1]) /\ Reach(E, e[2]) \subseteq Reach(E, e[1])
      BY <1>2, <2>1, ReachEdge
    <3> QED
      BY <3>1 DEF Leads
  <2>3. cp["fwd"][e[1]] + wt[e[1]] <= cp["fwd"][b]
    <3> DEFINE f == cp["fwd"]
               x == e[1]
    <3>1. f \in [mts -> Nat] /\ (\A ee \in E : f[ee[1]] + wt[ee[1]] <= f[ee[2]]) /\ x \in mts /\ b \in Reach(E, x)
      BY <1>4, <1>5, <2>1, <2>2
    <3> HIDE DEF f, x
    <3>2. f[x] + wt[x] <= f[b]
      BY ONLY <1>2, <1>3, <3>1, Rises
    <3> QED
      BY <3>2 DEF f, x
  <2>4. cp["rev"][b] + wt[b] <= cp["rev"][e[1]]
    <3> DEFINE f == cp["rev"]
               x == e[1]
    <3>1. f \in [mts -> Nat] /\ (\A ee \in E : f[ee[2]] + wt[ee[2]] <= f[ee[1]]) /\ x \in mts /\ b \in Reach(E, x)
      BY <1>4, <1>5, <2>1, <2>2
    <3> HIDE DEF f, x
    <3>2. f[b] + wt[b] <= f[x]
      BY ONLY <1>2, <1>3, <3>1, Rises
    <3> QED
      BY <3>2 DEF f, x
  <2>5. wt[b] = stepCost(cost[b]) /\ wt[e[1]] = stepCost(cost[e[1]])
    BY <1>3, <2>1 DEF Stepped
  <2>6. /\ cp["rev"][b] \in Nat /\ cp["rev"][e[1]] \in Nat /\ wt[b] \in Nat
    BY <1>3, <1>4, <2>1
  <2>7. Worthwhile(e[1], b)
    BY <2>3, <2>4, <2>5, <2>6 DEF Worthwhile
  <2> QED
    BY <2>1, <2>7
<1>8. IsFiniteSet(followed)
  BY <1>1, FS_Subset
<1> HIDE DEF F, followed
<1>9. b \in Reach(followed, a)
  BY <1>6, <1>7, <1>8, ReachMono
<1> QED
  BY <1>9 DEF pathExistsFrom, followed

(***************************************************************************)
(* cpHasIncreased                                                          *)
(***************************************************************************)

\* The relatives of v whose path is shorter than inc.
Shorter(w, E, v, inc) == {Far(w, e) : e \in {f \in Leaving(w, E, v) : cp[w][Far(w, f)] < inc}}

\* Keys of the edges E, and pending growths.
HeapOf(h, E) ==
    /\ h = [key |-> h.key, pending |-> h.pending, seen |-> h.seen]
    /\ h.key \in [E -> Nat]
    /\ h.pending \in [DOMAIN h.pending -> Nat]

\* The keys of the edges that leave v are raised to inc.
KeysRaised(n, h, w, E, v, inc) ==
    \A e \in E : IF Near(w, e) = v
                 THEN n.key[e] \in {h.key[e], inc} /\ h.key[e] <= n.key[e] /\ inc <= n.key[e]
                 ELSE n.key[e] = h.key[e]

\* The growths of relatives with a path shorter than inc are raised to what they lack.
GrowthsRaised(n, h, w, E, v, inc) ==
    /\ DOMAIN n.pending = DOMAIN h.pending \cup Shorter(w, E, v, inc)
    /\ \A m \in Shorter(w, E, v, inc) :
        /\ inc - cp[w][m] <= n.pending[m]
        /\ m \in DOMAIN h.pending => n.pending[m] \in {inc - cp[w][m], h.pending[m]} /\ h.pending[m] <= n.pending[m]
        /\ m \notin DOMAIN h.pending => n.pending[m] = inc - cp[w][m]
    /\ \A m \in DOMAIN h.pending \ Shorter(w, E, v, inc) : n.pending[m] = h.pending[m]

Raised(n, h, w, E, v, inc) ==
    HeapOf(n, E) /\ n.seen = h.seen /\ KeysRaised(n, h, w, E, v, inc) /\ GrowthsRaised(n, h, w, E, v, inc)

LEMMA Increased ==
    ASSUME NEW w, NEW h, NEW E, HeapOf(h, E), NEW v, NEW inc \in Nat,
           \A e \in E : cp[w][Far(w, e)] \in Nat
    PROVE  Raised(cpHasIncreased(w, h, E, v, inc), h, w, E, v, inc)
<1> DEFINE far == Shorter(w, E, v, inc)
           key == h.key
           pend == h.pending
           D == DOMAIN pend
           growth(m) == Max({inc - cp[w][m]} \cup {h.pending[o] : o \in {m} \cap DOMAIN h.pending})
           nk == [e \in E |-> IF e \in Leaving(w, E, v) THEN Max({key[e], inc}) ELSE key[e]]
           np == [m \in D \cup far |-> IF m \in far THEN growth(m) ELSE pend[m]]
           n == cpHasIncreased(w, h, E, v, inc)
<1>1. /\ key \in [E -> Nat] /\ pend \in [D -> Nat] /\ DOMAIN h.key = E
      /\ h = [key |-> key, pending |-> pend, seen |-> h.seen]
  BY DEF HeapOf
<1>2. n = [h EXCEPT !.key = nk, !.pending = np]
  BY <1>1 DEF cpHasIncreased, Shorter
<1>3. \A m \in far : cp[w][m] \in Nat /\ inc - cp[w][m] \in Nat
  BY DEF Shorter, Leaving
<1>4. ASSUME NEW m \in far, m \in D
      PROVE  growth(m) \in {inc - cp[w][m], pend[m]} /\ growth(m) \in Nat /\ pend[m] <= growth(m) /\ inc - cp[w][m] <= growth(m)
  <2> DEFINE a == inc - cp[w][m]
             b == pend[m]
  <2>1. a \in Nat /\ b \in Nat
    BY <1>1, <1>3, <1>4
  <2>2. growth(m) = Max({a, b})
    <3>1. {a} \cup {h.pending[o] : o \in {m} \cap DOMAIN h.pending} = {a, b}
      BY <1>4
    <3> QED
      BY <3>1
  <2> HIDE DEF a, b, growth
  <2>3. growth(m) \in {a, b} /\ growth(m) \in Nat /\ b <= growth(m) /\ a <= growth(m)
    BY <2>1, <2>2, MaxOfTwo
  <2> QED
    BY <2>3 DEF a, b
<1>5. ASSUME NEW m \in far, m \notin D
      PROVE  growth(m) = inc - cp[w][m] /\ growth(m) \in Nat /\ inc - cp[w][m] <= growth(m)
  <2> DEFINE a == inc - cp[w][m]
  <2>1. a \in Nat
    BY <1>3
  <2>2. growth(m) = Max({a, a})
    <3>1. {a} \cup {h.pending[o] : o \in {m} \cap DOMAIN h.pending} = {a, a}
      BY <1>5
    <3> QED
      BY <3>1
  <2> HIDE DEF a, growth
  <2>3. growth(m) \in {a} /\ growth(m) \in Nat
    BY <2>1, <2>2, MaxOfTwo
  <2> QED
    BY <2>1, <2>3 DEF a
<1> HIDE DEF growth, far, key, pend, D
<1>6. np \in [D \cup far -> Nat]
  BY <1>1, <1>4, <1>5
<1>7. ASSUME NEW e \in E, e \in Leaving(w, E, v)
      PROVE  nk[e] \in Nat /\ nk[e] \in {key[e], inc} /\ key[e] <= nk[e] /\ inc <= nk[e]
  <2>1. key[e] \in Nat /\ nk[e] = Max({key[e], inc})
    BY <1>1, <1>7
  <2> QED
    BY <2>1, MaxOfTwo
<1>8. \A e \in E : e \notin Leaving(w, E, v) => nk[e] = key[e] /\ nk[e] \in Nat
  BY <1>1
<1>9. nk \in [E -> Nat]
  BY <1>7, <1>8
<1>10. \A e \in E : e \in Leaving(w, E, v) <=> Near(w, e) = v
  BY DEF Leaving
<1>11. \A m \in far : np[m] = growth(m)
  OBVIOUS
<1>12. (\A m \in D \ far : np[m] = pend[m]) /\ DOMAIN np = D \cup far
  OBVIOUS
<1> HIDE DEF nk, np, n
<1>13. n = [key |-> nk, pending |-> np, seen |-> h.seen]
  BY <1>1, <1>2
<1>14. n.key = nk /\ n.pending = np /\ n.seen = h.seen /\ n = [key |-> n.key, pending |-> n.pending, seen |-> n.seen]
  BY <1>13
<1>15. HeapOf(n, E)
  BY <1>6, <1>9, <1>12, <1>14 DEF HeapOf
<1>16. KeysRaised(n, h, w, E, v, inc)
  <2>1. \A e \in E : IF Near(w, e) = v
                     THEN nk[e] \in {key[e], inc} /\ key[e] <= nk[e] /\ inc <= nk[e]
                     ELSE nk[e] = key[e]
    BY <1>7, <1>8, <1>10
  <2> QED
    BY <1>14, <2>1 DEF KeysRaised, key
<1>17. GrowthsRaised(n, h, w, E, v, inc)
  <2>1. \A m \in far : /\ inc - cp[w][m] <= np[m]
                       /\ m \in D => np[m] \in {inc - cp[w][m], pend[m]} /\ pend[m] <= np[m]
                       /\ m \notin D => np[m] = inc - cp[w][m]
    BY <1>4, <1>5, <1>11
  <2> QED
    BY <1>12, <1>14, <2>1 DEF GrowthsRaised, far, pend, D
<1> QED
  BY <1>14, <1>15, <1>16, <1>17 DEF n, Raised

(***************************************************************************)
(* The merge of two mtasks                                                 *)
(***************************************************************************)

Seed(w, h, E, m, inc) == IF inc > cp[w][m] + Stepped(m) THEN cpHasIncreased(w, h, E, m, inc) ELSE h

Lacking(h, w, inc) == \A m \in DOMAIN h.pending : h.pending[m] = inc - cp[w][m]

SeedRaised(n, h, w, E, x, inc) ==
    /\ HeapOf(n, E) /\ n.seen = h.seen /\ KeysRaised(n, h, w, E, x, inc) /\ Lacking(n, w, inc)
    /\ DOMAIN n.pending = DOMAIN h.pending \cup Shorter(w, E, x, inc)

\* One seed: the edges that leave x carry inc, whether or not it had to grow.
LEMMA SeedOne ==
    ASSUME NEW w, NEW h, NEW E, HeapOf(h, E), NEW x, NEW inc \in Nat,
           cp[w][x] \in Nat, Stepped(x) \in Nat,
           \A e \in E : cp[w][Far(w, e)] \in Nat,
           \A e \in E : Near(w, e) = x => /\ cp[w][x] + Stepped(x) <= h.key[e]
                                          /\ cp[w][x] + Stepped(x) <= cp[w][Far(w, e)],
           Lacking(h, w, inc)
    PROVE  SeedRaised(Seed(w, h, E, x, inc), h, w, E, x, inc)
<1> DEFINE n == Seed(w, h, E, x, inc)
           far == Shorter(w, E, x, inc)
<1>1. CASE inc > cp[w][x] + Stepped(x)
  <2>1. Raised(cpHasIncreased(w, h, E, x, inc), h, w, E, x, inc)
    BY Increased
  <2>2. n = cpHasIncreased(w, h, E, x, inc)
    BY <1>1 DEF Seed
  <2> HIDE DEF n
  <2>3. HeapOf(n, E) /\ n.seen = h.seen /\ KeysRaised(n, h, w, E, x, inc) /\ GrowthsRaised(n, h, w, E, x, inc)
    BY <2>1, <2>2 DEF Raised
  <2>4. DOMAIN n.pending = DOMAIN h.pending \cup far
    BY <2>3 DEF GrowthsRaised
  <2>5. Lacking(n, w, inc)
    BY <2>3 DEF GrowthsRaised, Lacking
  <2> QED
    BY <2>3, <2>4, <2>5 DEF n, SeedRaised
<1>2. CASE ~(inc > cp[w][x] + Stepped(x))
  <2>1. n = h
    BY <1>2 DEF Seed
  <2>2. far = {}
    BY <1>2 DEF Shorter, Leaving
  <2>3. KeysRaised(h, h, w, E, x, inc)
    <3> SUFFICES ASSUME NEW e \in E, Near(w, e) = x PROVE inc <= h.key[e] /\ h.key[e] <= h.key[e]
      BY DEF KeysRaised
    <3>1. h.key[e] \in Nat
      BY DEF HeapOf
    <3> QED
      BY <1>2, <3>1
  <2> QED
    BY <2>1, <2>2, <2>3 DEF SeedRaised
<1> QED
  BY <1>1, <1>2

\* Both seeds: the edges that leave the two mtasks carry inc, and a relative with a shorter
\* path is pending by what it lacks.
Start(w, E) == [heap[w] EXCEPT !.key = Restrict(heap[w].key, E), !.seen = {}]

SeedsRaised(n, w, E, r, d, inc) ==
    /\ HeapOf(n, E) /\ n.seen = {}
    /\ DOMAIN n.pending \subseteq mts
    /\ \A e \in E : IF Near(w, e) \in {r, d}
                    THEN n.key[e] \in {heap[w].key[e], inc} /\ heap[w].key[e] <= n.key[e] /\ inc <= n.key[e]
                    ELSE n.key[e] = heap[w].key[e]
    /\ \A m \in DOMAIN n.pending :
         /\ n.pending[m] = inc - cp[w][m]
         /\ \E e \in E : Near(w, e) \in {r, d} /\ Far(w, e) = m /\ cp[w][m] < inc
    /\ \A e \in E : Near(w, e) \in {r, d} /\ cp[w][Far(w, e)] < inc => Far(w, e) \in DOMAIN n.pending

LEMMA Seeded ==
    ASSUME Types, PathTypes, Keys, pc # "propagate", NEW w \in Way, NEW E, E \subseteq g,
           NEW r \in mts, NEW d \in mts, r # d, NEW inc \in Nat,
           NEW n, n = Seed(w, Seed(w, Start(w, E), E, r, inc), E, d, inc)
    PROVE  SeedsRaised(n, w, E, r, d, inc)
<1> DEFINE start == Start(w, E)
<1>1. /\ \A e \in g : Near(w, e) \in mts /\ Far(w, e) \in mts /\ heap[w].key[e] \in Nat
      /\ \A m \in mts : cp[w][m] \in Nat /\ Stepped(m) \in Nat
      /\ heap[w] = [key |-> heap[w].key, pending |-> heap[w].pending, seen |-> heap[w].seen]
      /\ heap[w].pending \in [DOMAIN heap[w].pending -> Nat]
      /\ DOMAIN heap[w].pending = {}
  BY PathFacts DEF PathTypes
<1> DEFINE key == [e \in E |-> heap[w].key[e]]
<1>2. key \in [E -> Nat] /\ Restrict(heap[w].key, E) = key /\ \A e \in E : key[e] = heap[w].key[e]
  BY <1>1 DEF Restrict
<1>3. \A e \in g : /\ cp[w][Near(w, e)] + Stepped(Near(w, e)) <= heap[w].key[e]
                   /\ cp[w][Near(w, e)] + Stepped(Near(w, e)) <= cp[w][Far(w, e)]
  BY PathsCover
<1>s. start = [heap[w] EXCEPT !.key = Restrict(heap[w].key, E), !.seen = {}]
  BY DEF Start
<1> HIDE DEF key, start
<1>4. /\ start = [key |-> key, pending |-> heap[w].pending, seen |-> {}]
      /\ start.key = key /\ DOMAIN start.pending = {} /\ start.seen = {}
      /\ start.pending \in [{} -> Nat]
  BY <1>1, <1>2, <1>s
<1>5. HeapOf(start, E) /\ Lacking(start, w, inc)
  BY <1>2, <1>4 DEF HeapOf, Lacking
<1>6. \A e \in E : cp[w][Far(w, e)] \in Nat
  BY <1>1
<1> DEFINE h == Seed(w, start, E, r, inc)
<1>7. SeedRaised(h, start, w, E, r, inc)
  <2>1. cp[w][r] \in Nat /\ Stepped(r) \in Nat
    BY <1>1
  <2>2. \A e \in E : Near(w, e) = r => /\ cp[w][r] + Stepped(r) <= start.key[e]
                                       /\ cp[w][r] + Stepped(r) <= cp[w][Far(w, e)]
    BY <1>2, <1>3, <1>4
  <2>3. inc \in Nat
    OBVIOUS
  <2> QED
    BY ONLY <1>5, <1>6, <2>1, <2>2, <2>3, SeedOne
<1>8. n = Seed(w, h, E, d, inc)
  BY DEF start
<1> HIDE DEF h
<1>9. \A e \in E : IF Near(w, e) = r
                   THEN h.key[e] \in {key[e], inc} /\ key[e] <= h.key[e] /\ inc <= h.key[e]
                   ELSE h.key[e] = key[e]
  BY <1>4, <1>7 DEF SeedRaised, KeysRaised
<1>10. SeedRaised(n, h, w, E, d, inc)
  <2>1. cp[w][d] \in Nat /\ Stepped(d) \in Nat
    BY <1>1
  <2>2. \A e \in E : Near(w, e) = d => /\ cp[w][d] + Stepped(d) <= h.key[e]
                                       /\ cp[w][d] + Stepped(d) <= cp[w][Far(w, e)]
    BY <1>2, <1>3, <1>9
  <2>3. inc \in Nat /\ HeapOf(h, E) /\ Lacking(h, w, inc)
    BY <1>7 DEF SeedRaised
  <2> QED
    BY ONLY <1>6, <1>8, <2>1, <2>2, <2>3, SeedOne
<1>11. \A e \in E : IF Near(w, e) = d
                    THEN n.key[e] \in {h.key[e], inc} /\ h.key[e] <= n.key[e] /\ inc <= n.key[e]
                    ELSE n.key[e] = h.key[e]
  BY <1>10 DEF SeedRaised, KeysRaised
<1>12. \A e \in E : IF Near(w, e) \in {r, d}
                    THEN n.key[e] \in {key[e], inc} /\ key[e] <= n.key[e] /\ inc <= n.key[e]
                    ELSE n.key[e] = key[e]
  BY <1>9, <1>11
<1> DEFINE A == Shorter(w, E, r, inc)
           B == Shorter(w, E, d, inc)
<1>13. /\ A \cup B \subseteq mts
       /\ \A m \in A \cup B : \E e \in E : Near(w, e) \in {r, d} /\ Far(w, e) = m /\ cp[w][m] < inc
       /\ \A e \in E : Near(w, e) \in {r, d} /\ cp[w][Far(w, e)] < inc => Far(w, e) \in A \cup B
  BY <1>1 DEF Shorter, Leaving
<1>14. DOMAIN n.pending = A \cup B /\ HeapOf(n, E) /\ n.seen = {}
  BY <1>4, <1>7, <1>10 DEF SeedRaised
<1>15. \A m \in DOMAIN n.pending : n.pending[m] = inc - cp[w][m]
  BY <1>10 DEF SeedRaised, Lacking
<1> HIDE DEF A, B
<1> QED
  BY <1>2, <1>12, <1>13, <1>14, <1>15 DEF SeedsRaised

Recipient(c) == IF cost[c.from] > cost[c.to] THEN c.from ELSE c.to
Donor(c) == IF cost[c.from] > cost[c.to] THEN c.to ELSE c.from
Rest(c) == IF c.sibling THEN g ELSE g \ {<<c.from, c.to>>}

\* Two mtasks that may be merged have no path between them but the edge that is dropped.
LEMMA MergeFacts ==
    ASSUME Inv, pc = "contract", NEW c \in Candidates, ~mergeWouldCreateCycle(c),
           NEW r, r = Recipient(c), NEW d, d = Donor(c), NEW E, E = Rest(c)
    PROVE  /\ Fit(c, mts, g) /\ r \in mts /\ d \in mts /\ r # d /\ {c.from, c.to} = {r, d}
           /\ E \subseteq g /\ IsFiniteSet(E)
           /\ \A e \in g \ E : c.sibling = FALSE /\ e = <<c.from, c.to>>
           /\ Acyclic(Fold(E, r, d)) /\ IsFiniteSet(Fold(E, r, d))
           /\ \A e \in E : ~(e[1] \in {r, d} /\ e[2] \in {r, d})
<1>0. Types /\ Order /\ Valid /\ PathTypes /\ Keys /\ pc # "propagate"
  BY DEF Inv, Coarse
<1>1. IsFiniteSet(g) /\ \A e \in g : e = <<e[1], e[2]>> /\ e[1] \in mts /\ e[2] \in mts
  BY <1>0, PathFacts DEF Way
<1>2. Acyclic(g)
  <2>1. Merged = g
    BY <1>0, NoMergeInProgress DEF Types
  <2> QED
    BY <1>0, <2>1 DEF Order
<1>3. Fit(c, mts, g)
  BY <1>0 DEF Valid
<1>4. c.from \in mts /\ c.to \in mts /\ c.sibling \in BOOLEAN
  BY <1>3 DEF Fit
<1>5. {c.from, c.to} = {r, d} /\ r \in mts /\ d \in mts
  BY <1>4 DEF Recipient, Donor
<1>6. E \subseteq g /\ IsFiniteSet(E) /\ \A e \in g \ E : c.sibling = FALSE /\ e = <<c.from, c.to>>
  <2>1. E \subseteq g /\ \A e \in g \ E : c.sibling = FALSE /\ e = <<c.from, c.to>>
    BY <1>4 DEF Rest
  <2> QED
    BY <1>1, <2>1, FS_Subset
<1>7. c.from # c.to /\ c.to \notin Reach(E, c.from) /\ c.from \notin Reach(E, c.to)
  <2>1. CASE c.sibling
    <3>1. E = g /\ E = g \ {} /\ c.from # c.to
      BY <1>3, <2>1 DEF Rest, Fit
    <3>2. ~pathExistsFrom(c.from, c.to, {}) /\ ~pathExistsFrom(c.to, c.from, {})
      BY <2>1 DEF mergeWouldCreateCycle
    <3>3. c.to \notin Reach(g \ {}, c.from) /\ c.from \notin Reach(g \ {}, c.to)
      BY <1>0, <1>4, <3>2, SearchExact
    <3> QED
      BY <3>1, <3>3
  <2>2. CASE ~c.sibling
    <3> DEFINE x == <<c.from, c.to>>
    <3>1. E = g \ {x} /\ x \in g /\ x[1] = c.from /\ x[2] = c.to
      BY <1>3, <2>2 DEF Rest, Fit
    <3>2. ~pathExistsFrom(c.from, c.to, {x})
      BY <2>2 DEF mergeWouldCreateCycle
    <3>3. c.to \notin Reach(g \ {x}, c.from)
      BY <1>0, <1>4, <3>2, SearchExact
    <3>4. c.to \in Reach(g, c.from)
      BY <1>1, <3>1, ReachEdge
    <3>5. c.from # c.to
      BY <1>2, <3>4 DEF Acyclic
    <3>6. c.from \notin Reach(E, c.to)
      <4> SUFFICES ASSUME c.from \in Reach(E, c.to) PROVE FALSE
        OBVIOUS
      <4>1. c.from \in Reach(g, c.to)
        BY <1>1, <1>6, ReachMono
      <4>2. c.from \in Reach(g, c.from)
        BY <1>1, <3>4, <4>1, ReachTrans
      <4> QED
        BY <1>2, <4>2 DEF Acyclic
    <3> QED
      BY <3>1, <3>3, <3>5, <3>6
  <2> QED
    BY <2>1, <2>2
<1>8. r # d /\ d \notin Reach(E, r) /\ r \notin Reach(E, d)
  BY <1>7 DEF Recipient, Donor
<1>9. Acyclic(E)
  <2>1. \A a : Reach(E, a) \subseteq Reach(g, a)
    BY <1>1, <1>6, ReachMono
  <2> QED
    BY <1>2, <2>1 DEF Acyclic
<1>10. Acyclic(Fold(E, r, d)) /\ IsFiniteSet(Fold(E, r, d))
  BY <1>6, <1>8, <1>9, MergeAcyclic, FiniteFold
<1>11. ASSUME NEW e \in E, e[1] \in {r, d}, e[2] \in {r, d} PROVE FALSE
  <2>1. e[2] \in Reach(E, e[1])
    BY <1>6, ReachEdge
  <2> QED
    BY <1>8, <1>9, <1>11, <2>1 DEF Acyclic
<1> QED
  BY <1>3, <1>5, <1>6, <1>8, <1>10, <1>11

\* The path to the merged mtask covers every edge that arrives at it.
LEMMA MergedPath ==
    ASSUME Types, PathTypes, Keys, pc # "propagate", NEW c, Fit(c, mts, g), NEW w \in Way
    PROVE  /\ MergedCp(w, c) \in Nat
           /\ \A e \in Rest(c) : Far(w, e) \in {c.from, c.to} => heap[w].key[e] <= MergedCp(w, c)
<1>1. /\ IsFiniteSet(g)
      /\ \A m \in mts : cp[w][m] \in Nat
      /\ \A e \in g : heap[w].key[e] \in Nat
      /\ \A e \in g : Far(w, e) \in mts
  BY PathFacts
<1>2. c.from \in mts /\ c.to \in mts /\ c.sibling \in BOOLEAN
  BY DEF Fit
<1>3. Rest(c) \subseteq g
  BY DEF Rest
<1>4. \A e \in g : heap[w].key[e] <= cp[w][Far(w, e)]
  BY PathsCover
<1>5. CASE c.sibling
  <2> DEFINE a == cp[w][c.from]
             b == cp[w][c.to]
  <2>1. MergedCp(w, c) = Max({a, b})
    BY <1>5 DEF MergedCp
  <2>2. a \in Nat /\ b \in Nat
    BY <1>1, <1>2
  <2>3. \A e \in g : Far(w, e) \in {c.from, c.to} => heap[w].key[e] <= a \/ heap[w].key[e] <= b
    BY <1>4
  <2> HIDE DEF a, b
  <2>4. MergedCp(w, c) \in Nat /\ a <= MergedCp(w, c) /\ b <= MergedCp(w, c)
    BY <2>1, <2>2, MaxOfTwo
  <2> QED
    BY <1>1, <1>3, <2>2, <2>3, <2>4
<1>6. CASE ~c.sibling
  <2> DEFINE x == <<c.from, c.to>>
             A == Arriving(w, g, Far(w, x)) \ {x}
             key == heap[w].key
             a == cp[w][Near(w, x)]
             b == Largest(key, A)
  <2>1. critPathCostWithout(w, Far(w, x), x) = b
    BY DEF critPathCostWithout, Largest
  <2>2. MergedCp(w, c) = Max({a, b})
    BY <1>6, <2>1 DEF MergedCp
  <2>3. {Near(w, x), Far(w, x)} = {c.from, c.to}
    BY DEF Near, Far
  <2>4. A \subseteq g /\ IsFiniteSet(A) /\ \A e \in A : key[e] \in Nat
    <3>1. A \subseteq g
      BY DEF Arriving
    <3> QED
      BY <1>1, <3>1, FS_Subset
  <2>5. \A e \in Rest(c) : e \in g /\ e # x /\ (Far(w, e) = Far(w, x) => e \in A)
    BY <1>6 DEF Rest, Arriving
  <2>6. a \in Nat
    BY <1>1, <1>2, <2>3
  <2> HIDE DEF A, key, x
  <2>7. b \in Nat /\ \A e \in A : key[e] <= b
    BY <2>4, LargestValue
  <2>8. \A e \in Rest(c) : Far(w, e) \in {c.from, c.to} => key[e] <= a \/ key[e] <= b
    BY <1>4, <2>3, <2>5, <2>7 DEF key
  <2> HIDE DEF a, b
  <2>9. MergedCp(w, c) \in Nat /\ a <= MergedCp(w, c) /\ b <= MergedCp(w, c)
    BY <2>2, <2>6, <2>7, MaxOfTwo
  <2> QED
    BY <1>1, <1>3, <2>6, <2>7, <2>8, <2>9 DEF key
<1> QED
  BY <1>5, <1>6

\* The path through the merged mtask.
Inclusive(w, c) == MergedCp(w, c) + stepCost(cost[Recipient(c)] + cost[Donor(c)])

LEMMA ContractStep == Inv /\ Contract => Inv'
<1> SUFFICES ASSUME Inv, Contract PROVE Inv'
  OBVIOUS
<1>1. PICK c \in DOMAIN known :
        /\ Chosen(c) /\ ~mergeWouldCreateCycle(c)
        /\ g' = Rest(c)
        /\ cost' = [cost EXCEPT ![Recipient(c)] = cost[Recipient(c)] + cost[Donor(c)]]
        /\ owner' = [v \in DOMAIN owner |-> IF owner[v] = Donor(c) THEN Recipient(c) ELSE owner[v]]
        /\ cp' = [w \in Way |-> [cp[w] EXCEPT ![Recipient(c)] = MergedCp(w, c)]]
        /\ heap' = [w \in Way |-> Seed(w, Seed(w, Start(w, Rest(c)), Rest(c), Recipient(c), Inclusive(w, c)),
                                       Rest(c), Donor(c), Inclusive(w, c))]
        /\ merge' = [recipient |-> Recipient(c), donor |-> Donor(c)]
        /\ known' = Without(known, {c})
        /\ pc' = "propagate"
        /\ UNCHANGED <<input, rank, hazards, unknown, limit, fresh, path0>>
  BY DEF Contract, Recipient, Donor, Rest, Seed, Stepped, Start, Inclusive
<1>r. PICK r : r = Recipient(c)
  OBVIOUS
<1>d. PICK d : d = Donor(c)
  OBVIOUS
<1>E. PICK E : E = Rest(c)
  OBVIOUS
<1> DEFINE F == Fold(E, r, d)
           M(w) == MergedCp(w, c)
           inc(w) == Inclusive(w, c)
<1>0. Types /\ Order /\ Groups /\ Valid /\ PathTypes /\ Keys /\ Budget /\ pc = "contract" /\ pc # "propagate"
  BY <1>1 DEF Inv, Coarse, Chosen
<1>2. c \in Candidates
  BY DEF Candidates
<1>3. /\ Fit(c, mts, g) /\ r \in mts /\ d \in mts /\ r # d /\ {c.from, c.to} = {r, d}
      /\ E \subseteq g /\ IsFiniteSet(E)
      /\ \A e \in g \ E : c.sibling = FALSE /\ e = <<c.from, c.to>>
      /\ Acyclic(F) /\ IsFiniteSet(F)
      /\ \A e \in E : ~(e[1] \in {r, d} /\ e[2] \in {r, d})
  BY <1>0, <1>1, <1>r, <1>d, <1>E, <1>2, MergeFacts
<1>4. /\ Exit(input) \in Nat /\ IsFiniteSet(mts) /\ IsFiniteSet(g) /\ g \subseteq mts \X mts
      /\ \A e \in g : e = <<e[1], e[2]>> /\ e[1] \in mts /\ e[2] \in mts
      /\ cost \in [mts -> Nat] /\ limit \in Nat /\ path0 \in Nat
  BY <1>0, PathFacts DEF Way, Types
<1>5. Merged = g /\ Nodes = mts /\ \A m : Into(m) = m
  BY <1>0, <1>4, NoMergeInProgress
<1>6. \A w \in Way : /\ M(w) \in Nat
                     /\ \A e \in E : Far(w, e) \in {r, d} => heap[w].key[e] <= M(w)
  BY <1>0, <1>E, <1>3, MergedPath
<1>7. /\ stepCost(cost[r] + cost[d]) \in Nat
      /\ \A w : inc(w) = M(w) + stepCost(cost[r] + cost[d])
      /\ \A w \in Way : inc(w) \in Nat
  <2>1. cost[r] + cost[d] \in Nat
    BY <1>3, <1>4
  <2>2. stepCost(cost[r] + cost[d]) \in Nat
    BY <2>1, StepCosts
  <2>3. \A w : inc(w) = M(w) + stepCost(cost[r] + cost[d])
    BY <1>r, <1>d DEF Inclusive
  <2> QED
    BY <1>6, <2>2, <2>3
<1>8. \A w \in Way :
        /\ HeapOf(heap'[w], E) /\ heap'[w].seen = {}
        /\ DOMAIN heap'[w].pending \subseteq mts
        /\ \A e \in E : IF Near(w, e) \in {r, d}
                        THEN heap'[w].key[e] \in {heap[w].key[e], inc(w)} /\ heap[w].key[e] <= heap'[w].key[e] /\ inc(w) <= heap'[w].key[e]
                        ELSE heap'[w].key[e] = heap[w].key[e]
        /\ \A m \in DOMAIN heap'[w].pending :
             /\ heap'[w].pending[m] = inc(w) - cp[w][m]
             /\ \E e \in E : Near(w, e) \in {r, d} /\ Far(w, e) = m /\ cp[w][m] < inc(w)
        /\ \A e \in E : Near(w, e) \in {r, d} /\ cp[w][Far(w, e)] < inc(w) => Far(w, e) \in DOMAIN heap'[w].pending
  <2>1. ASSUME NEW w \in Way PROVE SeedsRaised(heap'[w], w, E, r, d, inc(w))
    <3> DEFINE i == inc(w)
               n == heap'[w]
    <3>1. n = Seed(w, Seed(w, Start(w, E), E, r, i), E, d, i) /\ i \in Nat
      BY <1>1, <1>r, <1>d, <1>E, <1>7
    <3>2. Types /\ PathTypes /\ Keys /\ pc # "propagate" /\ w \in Way /\ E \subseteq g /\ r \in mts /\ d \in mts /\ r # d
      BY <1>0, <1>3
    <3> HIDE DEF i, n
    <3>3. SeedsRaised(n, w, E, r, d, i)
      BY ONLY <3>1, <3>2, Seeded
    <3> QED
      BY <3>3 DEF n, i
  <2> HIDE DEF inc
  <2> QED
    BY <2>1 DEF SeedsRaised
<1>9. /\ g' = E /\ merge'.recipient = r /\ merge'.donor = d /\ pc' = "propagate"
      /\ mts' = mts /\ cost' \in [mts -> Nat] /\ cost'[r] = cost[r] + cost[d]
      /\ \A m \in mts : m # r => cost'[m] = cost[m]
  <2>1. cost' = [cost EXCEPT ![r] = cost[r] + cost[d]] /\ g' = E /\ merge' = [recipient |-> r, donor |-> d]
    BY <1>1, <1>r, <1>d, <1>E
  <2> QED
    BY <1>1, <1>3, <1>4, <2>1 DEF mts
<1>10. \A m : Into(m)' = IF m = d THEN r ELSE m
  BY <1>9 DEF Into
<1>11. Merged' = F
  BY <1>9, <1>10 DEF Merged, Fold
<1>12. Nodes' = mts \ {d}
  BY <1>3, <1>9, <1>10 DEF Nodes
<1>13. \A w \in Way : cp'[w] \in [mts -> Nat] /\ cp'[w][r] = M(w) /\ \A m \in mts : m # r => cp'[w][m] = cp[w][m]
  <2> SUFFICES ASSUME NEW w \in Way
               PROVE  cp'[w] \in [mts -> Nat] /\ cp'[w][r] = M(w) /\ \A m \in mts : m # r => cp'[w][m] = cp[w][m]
    OBVIOUS
  <2>1. cp[w] \in [mts -> Nat] /\ M(w) \in Nat /\ r \in mts
    BY <1>0, <1>3, <1>6 DEF PathTypes
  <2> DEFINE q == M(w)
  <2>2. cp'[w] = [cp[w] EXCEPT ![r] = q] /\ q \in Nat
    BY <1>1, <1>r, <2>1
  <2> HIDE DEF q
  <2>3. cp'[w] \in [mts -> Nat] /\ cp'[w][r] = q /\ \A m \in mts : m # r => cp'[w][m] = cp[w][m]
    BY <2>1, <2>2
  <2> QED
    BY <2>3 DEF q
<1>14. Stepped(r)' = stepCost(cost[r] + cost[d]) /\ \A m \in mts : m # r => Stepped(m)' = Stepped(m)
  BY <1>9 DEF Stepped
<1> HIDE DEF F, M, inc
<1>15. Types'
  <2>1. \A v \in Logic : owner'[v] \in Nodes'
    <3>1. \A v \in Logic : v \in DOMAIN owner /\ owner[v] \in mts
      BY <1>0, <1>5 DEF Types
    <3>2. \A v \in DOMAIN owner : owner'[v] = IF owner[v] = d THEN r ELSE owner[v]
      BY <1>1, <1>r, <1>d
    <3> QED
      BY <1>3, <1>12, <3>1, <3>2
  <2>2. Logic' = Logic /\ DOMAIN owner' = DOMAIN owner /\ input' = input /\ limit' = limit /\ path0' = path0
    BY <1>1 DEF Logic
  <2>3. E \subseteq mts \X mts
    BY <1>3, <1>4
  <2> QED
    BY <1>0, <1>3, <1>9, <2>1, <2>2, <2>3 DEF Types, Coarse
<1>16. Order'
  <2> DEFINE f == [m \in mts |-> IF m = d THEN r ELSE m]
  <2>1. \A e \in g : Leads(F, f[e[1]], f[e[2]])
    <3> SUFFICES ASSUME NEW e \in g PROVE Leads(F, f[e[1]], f[e[2]])
      OBVIOUS
    <3>1. CASE e \in E
      <4> DEFINE x == <<f[e[1]], f[e[2]]>>
      <4>1. x \in F
        BY <1>4, <3>1 DEF F, Fold
      <4>2. x[2] \in Reach(F, x[1])
        BY <1>3, <4>1, ReachEdge
      <4> QED
        BY <4>2 DEF Leads
    <3>2. CASE e \notin E
      <4>1. e = <<c.from, c.to>>
        BY <1>3, <3>2
      <4>2. e[1] \in {r, d} /\ e[2] \in {r, d}
        BY <1>3, <4>1
      <4>3. f[e[1]] = f[e[2]]
        BY <1>3, <4>2
      <4> QED
        BY <4>3 DEF Leads
    <3> QED
      BY <3>1, <3>2
  <2>2. \A v \in Logic : owner'[v] = f[owner[v]]
    <3>1. \A v \in Logic : v \in DOMAIN owner /\ owner[v] \in mts
      BY <1>0, <1>5 DEF Types
    <3>2. \A v \in DOMAIN owner : owner'[v] = IF owner[v] = d THEN r ELSE owner[v]
      BY <1>1, <1>r, <1>d
    <3> QED
      BY <3>1, <3>2
  <2> HIDE DEF f
  <2>3. ASSUME NEW a \in Logic, NEW b \in Logic, Before(a, b) PROVE Before(a, b)'
    <3>1. Leads(g, owner[a], owner[b])
      BY <1>5, <2>3 DEF Before
    <3>2. Leads(F, f[owner[a]], f[owner[b]])
      BY <1>3, <1>4, <2>1, <3>1, ReachImage
    <3> QED
      BY <1>11, <2>2, <3>2 DEF Before
  <2>4. input' = input /\ Handled' = Handled /\ Acyclic(Merged')
    BY <1>1, <1>3, <1>11 DEF Handled
  <2>5. /\ \A k \in DOMAIN input.variables : /\ input.variables[k].writers \subseteq Logic
                                             /\ input.variables[k].readers \subseteq Logic
        /\ \A k \in Handled : input.hazards[k] \subseteq Logic
    BY <1>0, LogicOfInput
  <2> QED
    BY <1>0, <2>3, <2>4, <2>5 DEF Order
<1>17. Groups'
  <2>1. Logic' = Logic
    BY <1>1 DEF Logic
  <2> QED
    BY <1>0, <1>1, <2>1 DEF Groups
<1>18. Valid'
  <2>1. DOMAIN known' = DOMAIN known \ {c} /\ unknown' = unknown
    BY <1>1 DEF Without, Restrict
  <2>2. Candidates' = Candidates \ {c} /\ DOMAIN known' \cap unknown' = {}
    BY <1>0, <2>1 DEF Candidates, Valid
  <2>3. ASSUME NEW x \in Candidates \ {c} PROVE Fit(x, mts, E)
    <3>1. Fit(x, mts, g)
      BY <1>0 DEF Valid
    <3>2. ASSUME ~x.sibling, <<x.from, x.to>> \notin E PROVE FALSE
      <4>1. <<x.from, x.to>> \in g \ E
        BY <3>1, <3>2 DEF Fit
      <4>2. c.sibling = FALSE /\ <<x.from, x.to>> = <<c.from, c.to>>
        BY <1>3, <4>1
      <4>3. /\ x \in [sibling : BOOLEAN, from : mts, to : mts] /\ c \in [sibling : BOOLEAN, from : mts, to : mts]
        BY <1>3, <3>1 DEF Fit
      <4>4. x.sibling = FALSE /\ x.from = c.from /\ x.to = c.to
        BY <3>2, <4>2, <4>3
      <4>5. x = c
        BY <4>2, <4>3, <4>4
      <4> QED
        BY <4>5
    <3> QED
      BY <3>1, <3>2 DEF Fit
  <2> QED
    BY <1>9, <2>2, <2>3 DEF Valid
\* The types of the paths after the merge, and what is due.
<1>19. PathTypes'
  <2>1. cp' \in [Way -> [mts -> Nat]]
    BY <1>1, <1>13
  <2> DEFINE P == UNION {[D -> Nat] : D \in SUBSET mts}
             G == [E -> Nat]
             S == SUBSET mts
  <2>2. ASSUME NEW w \in Way PROVE heap'[w] \in [key : G, pending : P, seen : S]
    <3>1. /\ heap'[w] = [key |-> heap'[w].key, pending |-> heap'[w].pending, seen |-> heap'[w].seen]
          /\ heap'[w].key \in G /\ heap'[w].seen \in S
      BY <1>8 DEF HeapOf
    <3>2. heap'[w].pending \in P
      <4> DEFINE p == heap'[w].pending
      <4>1. p \in [DOMAIN p -> Nat] /\ DOMAIN p \in SUBSET mts
        BY <1>8 DEF HeapOf
      <4> HIDE DEF p
      <4>2. p \in P
        BY <4>1
      <4> QED
        BY <4>2 DEF p
    <3> HIDE DEF P, G, S
    <3> QED
      BY <3>1, <3>2
  <2> HIDE DEF P, G, S
  <2>3. heap' \in [Way -> [key : G, pending : P, seen : S]]
    BY <1>1, <2>2
  <2> QED
    BY <1>9, <2>1, <2>3 DEF PathTypes, P, G, S
<1>20. \A e \in E : e \in g /\ \A w \in Way : Near(w, e) \in mts /\ Far(w, e) \in mts /\ (Near(w, e) \in {r, d} => Far(w, e) \notin {r, d})
  BY <1>3, <1>4 DEF Near, Far, Way
<1>21. ASSUME NEW w \in Way
       PROVE  /\ \A m \in mts : cp[w][m] \in Nat /\ Stepped(m) \in Nat
              /\ \A e \in g : heap[w].key[e] \in Nat
              /\ M(w) \in Nat /\ inc(w) \in Nat /\ r \notin DOMAIN heap'[w].pending /\ d \notin DOMAIN heap'[w].pending
              /\ Due(w, r)' = M(w)
              /\ \A m \in mts \ {r, d} : Due(w, m)' = IF m \in DOMAIN heap'[w].pending THEN inc(w) ELSE cp[w][m]
  <2>1. /\ \A m \in mts : cp[w][m] \in Nat /\ Stepped(m) \in Nat
        /\ \A e \in g : heap[w].key[e] \in Nat
    BY <1>0, PathFacts
  <2>2. r \notin DOMAIN heap'[w].pending /\ d \notin DOMAIN heap'[w].pending
    BY <1>8, <1>20
  <2>3. Due(w, r)' = M(w) + 0
    BY <1>13, <2>2 DEF Due, Pend
  <2>4. ASSUME NEW m \in mts \ {r, d}
        PROVE  Due(w, m)' = IF m \in DOMAIN heap'[w].pending THEN inc(w) ELSE cp[w][m]
    <3>1. cp'[w][m] = cp[w][m] /\ cp[w][m] \in Nat /\ inc(w) \in Nat
      BY <1>7, <1>13, <2>1
    <3>2. CASE m \in DOMAIN heap'[w].pending
      <4>1. Due(w, m)' = cp[w][m] + (inc(w) - cp[w][m])
        BY <1>8, <3>1, <3>2 DEF Due, Pend
      <4> QED
        BY <3>1, <3>2, <4>1
    <3>3. CASE m \notin DOMAIN heap'[w].pending
      <4>1. Due(w, m)' = cp[w][m] + 0
        BY <3>1, <3>3 DEF Due, Pend
      <4> QED
        BY <3>1, <3>3, <4>1
    <3> QED
      BY <3>2, <3>3
  <2>5. M(w) \in Nat /\ inc(w) \in Nat
    BY <1>6, <1>7
  <2> QED
    BY <2>1, <2>2, <2>3, <2>4, <2>5
<1>22. \A w \in Way, e \in g : /\ cp[w][Near(w, e)] + Stepped(Near(w, e)) <= heap[w].key[e]
                              /\ heap[w].key[e] <= cp[w][Far(w, e)]
                              /\ cp[w][Near(w, e)] + Stepped(Near(w, e)) <= cp[w][Far(w, e)]
  BY <1>0, PathsCover
<1>23. Keys'
  <2> SUFFICES ASSUME NEW w \in Way, NEW e \in E
               PROVE  /\ cp'[w][Into(Near(w, e))'] + Stepped(Into(Near(w, e)))' <= heap'[w].key[e]
                      /\ heap'[w].key[e] <= Due(w, Into(Far(w, e)))'
    BY <1>9 DEF Keys
  <2> DEFINE u == Near(w, e)
             v == Far(w, e)
             k == heap[w].key[e]
             kk == heap'[w].key[e]
             i == inc(w)
  <2>1. u \in mts /\ v \in mts /\ (u \in {r, d} => v \notin {r, d}) /\ e \in g
    BY <1>20
  <2>2. /\ k \in Nat /\ i \in Nat /\ cp[w][u] \in Nat /\ Stepped(u) \in Nat /\ cp[w][v] \in Nat /\ M(w) \in Nat
        /\ cp[w][u] + Stepped(u) <= k /\ k <= cp[w][v]
    BY <1>21, <1>22, <2>1
  <2>3. IF u \in {r, d} THEN kk \in {k, i} /\ k <= kk /\ i <= kk ELSE kk = k
    BY <1>8
  <2>4. Into(u)' = (IF u = d THEN r ELSE u) /\ Into(v)' = (IF v = d THEN r ELSE v)
    BY <1>10
  <2>5. v \in {r, d} => k <= M(w)
    BY <1>6
  <2>6. u \in {r, d} /\ cp[w][v] < i => v \in DOMAIN heap'[w].pending
    BY <1>8
  <2>7. /\ Due(w, r)' = M(w)
        /\ v \notin {r, d} => Due(w, v)' = IF v \in DOMAIN heap'[w].pending THEN i ELSE cp[w][v]
        /\ v \in DOMAIN heap'[w].pending => cp[w][v] < i
    BY <1>8, <1>21, <2>1
  <2> DEFINE du == Due(w, Into(v))'
             nu == cp'[w][Into(u)'] + Stepped(Into(u))'
  <2>8. u \in {r, d} => nu = i
    <3>1. u \in {r, d} => Into(u)' = r
      BY <2>4
    <3>2. cp'[w][r] + Stepped(r)' = i
      BY <1>7, <1>13, <1>14
    <3>3. u \in {r, d} => nu = cp'[w][r] + Stepped(r)'
      BY <1>9, <3>1 DEF Stepped
    <3> QED
      BY <3>2, <3>3
  <2>9. u \notin {r, d} => nu = cp[w][u] + Stepped(u)
    <3>1. u \notin {r, d} => Into(u)' = u
      BY <2>4
    <3>2. u \notin {r, d} => cp'[w][u] = cp[w][u] /\ Stepped(u)' = Stepped(u)
      BY <1>13, <1>14, <2>1
    <3>3. u \notin {r, d} => nu = cp'[w][u] + Stepped(u)'
      BY <3>1 DEF Stepped
    <3> QED
      BY <3>2, <3>3
  <2>10. du = IF v \in {r, d} THEN M(w) ELSE IF v \in DOMAIN heap'[w].pending THEN i ELSE cp[w][v]
    <3>1. CASE v \in {r, d}
      <4>1. Into(v)' = r
        BY <2>4, <3>1
      <4>2. du = Due(w, r)'
        BY <4>1 DEF Due, Pend
      <4> QED
        BY <2>7, <3>1, <4>2
    <3>2. CASE v \notin {r, d}
      <4>1. Into(v)' = v
        BY <2>4, <3>2
      <4>2. du = Due(w, v)'
        BY <4>1 DEF Due, Pend
      <4> QED
        BY <2>7, <3>2, <4>2
    <3> QED
      BY <3>1, <3>2
  <2> HIDE DEF u, v, k, kk, i, du, nu
  <2>11. nu <= kk /\ kk <= du
    BY <2>1, <2>2, <2>3, <2>5, <2>6, <2>7, <2>8, <2>9, <2>10
  <2> QED
    BY <2>11 DEF u, v, kk, nu, du
\* The budget: the score of the merge bounds the path through it.
<1>24. M("fwd") + M("rev") + stepCost(cost[r] + cost[d]) <= limit
  <2> DEFINE a == M("fwd")
             b == M("rev")
             s == stepCost(cost[r] + cost[d])
             t == IF c.sibling THEN 0 ELSE 1
  <2>1. cost[c.from] + cost[c.to] = cost[r] + cost[d]
    <3>1. cost[c.from] \in Nat /\ cost[c.to] \in Nat /\ ((c.from = r /\ c.to = d) \/ (c.from = d /\ c.to = r))
      BY <1>3, <1>4
    <3> QED
      BY <3>1
  <2>2. Score(c) = a + b + s + t /\ Score(c) <= limit
    BY <1>1, <2>1 DEF Score, Chosen, M
  <2>3. a \in Nat /\ b \in Nat /\ s \in Nat /\ t \in Nat
    BY <1>6, <1>7 DEF Way
  <2> HIDE DEF a, b, s, t
  <2>4. a + b + s <= limit
    BY <1>4, <2>2, <2>3
  <2> QED
    BY <2>4 DEF a, b, s
<1>25. ASSUME NEW w \in Way, NEW o \in Way, w # o, NEW m \in DOMAIN heap'[w].pending
       PROVE  /\ m \in mts \ {r, d} /\ m \notin DOMAIN heap'[o].pending
              /\ cp[o][m] + Stepped(m) <= M(o)
              /\ Behind(w, r, m)'
  <2>1. PICK e \in E : Near(w, e) \in {r, d} /\ Far(w, e) = m
    BY <1>8
  <2>2. m \in mts \ {r, d}
    BY <1>20, <2>1
  <2>3. Near(o, e) = m /\ Far(o, e) \in {r, d}
    BY <1>25, <2>1 DEF Near, Far, Way
  <2>4. cp[o][m] + Stepped(m) <= M(o)
    <3>1. cp[o][m] + Stepped(m) <= heap[o].key[e] /\ heap[o].key[e] <= M(o)
      BY <1>6, <1>20, <1>22, <2>3
    <3>2. cp[o][m] \in Nat /\ Stepped(m) \in Nat /\ heap[o].key[e] \in Nat /\ M(o) \in Nat
      BY <1>20, <1>21, <2>2
    <3> QED
      BY <3>1, <3>2
  <2>5. IF w = "fwd" THEN m \in Reach(F, r) ELSE r \in Reach(F, m)
    <3>1. e = <<e[1], e[2]>>
      BY <1>4, <1>20
    <3>2. CASE w = "fwd"
      <4>1. e[1] \in {r, d} /\ e[2] = m
        BY <2>1, <3>2 DEF Near, Far
      <4>2. <<r, m>> \in F
        BY <2>2, <4>1 DEF F, Fold
      <4>3. <<r, m>>[2] \in Reach(F, <<r, m>>[1])
        BY <1>3, <4>2, ReachEdge
      <4> QED
        BY <3>2, <4>3
    <3>3. CASE w # "fwd"
      <4>1. e[2] \in {r, d} /\ e[1] = m
        BY <2>1, <3>3 DEF Near, Far
      <4>2. <<m, r>> \in F
        BY <2>2, <4>1 DEF F, Fold
      <4>3. <<m, r>>[2] \in Reach(F, <<m, r>>[1])
        BY <1>3, <4>2, ReachEdge
      <4> QED
        BY <3>3, <4>3
    <3> QED
      BY <3>2, <3>3
  <2>6. m \notin DOMAIN heap'[o].pending
    <3> SUFFICES ASSUME m \in DOMAIN heap'[o].pending PROVE FALSE
      OBVIOUS
    <3>1. PICK x \in E : Near(o, x) \in {r, d} /\ Far(o, x) = m
      BY <1>8
    <3>2. IF w = "fwd" THEN <<m, r>> \in F ELSE <<r, m>> \in F
      BY <1>25, <2>2, <3>1 DEF F, Fold, Near, Far, Way
    <3>3. IF w = "fwd" THEN r \in Reach(F, m) ELSE m \in Reach(F, r)
      <4>1. \A a, b : <<a, b>> \in F => b \in Reach(F, a)
        <5>1. \A x1 \in F : x1[2] \in Reach(F, x1[1])
          BY <1>3, ReachEdge
        <5> QED
          BY <5>1
      <4> QED
        BY <3>2, <4>1
    <3>4. r \in Reach(F, r)
      BY <1>3, <2>5, <3>3, ReachTrans
    <3> QED
      BY <1>3, <3>4 DEF Acyclic
  <2>7. Behind(w, r, m)'
    BY <1>11, <2>5 DEF Behind
  <2> QED
    BY <2>2, <2>4, <2>6, <2>7
<1>26. Budget'
  <2> DEFINE B == Max({path0, limit})
             s == stepCost(cost[r] + cost[d])
  <2>0. B \in Nat /\ limit <= B /\ limit \in Nat
    BY <1>4, MaxOfTwo
  <2> SUFFICES ASSUME NEW m \in mts \ {d} PROVE Due("fwd", m)' + Stepped(m)' + Due("rev", m)' <= B
    BY <1>1, <1>12 DEF Budget
  <2>1. /\ M("fwd") \in Nat /\ M("rev") \in Nat /\ s \in Nat /\ M("fwd") + M("rev") + s <= limit
        /\ inc("fwd") = M("fwd") + s /\ inc("rev") = M("rev") + s
    BY <1>6, <1>7, <1>24 DEF Way
  <2>2. CASE m = r
    <3>1. Due("fwd", m)' = M("fwd") /\ Due("rev", m)' = M("rev") /\ Stepped(m)' = s
      BY <1>14, <1>21, <2>2 DEF Way
    <3> HIDE DEF B, s
    <3> QED
      BY <2>0, <2>1, <3>1
  <2>3. CASE m # r
    <3>1. /\ Stepped(m)' = Stepped(m) /\ Stepped(m) \in Nat /\ cp["fwd"][m] \in Nat /\ cp["rev"][m] \in Nat
          /\ Due("fwd", m)' = IF m \in DOMAIN heap'["fwd"].pending THEN inc("fwd") ELSE cp["fwd"][m]
          /\ Due("rev", m)' = IF m \in DOMAIN heap'["rev"].pending THEN inc("rev") ELSE cp["rev"][m]
      BY <1>14, <1>21, <2>3 DEF Way
    <3>2. m \in DOMAIN heap'["fwd"].pending => m \notin DOMAIN heap'["rev"].pending /\ cp["rev"][m] + Stepped(m) <= M("rev")
      BY <1>25 DEF Way
    <3>3. m \in DOMAIN heap'["rev"].pending => cp["fwd"][m] + Stepped(m) <= M("fwd")
      BY <1>25 DEF Way
    <3>4. cp["fwd"][m] + Stepped(m) + cp["rev"][m] <= B
      <4>1. Due("fwd", m) + Stepped(m) + Due("rev", m) <= B
        BY <1>0, <1>5 DEF Budget
      <4>2. Due("fwd", m) = cp["fwd"][m] + 0 /\ Due("rev", m) = cp["rev"][m] + 0
        BY <1>0 DEF PathTypes, Due, Pend, Way
      <4> HIDE DEF B
      <4> QED
        BY <2>0, <3>1, <4>1, <4>2
    <3> HIDE DEF B, s
    <3> QED
      BY <2>0, <2>1, <3>1, <3>2, <3>3, <3>4
  <2> QED
    BY <2>2, <2>3
<1>27. Pending'
  <2>1. ASSUME NEW w \in Way, NEW m \in DOMAIN heap'[w].pending
        PROVE  /\ Behind(w, r, m)'
               /\ m \notin heap'[w].seen
               /\ \E e \in E : Far(w, e) = m /\ heap'[w].key[e] = Due(w, m)'
    <3>1. \E o \in Way : w # o
      BY DEF Way
    <3>2. Behind(w, r, m)' /\ m \in mts \ {r, d}
      BY <1>25, <3>1
    <3>3. PICK e \in E : Near(w, e) \in {r, d} /\ Far(w, e) = m /\ cp[w][m] < inc(w)
      BY <1>8
    <3>4. heap'[w].key[e] \in {heap[w].key[e], inc(w)} /\ inc(w) <= heap'[w].key[e]
      BY <1>8, <3>3
    <3>5. heap[w].key[e] <= cp[w][m] /\ heap[w].key[e] \in Nat /\ cp[w][m] \in Nat /\ inc(w) \in Nat
      BY <1>20, <1>21, <1>22, <3>2, <3>3
    <3>6. heap'[w].key[e] = inc(w)
      BY <3>3, <3>4, <3>5
    <3>7. Due(w, m)' = inc(w)
      BY <1>21, <3>2
    <3> QED
      BY <1>8, <3>2, <3>3, <3>6, <3>7
  <2>2. ASSUME NEW w \in Way, NEW e \in E, {Near(w, e), Far(w, e)} \cap {r, d} = {}
        PROVE  cp'[w][Near(w, e)] + Stepped(Near(w, e))' <= cp'[w][Far(w, e)]
    <3> DEFINE u == Near(w, e)
               v == Far(w, e)
    <3>1. u \in mts /\ v \in mts /\ u # r /\ v # r /\ cp[w][u] + Stepped(u) <= cp[w][v]
      BY <1>20, <1>22, <2>2
    <3>2. cp'[w][u] = cp[w][u] /\ cp'[w][v] = cp[w][v] /\ Stepped(u)' = Stepped(u)
      BY <1>13, <1>14, <3>1
    <3> QED
      BY <3>1, <3>2
  <2>3. \A w \in Way : heap'[w].seen = {}
    BY <1>8
  <2> QED
    BY <1>9, <2>1, <2>2, <2>3 DEF Pending
<1> QED
  BY <1>9, <1>15, <1>16, <1>17, <1>18, <1>19, <1>23, <1>26, <1>27 DEF Inv, Coarse

(***************************************************************************)
(* PropagateCp                                                             *)
(***************************************************************************)

\* While a merge is in progress the graph is folded.
LEMMA MergeInProgress ==
    ASSUME Types, Order, pc = "propagate", NEW r, r = merge.recipient, NEW d, d = merge.donor
    PROVE  /\ r \in mts /\ d \in mts /\ r # d
           /\ \A m : Into(m) = IF m = d THEN r ELSE m
           /\ Merged = Fold(g, r, d) /\ IsFiniteSet(g) /\ IsFiniteSet(Merged) /\ Acyclic(Merged)
           /\ \A e \in g : e = <<e[1], e[2]>> /\ e[1] \in mts /\ e[2] \in mts
           /\ \A e \in Merged : e[1] # d /\ e[2] # d
           /\ Nodes = mts \ {d}
<1>1. r \in mts /\ d \in mts /\ r # d
  BY DEF Types
<1>2. \A m : Into(m) = IF m = d THEN r ELSE m
  BY DEF Into
<1>3. Exit(input) \in Nat /\ mts \subseteq 0 .. Exit(input) /\ g \subseteq mts \X mts
  BY InputFacts DEF Types
<1>4. IsFiniteSet(g) /\ \A e \in g : e = <<e[1], e[2]>> /\ e[1] \in mts /\ e[2] \in mts
  BY <1>3, FiniteGraph
<1>5. Merged = Fold(g, r, d)
  BY <1>2 DEF Merged, Fold
<1>6. IsFiniteSet(Merged)
  BY <1>4, <1>5, FiniteFold
<1>7. \A e \in Merged : e[1] # d /\ e[2] # d
  BY <1>1, <1>2 DEF Merged
<1>8. Nodes = mts \ {d}
  BY <1>1, <1>2 DEF Nodes
<1> QED
  BY <1>1, <1>2, <1>4, <1>5, <1>6, <1>7, <1>8 DEF Order

\* What is behind the merged mtask is not the merged mtask, nor in front of it.
LEMMA BehindFacts ==
    ASSUME Types, Order, pc = "propagate", NEW r, r = merge.recipient, NEW d, d = merge.donor,
           NEW w \in Way, NEW x, Behind(w, r, x)
    PROVE  /\ x \notin {r, d} /\ Into(x) = x
           /\ \A o \in Way : o # w => ~Behind(o, r, x)
           /\ \A e \in g : Near(w, e) = x => Far(w, e) \notin {r, d, x} /\ Behind(w, r, Far(w, e))
<1>1. /\ r \in mts /\ d \in mts /\ r # d
      /\ \A m : Into(m) = IF m = d THEN r ELSE m
      /\ Merged = Fold(g, r, d) /\ IsFiniteSet(g) /\ IsFiniteSet(Merged) /\ Acyclic(Merged)
      /\ \A e \in g : e = <<e[1], e[2]>> /\ e[1] \in mts /\ e[2] \in mts
      /\ \A e \in Merged : e[1] # d /\ e[2] # d
  BY MergeInProgress
<1>2. x # r
  BY <1>1 DEF Behind, Acyclic
<1>3. x # d
  <2>1. d \notin Reach(Merged, r)
    <3>1. Reach(Merged, r) \subseteq {e[2] : e \in Merged}
      BY <1>1, ReachLeast
    <3> QED
      BY <1>1, <3>1
  <2>2. r \notin Reach(Merged, d)
    <3> SUFFICES ASSUME r \in Reach(Merged, d) PROVE FALSE
      OBVIOUS
    <3>1. \E e \in Merged : e[1] = d
      BY <1>1, ReachFront
    <3> QED
      BY <1>1, <3>1
  <2> QED
    BY <2>1, <2>2 DEF Behind
<1>4. ASSUME NEW o \in Way, o # w, Behind(o, r, x) PROVE FALSE
  <2>1. x \in Reach(Merged, r) /\ r \in Reach(Merged, x)
    BY <1>4 DEF Behind, Way
  <2>2. r \in Reach(Merged, r)
    BY <1>1, <2>1, ReachTrans
  <2> QED
    BY <1>1, <2>2 DEF Acyclic
<1>5. ASSUME NEW e \in g, Near(w, e) = x
      PROVE  Far(w, e) \notin {r, d, x} /\ Behind(w, r, Far(w, e))
  <2> DEFINE v == Far(w, e)
             y == Into(v)
             ee == <<Into(e[1]), Into(e[2])>>
  <2>1. ee \in Merged
    BY DEF Merged
  <2>2. ee[2] \in Reach(Merged, ee[1])
    BY <1>1, <2>1, ReachEdge
  <2>3. Into(x) = x
    BY <1>1, <1>3
  <2>4. IF w = "fwd" THEN y \in Reach(Merged, x) ELSE x \in Reach(Merged, y)
    <3>1. CASE w = "fwd"
      <4>1. ee[1] = x /\ ee[2] = y
        BY <1>5, <2>3, <3>1 DEF Near, Far
      <4> QED
        BY <2>2, <3>1, <4>1
    <3>2. CASE w # "fwd"
      <4>1. ee[2] = x /\ ee[1] = y
        BY <1>5, <2>3, <3>2 DEF Near, Far
      <4> QED
        BY <2>2, <3>2, <4>1
    <3> QED
      BY <3>1, <3>2
  <2>5. Behind(w, r, y)
    <3>1. CASE w = "fwd"
      <4>1. y \in Reach(Merged, r)
        BY <1>1, <2>4, <3>1, ReachTrans DEF Behind
      <4> QED
        BY <3>1, <4>1 DEF Behind
    <3>2. CASE w # "fwd"
      <4>1. r \in Reach(Merged, x) /\ x \in Reach(Merged, y)
        BY <2>4, <3>2 DEF Behind
      <4>2. r \in Reach(Merged, y)
        BY <1>1, <4>1, ReachTrans
      <4> QED
        BY <3>2, <4>2 DEF Behind
    <3> QED
      BY <3>1, <3>2
  <2>6. y # r /\ y # x
    BY <1>1, <2>4, <2>5 DEF Behind, Acyclic
  <2>7. v \notin {r, d} /\ y = v
    BY <1>1, <2>6
  <2> QED
    BY <2>5, <2>6, <2>7
<1>6. \A e \in g : Near(w, e) = x => Far(w, e) \notin {r, d, x} /\ Behind(w, r, Far(w, e))
  BY <1>5
<1>7. \A o \in Way : o # w => ~Behind(o, r, x)
  BY <1>4
<1>8. x \notin {r, d} /\ Into(x) = x
  BY <1>1, <1>2, <1>3
<1> QED
  BY <1>6, <1>7, <1>8

\* The mtask with the largest growth.
LEMMA MostGrownIn ==
    ASSUME NEW h, NEW x \in Nat, DOMAIN h.pending \subseteq 0 .. x, DOMAIN h.pending # {},
           \A o \in DOMAIN h.pending : h.pending[o] \in Nat
    PROVE  /\ MostGrown(h) \in DOMAIN h.pending
           /\ \A o \in DOMAIN h.pending : h.pending[o] <= h.pending[MostGrown(h)]
<1> DEFINE D == DOMAIN h.pending
           f == h.pending
           S == {f[o] : o \in D}
           most == {m \in D : \A o \in D : f[o] <= f[m]}
<1>1. IsFiniteSet(D)
  <2>1. IsFiniteSet(0 .. x)
    BY FS_Interval
  <2> QED
    BY <2>1, FS_Subset
<1>2. \A o \in D : f[o] \in Nat
  OBVIOUS
<1> HIDE DEF D, f
<1>3. IsFiniteSet(S)
  BY <1>1, FiniteImage
<1>4. S \subseteq Nat /\ S # {}
  BY <1>2 DEF D
<1>5. Max(S) \in S /\ \A y \in S : y <= Max(S)
  BY <1>3, <1>4, MaxOfNats
<1>6. most # {}
  <2>1. PICK m \in D : f[m] = Max(S)
    BY <1>5
  <2>2. \A o \in D : f[o] <= f[m]
    BY <1>5, <2>1
  <2> QED
    BY <2>1, <2>2
<1>7. most \subseteq Nat /\ IsFiniteSet(most)
  <2>1. most \subseteq D /\ D \subseteq Nat
    BY DEF D
  <2> QED
    BY <1>1, <2>1, FS_Subset
<1> HIDE DEF most
<1>8. Max(most) \in most
  BY <1>6, <1>7, MaxOfNats
<1>9. MostGrown(h) = Max(most)
  BY DEF MostGrown, most, D, f
<1>10. MostGrown(h) \in most
  BY <1>8, <1>9
<1> QED
  BY <1>10 DEF most, D, f

LEMMA PropagateStep ==
    ASSUME Inv, NEW w \in Way, Propagate(w)
    PROVE  Inv'
<1>0. Types /\ Order /\ Groups /\ Valid /\ PathTypes /\ Keys /\ Budget /\ Pending /\ pc = "propagate"
  BY DEF Inv, Propagate, Coarse
<1>r. PICK r : r = merge.recipient
  OBVIOUS
<1>d. PICK d : d = merge.donor
  OBVIOUS
<1>m. PICK m : m = MostGrown(heap[w])
  OBVIOUS
<1> DEFINE pend == heap[w].pending
           D == DOMAIN pend
           new == cp[w][m] + pend[m]
           inc == new + Stepped(m)
           h == [heap[w] EXCEPT !.pending = Without(heap[w].pending, {m}),
                                !.seen = heap[w].seen \cup {m}]
           far == Shorter(w, g, m, inc)
           n == cpHasIncreased(w, h, g, m, inc)
<1>1. /\ D # {}
      /\ cp' = [cp EXCEPT ![w][m] = new]
      /\ heap' = [heap EXCEPT ![w] = n]
      /\ UNCHANGED <<input, pc, g, cost, owner, rank, hazards, known, unknown, limit, before,
                     fresh, merge, path0>>
  BY <1>m DEF Propagate, Stepped
<1>2. /\ Exit(input) \in Nat /\ mts \subseteq 0 .. Exit(input) /\ IsFiniteSet(g) /\ g \subseteq mts \X mts
      /\ limit \in Nat /\ path0 \in Nat
      /\ \A o \in Way :
          /\ \A e \in g : Near(o, e) \in mts /\ Far(o, e) \in mts
          /\ cp[o] \in [mts -> Nat]
          /\ \A x \in mts : cp[o][x] \in Nat /\ Stepped(x) \in Nat /\ Pend(o, x) \in Nat /\ Due(o, x) \in Nat
          /\ heap[o].key \in [g -> Nat]
          /\ \A e \in g : heap[o].key[e] \in Nat
          /\ DOMAIN heap[o].pending \subseteq mts
          /\ heap[o].pending \in [DOMAIN heap[o].pending -> Nat]
          /\ heap[o].seen \subseteq mts
          /\ heap[o] = [key |-> heap[o].key, pending |-> heap[o].pending, seen |-> heap[o].seen]
  BY <1>0, PathFacts DEF Types, Way
<1>3. /\ r \in mts /\ d \in mts /\ r # d
      /\ \A x : Into(x) = IF x = d THEN r ELSE x
      /\ Nodes = mts \ {d}
  BY <1>0, <1>r, <1>d, MergeInProgress
<1>4. m \in D /\ m \in mts /\ (\A o \in D : pend[o] <= pend[m]) /\ (\A o \in D : pend[o] \in Nat) /\ D \subseteq mts
  <2>1. D \subseteq mts /\ \A o \in D : pend[o] \in Nat
    BY <1>2
  <2>2. D \subseteq 0 .. Exit(input)
    BY <1>2, <2>1
  <2>3. MostGrown(heap[w]) \in D /\ \A o \in D : pend[o] <= pend[MostGrown(heap[w])]
    BY <1>1, <1>2, <2>1, <2>2, MostGrownIn
  <2> QED
    BY <1>m, <2>1, <2>3
<1>5. \A o \in Way : \A x \in DOMAIN heap[o].pending :
        /\ Behind(o, r, x) /\ x \notin heap[o].seen
        /\ \E e \in g : Far(o, e) = x /\ heap[o].key[e] = Due(o, x)
  BY <1>0, <1>r DEF Pending
<1>6. \A o \in Way : \A e \in g :
        LET u == Near(o, e)
            v == Far(o, e)
        IN  u \notin heap[o].seen /\ {u, v} \cap {r, d} = {} =>
               /\ v \notin heap[o].seen => cp[o][u] + Stepped(u) <= cp[o][v]
               /\ v \in heap[o].seen =>
                   \A p \in DOMAIN heap[o].pending :
                       cp[o][u] + Stepped(u) + heap[o].pending[p] <= cp[o][v]
  BY <1>0, <1>r, <1>d DEF Pending
<1>7. \A o \in Way : \A x : Behind(o, r, x) =>
        /\ x \notin {r, d} /\ Into(x) = x
        /\ \A a \in Way : a # o => ~Behind(a, r, x)
        /\ \A e \in g : Near(o, e) = x => Far(o, e) \notin {r, d, x} /\ Behind(o, r, Far(o, e))
  BY <1>0, <1>r, <1>d, BehindFacts
<1>8. Behind(w, r, m) /\ m \notin heap[w].seen /\ m \notin {r, d}
  BY <1>4, <1>5, <1>7
<1>9. /\ cp[w][m] \in Nat /\ pend[m] \in Nat /\ Stepped(m) \in Nat /\ new \in Nat /\ inc \in Nat
      /\ inc = cp[w][m] + pend[m] + Stepped(m) /\ new = Due(w, m)
  <2>1. cp[w][m] \in Nat /\ pend[m] \in Nat /\ Stepped(m) \in Nat
    BY <1>2, <1>4
  <2>2. new = Due(w, m)
    BY <1>4 DEF Due, Pend
  <2> DEFINE a == cp[w][m]
             b == pend[m]
             s == Stepped(m)
  <2>3. new = a + b /\ inc = a + b + s /\ a \in Nat /\ b \in Nat /\ s \in Nat
    BY <2>1
  <2> HIDE DEF a, b, s, new, inc
  <2> QED
    BY <2>1, <2>2, <2>3 DEF a, b, s
<1> HIDE DEF new, inc
\* The relatives of m that become pending, or grow.
<1>10. ASSUME NEW x \in far
       PROVE  /\ x \in mts /\ x \notin {r, d, m} /\ x \notin heap[w].seen /\ Behind(w, r, x)
              /\ cp[w][x] < inc /\ inc - cp[w][x] <= pend[m] /\ cp[w][x] \in Nat
              /\ \E e \in g : Near(w, e) = m /\ Far(w, e) = x
  <2>1. PICK e \in g : Near(w, e) = m /\ Far(w, e) = x /\ cp[w][x] < inc
    BY DEF Shorter, Leaving
  <2>2. x \in mts /\ x \notin {r, d, m} /\ Behind(w, r, x)
    BY <1>2, <1>7, <1>8, <2>1
  <2>3. /\ x \notin heap[w].seen => cp[w][m] + Stepped(m) <= cp[w][x]
        /\ x \in heap[w].seen => cp[w][m] + Stepped(m) + pend[m] <= cp[w][x]
    <3>1. {Near(w, e), Far(w, e)} \cap {r, d} = {} /\ Near(w, e) \notin heap[w].seen
      BY <1>8, <2>1, <2>2
    <3> QED
      BY <1>4, <1>6, <2>1, <3>1
  <2>4. cp[w][x] \in Nat
    BY <1>2, <2>2
  <2>5. x \notin heap[w].seen
    BY <1>9, <2>1, <2>3, <2>4
  <2>6. inc - cp[w][x] <= pend[m]
    BY <1>9, <2>3, <2>4, <2>5
  <2> QED
    BY <2>1, <2>2, <2>4, <2>5, <2>6
<1>11. /\ HeapOf(h, g) /\ h.key = heap[w].key /\ h.seen = heap[w].seen \cup {m}
       /\ DOMAIN h.pending = D \ {m} /\ \A x \in D \ {m} : h.pending[x] = pend[x]
  <2> DEFINE p == Without(pend, {m})
             k == heap[w].key
             s == heap[w].seen
             q == heap[w]
  <2>1. p \in [D \ {m} -> Nat] /\ \A x \in D \ {m} : p[x] = pend[x]
    BY <1>4 DEF Without, Restrict
  <2>2. /\ h = [q EXCEPT !.pending = p, !.seen = s \cup {m}] /\ k \in [g -> Nat]
        /\ q = [key |-> k, pending |-> pend, seen |-> s]
    BY <1>2
  <2> HIDE DEF p, k, s, h, D, pend, q
  <2>3. h = [key |-> k, pending |-> p, seen |-> s \cup {m}]
    BY <2>2
  <2>4. h.key = k /\ h.pending = p /\ h.seen = s \cup {m} /\ h = [key |-> h.key, pending |-> h.pending, seen |-> h.seen]
    BY <2>3
  <2>5. HeapOf(h, g)
    BY <2>1, <2>2, <2>4 DEF HeapOf
  <2> QED
    BY <2>1, <2>4, <2>5 DEF k, s
<1>12. Raised(n, h, w, g, m, inc)
  <2>1. \A e \in g : cp[w][Far(w, e)] \in Nat
    BY <1>2
  <2> HIDE DEF h
  <2> QED
    BY <1>9, <1>11, <2>1, Increased
<1> HIDE DEF n, h, far, D, pend
<1>13. /\ HeapOf(n, g) /\ n.seen = heap[w].seen \cup {m}
       /\ \A e \in g : IF Near(w, e) = m
                       THEN n.key[e] \in {heap[w].key[e], inc} /\ heap[w].key[e] <= n.key[e] /\ inc <= n.key[e]
                       ELSE n.key[e] = heap[w].key[e]
       /\ DOMAIN n.pending = (D \ {m}) \cup far
       /\ \A x \in far :
           /\ inc - cp[w][x] <= n.pending[x]
           /\ x \in D => n.pending[x] \in {inc - cp[w][x], pend[x]} /\ pend[x] <= n.pending[x]
           /\ x \notin D => n.pending[x] = inc - cp[w][x]
       /\ \A x \in D \ {m} : x \notin far => n.pending[x] = pend[x]
  <2>1. HeapOf(n, g) /\ n.seen = heap[w].seen \cup {m}
    BY <1>11, <1>12 DEF Raised
  <2>2. \A e \in g : IF Near(w, e) = m
                     THEN n.key[e] \in {heap[w].key[e], inc} /\ heap[w].key[e] <= n.key[e] /\ inc <= n.key[e]
                     ELSE n.key[e] = heap[w].key[e]
    BY <1>11, <1>12 DEF Raised, KeysRaised
  <2>3. m \notin far
    BY <1>10
  <2>4. /\ DOMAIN n.pending = (D \ {m}) \cup far
        /\ \A x \in far :
           /\ inc - cp[w][x] <= n.pending[x]
           /\ x \in D \ {m} => n.pending[x] \in {inc - cp[w][x], h.pending[x]} /\ h.pending[x] <= n.pending[x]
           /\ x \notin D \ {m} => n.pending[x] = inc - cp[w][x]
        /\ \A x \in (D \ {m}) \ far : n.pending[x] = h.pending[x]
    BY <1>11, <1>12 DEF Raised, GrowthsRaised, far
  <2> QED
    BY <1>11, <2>1, <2>2, <2>3, <2>4
<1>14. /\ heap'[w] = n /\ \A o \in Way : o # w => heap'[o] = heap[o] /\ cp'[o] = cp[o]
       /\ cp'[w] \in [mts -> Nat] /\ cp'[w][m] = new /\ \A x \in mts : x # m => cp'[w][x] = cp[w][x]
       /\ g' = g /\ mts' = mts /\ Logic' = Logic /\ Handled' = Handled /\ merge' = merge
       /\ \A x : Into(x)' = Into(x) /\ Stepped(x)' = Stepped(x)
       /\ Merged' = Merged /\ Nodes' = Nodes
  <2>1. /\ heap'[w] = n /\ \A o \in Way : o # w => heap'[o] = heap[o] /\ cp'[o] = cp[o]
    BY <1>0, <1>1 DEF PathTypes
  <2>2. cp'[w] \in [mts -> Nat] /\ cp'[w][m] = new /\ \A x \in mts : x # m => cp'[w][x] = cp[w][x]
    <3>1. cp'[w] = [cp[w] EXCEPT ![m] = new]
      BY <1>0, <1>1 DEF PathTypes
    <3> DEFINE f == cp[w]
               ff == cp'[w]
    <3>2. ff = [f EXCEPT ![m] = new] /\ f \in [mts -> Nat] /\ m \in mts /\ new \in Nat
      BY <1>2, <1>4, <1>9, <3>1
    <3> HIDE DEF f, ff
    <3>3. ff \in [mts -> Nat] /\ ff[m] = new /\ \A x \in mts : x # m => ff[x] = f[x]
      BY <3>2
    <3> QED
      BY <3>3 DEF f, ff
  <2>3. g' = g /\ mts' = mts /\ Logic' = Logic /\ Handled' = Handled /\ merge' = merge
    BY <1>1 DEF mts, Logic, Handled
  <2>4. \A x : Into(x)' = Into(x) /\ Stepped(x)' = Stepped(x)
    BY <1>1 DEF Into, Stepped
  <2>5. Merged' = Merged /\ Nodes' = Nodes
    BY <2>3, <2>4 DEF Merged, Nodes
  <2> QED
    BY <2>1, <2>2, <2>3, <2>4, <2>5
\* What is due after the step.
<1>15. ASSUME NEW x \in mts
       PROVE  /\ Due(w, x)' \in Nat /\ Due(w, x) <= Due(w, x)' /\ Due(w, x)' \in {Due(w, x), inc}
              /\ x \in far => inc <= Due(w, x)'
              /\ x \notin far => Due(w, x)' = Due(w, x)
              /\ x \notin D /\ x \in far => Due(w, x)' = inc
  <2> DEFINE a == cp[w][x]
  <2>1. a \in Nat /\ Due(w, x) \in Nat /\ inc \in Nat
    BY <1>2, <1>9
  <2>2. CASE x = m
    <3>1. x \notin far /\ x \notin DOMAIN n.pending
      BY <1>10, <1>13, <2>2
    <3>2. Due(w, x)' = new + 0
      BY <1>14, <2>2, <3>1 DEF Due, Pend
    <3> QED
      BY <1>4, <1>9, <2>1, <2>2, <3>1, <3>2
  <2>3. CASE x # m /\ x \in far
    <3> DEFINE q == n.pending[x]
               p == pend[x]
    <3>1. Due(w, x)' = a + q
      BY <1>13, <1>14, <2>3 DEF Due, Pend
    <3>2. /\ inc - a <= q /\ a < inc
          /\ x \in D => q \in {inc - a, p} /\ p <= q
          /\ x \notin D => q = inc - a
      BY <1>10, <1>13, <2>3
    <3>3. x \in D => Due(w, x) = a + p /\ p \in Nat
      BY <1>4 DEF Due, Pend, D, pend
    <3>4. x \notin D => Due(w, x) = a + 0
      BY DEF Due, Pend, D, pend
    <3>5. q \in Nat
      BY <2>1, <3>2, <3>3
    <3> HIDE DEF a, q, p
    <3> QED
      BY <2>1, <2>3, <3>1, <3>2, <3>3, <3>4, <3>5
  <2>4. CASE x # m /\ x \notin far
    <3>1. Pend(w, x)' = Pend(w, x)
      BY <1>13, <1>14, <2>4 DEF Pend, D, pend
    <3>2. Due(w, x)' = Due(w, x)
      BY <1>14, <2>4, <3>1 DEF Due
    <3> QED
      BY <2>1, <2>4, <3>2
  <2> QED
    BY <2>2, <2>3, <2>4
<1>16. \A o \in Way : o # w => \A x : Due(o, x)' = Due(o, x)
  BY <1>14 DEF Due, Pend
<1>17. \A x \in DOMAIN n.pending : n.pending[x] \in Nat /\ n.pending[x] <= pend[m] /\ x \in mts
  <2> SUFFICES ASSUME NEW x \in DOMAIN n.pending
               PROVE  n.pending[x] \in Nat /\ n.pending[x] <= pend[m] /\ x \in mts
    OBVIOUS
  <2>1. n.pending[x] \in Nat
    BY <1>13 DEF HeapOf
  <2>2. x \in D \ {m} \/ x \in far
    BY <1>13
  <2>3. x \in far => inc - cp[w][x] <= pend[m]
    BY <1>10
  <2>4. x \in D => pend[x] <= pend[m]
    BY <1>4
  <2>5. n.pending[x] <= pend[m]
    BY <1>13, <2>2, <2>3, <2>4
  <2> QED
    BY <1>4, <1>10, <2>1, <2>2, <2>5
<1>18. Types' /\ Order' /\ Groups' /\ Valid'
  <2>1. Types'
    BY <1>0, <1>1, <1>14 DEF Types
  <2>2. Order'
    <3>1. \A a, b : Before(a, b)' <=> Before(a, b)
      BY <1>1, <1>14 DEF Before
    <3> QED
      BY <1>0, <1>1, <1>14, <3>1 DEF Order
  <2>3. Groups'
    BY <1>0, <1>1, <1>14 DEF Groups
  <2>4. Valid'
    <3>1. Candidates' = Candidates
      BY <1>1 DEF Candidates
    <3> QED
      BY <1>0, <1>1, <1>14, <3>1 DEF Valid
  <2> QED
    BY <2>1, <2>2, <2>3, <2>4
<1>19. PathTypes'
  <2>1. cp' \in [Way -> [mts -> Nat]]
    <3>1. \A o \in Way : cp'[o] \in [mts -> Nat]
      BY <1>2, <1>14
    <3>2. cp' = [o \in Way |-> cp'[o]]
      BY <1>0, <1>1 DEF PathTypes
    <3> QED
      BY <3>1, <3>2
  <2> DEFINE P == UNION {[A -> Nat] : A \in SUBSET mts}
             G == [g -> Nat]
             S == SUBSET mts
             R == [key : G, pending : P, seen : S]
  <2>2. heap \in [Way -> R]
    BY <1>0 DEF PathTypes
  <2>3. n \in R
    <3>1. /\ n = [key |-> n.key, pending |-> n.pending, seen |-> n.seen]
          /\ n.key \in G /\ n.seen \in S
      BY <1>2, <1>4, <1>13 DEF HeapOf
    <3>2. n.pending \in P
      <4> DEFINE p == n.pending
      <4>1. p \in [DOMAIN p -> Nat] /\ DOMAIN p \in SUBSET mts
        BY <1>13, <1>17 DEF HeapOf
      <4> HIDE DEF p
      <4>2. p \in P
        BY <4>1
      <4> QED
        BY <4>2 DEF p
    <3> HIDE DEF P, G, S
    <3> QED
      BY <3>1, <3>2
  <2> HIDE DEF R
  <2>4. heap' \in [Way -> R]
    BY <1>1, <2>2, <2>3
  <2> QED
    BY <1>0, <1>1, <1>14, <2>1, <2>4 DEF PathTypes, R
<1>20. ASSUME NEW e \in g
       PROVE  /\ cp'[w][Into(Near(w, e))] + Stepped(Into(Near(w, e))) <= n.key[e]
              /\ n.key[e] <= Due(w, Into(Far(w, e)))'
  <2> DEFINE u == Near(w, e)
             v == Far(w, e)
             k == heap[w].key[e]
             kk == n.key[e]
             iu == Into(u)
             iv == Into(v)
             s == Stepped(iu)
  <2>1. u \in mts /\ v \in mts /\ k \in Nat /\ iu \in mts /\ iv \in mts /\ s \in Nat
    BY <1>2, <1>3
  <2>2. cp[w][iu] + s <= k /\ k <= Due(w, iv)
    BY <1>0 DEF Keys
  <2>3. Due(w, iv) \in Nat /\ Due(w, iv)' \in Nat /\ Due(w, iv) <= Due(w, iv)'
    <3> DEFINE x == iv
    <3> SUFFICES \A y \in mts : Due(w, y) \in Nat /\ Due(w, y)' \in Nat /\ Due(w, y) <= Due(w, y)'
      <4>1. Into(Far(w, e))' = Into(Far(w, e))
        BY <1>14
      <4> QED
        BY <2>1, <4>1 DEF Due, Pend
    <3> QED
      BY <1>2, <1>15
  <2>4. CASE u # m
    <3>1. kk = k
      BY <1>13, <2>4
    <3>2. iu # m
      BY <1>3, <1>8, <2>4
    <3>3. cp'[w][iu] = cp[w][iu]
      BY <1>14, <2>1, <3>2
    <3> QED
      BY <2>1, <2>2, <2>3, <3>1, <3>3
  <2>5. CASE u = m
    <3>1. kk \in {k, inc} /\ k <= kk /\ inc <= kk
      BY <1>13, <2>5
    <3>2. iu = m /\ v \notin {r, d} /\ v # m /\ iv = v
      BY <1>3, <1>7, <1>8, <2>5
    <3>3. cp'[w][iu] + s = inc
      BY <1>9, <1>14, <3>2 DEF inc
    <3>4. inc <= Due(w, v)'
      <4>1. CASE v \in far
        BY <1>15, <2>1, <4>1
      <4>2. CASE v \notin far
        <5>1. ~(cp[w][v] < inc)
          BY <2>5, <4>2 DEF far, Shorter, Leaving
        <5>2. Due(w, v)' = Due(w, v) /\ Due(w, v) = cp[w][v] + Pend(w, v)
          BY <1>15, <2>1, <4>2 DEF Due
        <5>3. cp[w][v] \in Nat /\ Pend(w, v) \in Nat
          BY <1>2, <2>1
        <5> QED
          BY <1>9, <5>1, <5>2, <5>3
      <4> QED
        BY <4>1, <4>2
    <3>5. Due(w, iv)' = Due(w, v)'
      <4>1. Into(Far(w, e))' = Far(w, e)
        BY <1>14, <3>2
      <4> QED
        BY <4>1 DEF Due, Pend
    <3> DEFINE du == Due(w, iv)'
               a == cp'[w][iu] + s
    <3>6. a = inc /\ inc <= du /\ du \in Nat /\ k <= Due(w, iv) /\ Due(w, iv) \in Nat /\ Due(w, iv) <= du
      BY <2>2, <2>3, <3>3, <3>4, <3>5
    <3> HIDE DEF u, v, k, kk, iu, iv, s, du, a
    <3>7. a <= kk /\ kk <= du
      BY <1>9, <2>1, <3>1, <3>6
    <3> QED
      BY <3>7 DEF u, v, kk, iu, iv, s, du, a
  <2> QED
    BY <2>4, <2>5
<1>21. Keys'
  <2> SUFFICES ASSUME NEW o \in Way, NEW e \in g
               PROVE  /\ cp'[o][Into(Near(o, e))'] + Stepped(Into(Near(o, e)))' <= heap'[o].key[e]
                      /\ heap'[o].key[e] <= Due(o, Into(Far(o, e)))'
    BY <1>14 DEF Keys
  <2>1. /\ Into(Near(o, e))' = Into(Near(o, e))
        /\ Stepped(Into(Near(o, e)))' = Stepped(Into(Near(o, e)))
    BY <1>1 DEF Into, Stepped
  <2>2. CASE o = w
    BY <1>14, <1>20, <2>1, <2>2
  <2>3. CASE o # w
    <3>1. cp'[o] = cp[o] /\ heap'[o] = heap[o]
      BY <1>14, <2>3
    <3>2. Due(o, Into(Far(o, e)))' = Due(o, Into(Far(o, e)))
      BY <1>1, <3>1 DEF Due, Pend, Into
    <3>3. /\ cp[o][Into(Near(o, e))] + Stepped(Into(Near(o, e))) <= heap[o].key[e]
          /\ heap[o].key[e] <= Due(o, Into(Far(o, e)))
      BY <1>0 DEF Keys
    <3> QED
      BY <2>1, <3>1, <3>2, <3>3
  <2> QED
    BY <2>2, <2>3
<1>22. Budget'
  <2> DEFINE B == Max({path0, limit})
  <2>0. B \in Nat
    BY <1>2, MaxOfTwo
  <2>1. PICK o \in Way : o # w
    BY DEF Way
  <2>2. ASSUME NEW x \in mts \ {d} PROVE Due(w, x)' + Stepped(x) + Due(o, x) <= B
    <3>1. \A y \in mts \ {d} : Due(w, y) + Stepped(y) + Due(o, y) <= B
      <4>1. \A y \in mts \ {d} : Due("fwd", y) + Stepped(y) + Due("rev", y) <= B
        BY <1>0, <1>3 DEF Budget
      <4>2. \A y \in mts : Due("fwd", y) \in Nat /\ Stepped(y) \in Nat /\ Due("rev", y) \in Nat
        BY <1>2 DEF Way
      <4>3. (w = "fwd" /\ o = "rev") \/ (w = "rev" /\ o = "fwd")
        BY <2>1 DEF Way
      <4> HIDE DEF B
      <4> QED
        BY <2>0, <4>1, <4>2, <4>3
    <3>2. Due(w, x) \in Nat /\ Stepped(x) \in Nat /\ Due(o, x) \in Nat /\ Due(w, x)' \in Nat
      BY <1>2, <1>15, <2>1
    <3>3. CASE Due(w, x)' = Due(w, x)
      BY <3>1, <3>3
    <3>4. CASE Due(w, x)' # Due(w, x)
      <4>1. x \in far /\ Due(w, x)' = inc
        BY <1>15, <3>4
      <4>2. x \notin DOMAIN heap[o].pending
        BY <1>5, <1>7, <1>10, <2>1, <4>1
      <4>3. PICK e \in g : Near(w, e) = m /\ Far(w, e) = x
        BY <1>10, <4>1
      <4>4. Near(o, e) = x /\ Far(o, e) = m
        BY <2>1, <4>3 DEF Near, Far, Way
      <4>5. x \notin {r, d} /\ Into(x) = x /\ Into(m) = m /\ m \in mts \ {d}
        BY <1>3, <1>4, <1>8, <1>10, <4>1
      <4>6. cp[o][x] + Stepped(x) <= heap[o].key[e] /\ heap[o].key[e] <= Due(o, m)
        BY <1>0, <4>4, <4>5 DEF Keys
      <4>7. Due(o, x) = cp[o][x] + 0
        BY <4>2 DEF Due, Pend
      <4>8. cp[o][x] \in Nat /\ heap[o].key[e] \in Nat /\ Due(o, m) \in Nat /\ Due(w, m) \in Nat /\ Stepped(m) \in Nat
        BY <1>2, <1>4
      <4>9. Due(w, m) + Stepped(m) + Due(o, m) <= B /\ inc = Due(w, m) + Stepped(m)
        BY <1>9, <3>1, <4>5 DEF inc
      <4> HIDE DEF B
      <4> QED
        BY <2>0, <3>2, <4>1, <4>6, <4>7, <4>8, <4>9
    <3> QED
      BY <3>3, <3>4
  <2>3. ASSUME NEW x \in mts \ {d} PROVE Due("fwd", x)' + Stepped(x)' + Due("rev", x)' <= B
    <3>1. Due(w, x)' \in Nat /\ Stepped(x) \in Nat /\ Due(o, x) \in Nat
      BY <1>2, <1>15, <2>1
    <3>2. Stepped(x)' = Stepped(x) /\ Due(o, x)' = Due(o, x)
      BY <1>14, <1>16, <2>1
    <3>3. (w = "fwd" /\ o = "rev") \/ (w = "rev" /\ o = "fwd")
      BY <2>1 DEF Way
    <3>4. CASE w = "fwd" /\ o = "rev"
      BY <2>2, <3>2, <3>4
    <3>5. CASE w = "rev" /\ o = "fwd"
      <4>1. Due("rev", x)' + Stepped(x) + Due("fwd", x) <= B
        BY <2>2, <3>5
      <4>2. /\ Due("rev", x)' \in Nat /\ Stepped(x) \in Nat /\ Due("fwd", x) \in Nat
            /\ Due("fwd", x)' = Due("fwd", x)
        BY <3>1, <3>2, <3>5
      <4> DEFINE a == Due("rev", x)'
                 b == Due("fwd", x)
                 s == Stepped(x)
      <4>3. a \in Nat /\ b \in Nat /\ s \in Nat /\ a + s + b <= B
        BY <4>1, <4>2
      <4> HIDE DEF a, b, s, B
      <4>4. b + s + a <= B
        BY <2>0, <4>3
      <4> QED
        BY <3>2, <4>2, <4>4 DEF a, b, s
    <3> QED
      BY <3>3, <3>4, <3>5
  <2>4. B' = B /\ Nodes' = mts \ {d}
    BY <1>1, <1>3, <1>14
  <2> HIDE DEF B
  <2> QED
    BY <2>3, <2>4 DEF Budget, B
<1>23. ASSUME NEW x \in DOMAIN n.pending
       PROVE  /\ Behind(w, r, x) /\ x \notin n.seen
              /\ \E e \in g : Far(w, e) = x /\ n.key[e] = Due(w, x)'
  <2>1. x \in mts /\ (x \in D \ {m} \/ x \in far)
    BY <1>13, <1>17
  <2>2. Behind(w, r, x) /\ x \notin {r, d} /\ Into(x) = x
    BY <1>5, <1>7, <1>10, <2>1 DEF D, pend
  <2>3. x \notin n.seen
    BY <1>5, <1>10, <1>13, <2>1 DEF D, pend
  <2>4. \A e \in g : Far(w, e) = x => n.key[e] <= Due(w, x)' /\ n.key[e] \in Nat
    <3>1. \A e \in g : Far(w, e) = x => Due(w, Into(Far(w, e)))' = Due(w, x)'
      BY <1>14, <2>2 DEF Due, Pend
    <3> QED
      BY <1>13, <1>20, <3>1 DEF HeapOf
  <2>5. Due(w, x)' \in Nat
    BY <1>15, <2>1
  <2>6. CASE Due(w, x)' = inc /\ x \in far
    <3>1. PICK e \in g : Near(w, e) = m /\ Far(w, e) = x
      BY <1>10, <2>6
    <3>2. inc <= n.key[e] /\ n.key[e] <= inc /\ n.key[e] \in Nat
      BY <1>13, <2>4, <2>6, <3>1
    <3> QED
      BY <1>9, <2>2, <2>3, <2>6, <3>1, <3>2
  <2>7. CASE ~(Due(w, x)' = inc /\ x \in far)
    <3>1. Due(w, x)' = Due(w, x) /\ x \in D
      BY <1>15, <2>1, <2>7
    <3>2. PICK e \in g : Far(w, e) = x /\ heap[w].key[e] = Due(w, x)
      BY <1>5, <3>1 DEF D, pend
    <3>3. heap[w].key[e] <= n.key[e] /\ heap[w].key[e] \in Nat
      <4>1. heap[w].key[e] \in Nat
        BY <1>2
      <4>2. heap[w].key[e] <= n.key[e] \/ n.key[e] = heap[w].key[e]
        BY <1>13
      <4> QED
        BY <4>1, <4>2
    <3>4. n.key[e] <= Due(w, x)' /\ n.key[e] \in Nat
      BY <2>4, <3>2
    <3>5. n.key[e] = Due(w, x)'
      BY <2>5, <3>1, <3>2, <3>3, <3>4
    <3> QED
      BY <2>2, <2>3, <3>2, <3>5
  <2> QED
    BY <2>6, <2>7
<1>24. ASSUME NEW e \in g, Near(w, e) \notin n.seen, {Near(w, e), Far(w, e)} \cap {r, d} = {}
       PROVE  /\ Far(w, e) \notin n.seen => cp'[w][Near(w, e)] + Stepped(Near(w, e)) <= cp'[w][Far(w, e)]
              /\ Far(w, e) \in n.seen => \A p \in DOMAIN n.pending :
                    cp'[w][Near(w, e)] + Stepped(Near(w, e)) + n.pending[p] <= cp'[w][Far(w, e)]
  <2> DEFINE u == Near(w, e)
             v == Far(w, e)
  <2>1. u \in mts /\ v \in mts /\ u \notin heap[w].seen /\ u # m
    BY <1>2, <1>13, <1>24
  <2>2. /\ v \notin heap[w].seen => cp[w][u] + Stepped(u) <= cp[w][v]
        /\ v \in heap[w].seen => cp[w][u] + Stepped(u) + pend[m] <= cp[w][v]
    BY <1>4, <1>6, <1>24, <2>1 DEF D, pend
  <2>3. cp'[w][u] = cp[w][u] /\ cp[w][u] \in Nat /\ Stepped(u) \in Nat /\ cp[w][v] \in Nat
    BY <1>2, <1>14, <2>1
  <2>4. v # m => cp'[w][v] = cp[w][v]
    BY <1>14, <2>1
  <2>5. v = m => cp'[w][v] = cp[w][v] + pend[m] /\ v \notin heap[w].seen
    BY <1>8, <1>14 DEF new
  <2>6. v \in n.seen <=> v \in heap[w].seen \/ v = m
    BY <1>13
  <2>7. ASSUME NEW p \in DOMAIN n.pending, v \in n.seen
        PROVE  cp'[w][u] + Stepped(u) + n.pending[p] <= cp'[w][v]
    <3>1. n.pending[p] \in Nat /\ n.pending[p] <= pend[m] /\ pend[m] \in Nat
      BY <1>9, <1>17
    <3> HIDE DEF u, v
    <3> QED
      BY <2>2, <2>3, <2>4, <2>5, <2>6, <2>7, <3>1
  <2> QED
    BY <2>2, <2>3, <2>4, <2>6, <2>7
<1>25. Pending'
  <2> SUFFICES ASSUME NEW o \in Way
        PROVE  /\ \A x \in DOMAIN heap'[o].pending :
                    /\ Behind(o, r, x)'
                    /\ x \notin heap'[o].seen
                    /\ \E e \in g : Far(o, e) = x /\ heap'[o].key[e] = Due(o, x)'
               /\ \A e \in g :
                    Near(o, e) \notin heap'[o].seen /\ {Near(o, e), Far(o, e)} \cap {r, d} = {} =>
                       /\ Far(o, e) \notin heap'[o].seen => cp'[o][Near(o, e)] + Stepped(Near(o, e))' <= cp'[o][Far(o, e)]
                       /\ Far(o, e) \in heap'[o].seen =>
                           \A p \in DOMAIN heap'[o].pending :
                               cp'[o][Near(o, e)] + Stepped(Near(o, e))' + heap'[o].pending[p] <= cp'[o][Far(o, e)]
    BY <1>r, <1>d, <1>14 DEF Pending
  <2>1. \A x : Behind(o, r, x)' <=> Behind(o, r, x)
    BY <1>14 DEF Behind
  <2>2. CASE o = w
    BY <1>14, <1>23, <1>24, <2>1, <2>2
  <2>3. CASE o # w
    BY <1>5, <1>6, <1>14, <1>16, <2>1, <2>3
  <2> QED
    BY <2>2, <2>3
<1> QED
  BY <1>0, <1>1, <1>18, <1>19, <1>21, <1>22, <1>25 DEF Inv, Coarse

(***************************************************************************)
(* The merge is completed                                                  *)
(***************************************************************************)

\* The candidates that are forgotten, the edges that are new and their keys, and the sets of
\* sibling pairs that are made around the recipient.
Gone(r, d) == {c \in Candidates : d \in {c.from, c.to}}
                \cup {c \in Candidates : c.sibling /\ r \in {c.from, c.to}}
Moved(moved) == {Edge(e) : e \in moved \ g}
NewKeys(w, E, moved) ==
    [e \in E |-> IF e \in moved \ g THEN cp[w][Near(w, e)] + Stepped(Near(w, e)) ELSE heap[w].key[e]]
Around(E, r) ==
    {SiblingPairs(w, E, r, TRUE) : w \in Way}
      \cup {SiblingPairs("rev", E, e[2], FALSE) : e \in Leaving("fwd", E, r)}
      \cup {SiblingPairs("fwd", E, e[1], FALSE) : e \in Leaving("rev", E, r)}

LEMMA RedirectStep == Inv /\ Redirect => Inv'
<1> SUFFICES ASSUME Inv, Redirect PROVE Inv'
  OBVIOUS
<1>0. Types /\ Order /\ Groups /\ Valid /\ PathTypes /\ Keys /\ Budget /\ pc = "propagate"
  BY DEF Inv, Redirect, Coarse
<1> DEFINE r0 == merge.recipient
           d0 == merge.donor
           moved0 == partRedirectEdgesFrom(r0, d0)
           E0 == {e \in g : d0 \notin {e[1], e[2]}} \cup moved0
           V0 == mts \ {d0}
<1>a. /\ \A w \in Way : DOMAIN heap[w].pending = {}
      /\ g' = E0
      /\ cost' = Restrict(cost, V0)
      /\ cp' = [w \in Way |-> Restrict(cp[w], V0)]
      /\ \A w \in Way : heap'[w] = [heap[w] EXCEPT !.seen = {}, !.key = NewKeys(w, E0, moved0)]
      /\ heap' = [w \in Way |-> heap'[w]]
      /\ known' = Without(known, Gone(r0, d0) \cup RescoredEdges(moved0))
      /\ unknown' = (unknown \ Gone(r0, d0)) \cup RescoredEdges(moved0) \cup Moved(moved0)
                      \cup ((UNION Around(E0, r0)) \ (Candidates \ Gone(r0, d0)))
      /\ pc' = "contract"
      /\ UNCHANGED <<input, owner, rank, hazards, limit, before, path0>>
  BY DEF Redirect, Stepped, NewKeys, Gone, Moved, Around
<1>r. PICK r : r = r0
  OBVIOUS
<1>d. PICK d : d = d0
  OBVIOUS
<1>moved. PICK moved : moved = moved0
  OBVIOUS
<1>E. PICK E : E = E0
  OBVIOUS
<1>V. PICK V : V = V0
  OBVIOUS
<1>b. /\ r = merge.recipient /\ d = merge.donor /\ moved = partRedirectEdgesFrom(r, d)
      /\ E = {e \in g : d \notin {e[1], e[2]}} \cup moved /\ V = mts \ {d}
  BY <1>r, <1>d, <1>moved, <1>E, <1>V
<1> HIDE DEF r0, d0, moved0, E0, V0
<1> DEFINE gone == Gone(r, d)
           existing == RescoredEdges(moved)
           redirected == Moved(moved)
           near == Around(E, r)
           left == Candidates \ gone
           nk(w) == NewKeys(w, E, moved)
<1>1. /\ \A w \in Way : DOMAIN heap[w].pending = {}
      /\ g' = E
      /\ cost' = Restrict(cost, V)
      /\ \A w \in Way : cp'[w] = Restrict(cp[w], V)
      /\ \A w \in Way : heap'[w] = [heap[w] EXCEPT !.seen = {}, !.key = nk(w)]
      /\ heap' = [w \in Way |-> heap'[w]] /\ cp' = [w \in Way |-> cp'[w]]
      /\ known' = Without(known, gone \cup existing)
      /\ unknown' = (unknown \ gone) \cup existing \cup redirected \cup ((UNION near) \ left)
      /\ pc' = "contract"
      /\ UNCHANGED <<input, owner, rank, hazards, limit, before, path0>>
  BY <1>a, <1>r, <1>d, <1>moved, <1>E, <1>V
<1>2. /\ r \in mts /\ d \in mts /\ r # d
      /\ \A m : Into(m) = IF m = d THEN r ELSE m
      /\ Merged = Fold(g, r, d) /\ IsFiniteSet(g) /\ IsFiniteSet(Merged) /\ Acyclic(Merged)
      /\ \A e \in g : e = <<e[1], e[2]>> /\ e[1] \in mts /\ e[2] \in mts
      /\ \A e \in Merged : e[1] # d /\ e[2] # d
      /\ Nodes = V
  BY <1>0, <1>b, MergeInProgress
<1>3. /\ Exit(input) \in Nat /\ IsFiniteSet(mts) /\ mts \subseteq 0 .. Exit(input)
      /\ cost \in [mts -> Nat] /\ limit \in Nat /\ path0 \in Nat
      /\ \A w \in Way :
          /\ \A e \in g : Near(w, e) \in mts /\ Far(w, e) \in mts
          /\ cp[w] \in [mts -> Nat]
          /\ \A x \in mts : cp[w][x] \in Nat /\ Stepped(x) \in Nat /\ Due(w, x) = cp[w][x]
          /\ \A e \in g : heap[w].key[e] \in Nat
          /\ heap[w].pending \in [{} -> Nat]
          /\ heap[w] = [key |-> heap[w].key, pending |-> heap[w].pending, seen |-> heap[w].seen]
  <2>1. /\ Exit(input) \in Nat /\ IsFiniteSet(mts) /\ mts \subseteq 0 .. Exit(input)
        /\ cost \in [mts -> Nat] /\ limit \in Nat /\ path0 \in Nat
        /\ \A w \in Way :
          /\ \A e \in g : Near(w, e) \in mts /\ Far(w, e) \in mts
          /\ cp[w] \in [mts -> Nat]
          /\ \A x \in mts : cp[w][x] \in Nat /\ Stepped(x) \in Nat
          /\ \A e \in g : heap[w].key[e] \in Nat
          /\ heap[w].pending \in [DOMAIN heap[w].pending -> Nat]
          /\ heap[w] = [key |-> heap[w].key, pending |-> heap[w].pending, seen |-> heap[w].seen]
    BY <1>0, PathFacts DEF Types, Way
  <2>2. ASSUME NEW w \in Way, NEW x \in mts PROVE Due(w, x) = cp[w][x]
    <3>1. cp[w][x] \in Nat
      BY <2>1
    <3>2. Due(w, x) = cp[w][x] + 0
      BY <1>1 DEF Due, Pend
    <3> QED
      BY <3>1, <3>2
  <2>3. \A w \in Way : heap[w].pending \in [{} -> Nat]
    BY <1>1, <2>1
  <2> QED
    BY <2>1, <2>2, <2>3
<1>4. \A f \in g : <<Into(f[1]), Into(f[2])>> \in E
  <2> SUFFICES ASSUME NEW f \in g PROVE <<Into(f[1]), Into(f[2])>> \in E
    OBVIOUS
  <2>1. CASE d \in {f[1], f[2]}
    BY <1>2, <1>b, <2>1 DEF partRedirectEdgesFrom
  <2>2. CASE d \notin {f[1], f[2]}
    <3>1. <<Into(f[1]), Into(f[2])>> = f
      BY <1>2, <2>2
    <3> QED
      BY <1>b, <2>2, <3>1
  <2> QED
    BY <2>1, <2>2
<1>5. \A e \in moved : \E f \in g : e = <<Into(f[1]), Into(f[2])>>
  BY <1>2, <1>b DEF partRedirectEdgesFrom
<1>6. E = Merged
  <2>1. \A e \in E : e \in Merged
    <3> SUFFICES ASSUME NEW e \in E PROVE e \in Merged
      OBVIOUS
    <3>1. CASE e \in moved
      BY <1>5, <3>1 DEF Merged
    <3>2. CASE e \in g /\ d \notin {e[1], e[2]}
      <4>1. <<Into(e[1]), Into(e[2])>> = e
        BY <1>2, <3>2
      <4> QED
        BY <3>2, <4>1 DEF Merged
    <3> QED
      BY <1>b, <3>1, <3>2
  <2>2. \A e \in Merged : e \in E
    BY <1>4 DEF Merged
  <2> QED
    BY <2>1, <2>2
<1>7. /\ IsFiniteSet(E) /\ IsFiniteSet(V) /\ V \subseteq mts /\ r \in V /\ E \subseteq V \X V
      /\ \A e \in E : e = <<e[1], e[2]>> /\ e[1] \in V /\ e[2] \in V
      /\ \A e \in E : e \notin moved \ g => e \in g
      /\ \A e \in moved : e \in E
  <2>1. V \subseteq mts /\ r \in V
    BY <1>2, <1>b
  <2>2. \A e \in E : e = <<e[1], e[2]>> /\ e[1] \in V /\ e[2] \in V
    <3> SUFFICES ASSUME NEW e \in E PROVE e = <<e[1], e[2]>> /\ e[1] \in V /\ e[2] \in V
      OBVIOUS
    <3>1. PICK f \in g : e = <<Into(f[1]), Into(f[2])>>
      BY <1>6 DEF Merged
    <3>2. Into(f[1]) \in V /\ Into(f[2]) \in V
      BY <1>2, <1>b
    <3> QED
      BY <3>1, <3>2
  <2>3. IsFiniteSet(V)
    BY <1>3, <2>1, FS_Subset
  <2>4. E \subseteq V \X V
    BY <2>2
  <2> QED
    BY <1>2, <1>6, <1>b, <2>1, <2>2, <2>3, <2>4
<1>8. /\ mts' = V /\ \A m \in V : cost'[m] = cost[m] /\ Stepped(m)' = Stepped(m)
      /\ cost' \in [V -> Nat] /\ Merged' = E /\ Nodes' = V /\ \A m : Into(m)' = m
  <2>1. mts' = V /\ (\A m \in V : cost'[m] = cost[m]) /\ cost' \in [V -> Nat]
    BY <1>1, <1>3, <1>7 DEF mts, Restrict
  <2>2. \A m \in V : Stepped(m)' = Stepped(m)
    BY <2>1 DEF Stepped
  <2>3. Merged' = g' /\ Nodes' = mts' /\ \A m : Into(m)' = m
    BY <1>1, <1>7, <2>1, NoMergeAfter
  <2> QED
    BY <1>1, <2>1, <2>2, <2>3
<1>9. Types'
  <2>1. Logic' = Logic /\ \A v \in Logic : owner'[v] \in V
    BY <1>0, <1>1, <1>2 DEF Types, Logic
  <2> QED
    BY <1>0, <1>1, <1>3, <1>7, <1>8, <2>1 DEF Types, Coarse
<1>10. Order'
  <2>1. \A a, b : Before(a, b)' <=> Before(a, b)
    BY <1>1, <1>6, <1>8 DEF Before
  <2>2. Handled' = Handled /\ input' = input
    BY <1>1 DEF Handled
  <2> QED
    BY <1>0, <1>6, <1>8, <2>1, <2>2 DEF Order
<1>11. Groups'
  <2>1. Logic' = Logic
    BY <1>1 DEF Logic
  <2> QED
    BY <1>0, <1>1, <2>1 DEF Groups
<1>12. Valid'
  <2> HIDE DEF gone, existing, redirected, near, left
  <2>1. DOMAIN known' = DOMAIN known \ (gone \cup existing)
    BY <1>1 DEF Without, Restrict
  <2>2. existing \subseteq Candidates /\ \A c \in existing : \E e \in moved : c = Edge(e)
    BY DEF existing, RescoredEdges
  <2>3. \A c \in redirected : \E e \in moved \ g : c = Edge(e)
    BY DEF redirected, Moved
  <2>4. redirected \cap Candidates = {}
    <3> SUFFICES ASSUME NEW e \in moved \ g, Edge(e) \in Candidates PROVE FALSE
      BY <2>3
    <3>1. Fit(Edge(e), mts, g)
      BY <1>0 DEF Valid
    <3>2. Edge(e).sibling = FALSE /\ Edge(e).from = e[1] /\ Edge(e).to = e[2]
      BY DEF Edge
    <3>3. <<e[1], e[2]>> \in g
      BY <3>1, <3>2 DEF Fit
    <3>4. e = <<e[1], e[2]>>
      BY <1>7
    <3> QED
      BY <3>3, <3>4
  <2>5. left = Candidates \ gone
    BY DEF left
  <2>6. DOMAIN known' \cap unknown' = {}
    <3>1. DOMAIN known \cap unknown = {} /\ DOMAIN known \subseteq Candidates
      BY <1>0 DEF Valid, Candidates
    <3>2. unknown' = (unknown \ gone) \cup existing \cup redirected \cup ((UNION near) \ left)
      BY <1>1
    <3> DEFINE U == UNION near
    <3> HIDE DEF U
    <3>3. unknown' = (unknown \ gone) \cup existing \cup redirected \cup (U \ left)
      BY <3>2 DEF U
    <3> QED
      BY <2>1, <2>4, <2>5, <3>1, <3>3
  <2>7. ASSUME NEW c \in UNION near PROVE Fit(c, V, E)
    <3>1. \E w, v, x : c \in SiblingPairs(w, E, v, x)
      <4>1. PICK s \in near : c \in s
        OBVIOUS
      <4> DEFINE nearA == {SiblingPairs(w, E, r, TRUE) : w \in Way}
                 nearB == {SiblingPairs("rev", E, e[2], FALSE) : e \in Leaving("fwd", E, r)}
                 nearC == {SiblingPairs("fwd", E, e[1], FALSE) : e \in Leaving("rev", E, r)}
      <4>2. s \in nearA \/ s \in nearB \/ s \in nearC
        BY <4>1 DEF near, Around
      <4>3. CASE s \in nearA
        BY <4>1, <4>3
      <4>4. CASE s \in nearB
        BY <4>1, <4>4
      <4>5. CASE s \in nearC
        BY <4>1, <4>5
      <4> QED
        BY <4>2, <4>3, <4>4, <4>5
    <3> QED
      BY <1>7, <3>1, SiblingsValid
  <2>8. ASSUME NEW c \in Candidates \ gone PROVE Fit(c, V, E)
    <3>1. Fit(c, mts, g) /\ d \notin {c.from, c.to}
      BY <1>0 DEF Valid, gone, Gone
    <3>2. c.from \in V /\ c.to \in V /\ c \in [sibling : BOOLEAN, from : V, to : V]
      BY <1>b, <3>1 DEF Fit
    <3>3. ~c.sibling => <<c.from, c.to>> \in E
      BY <1>b, <3>1 DEF Fit
    <3> QED
      BY <3>1, <3>2, <3>3 DEF Fit
  <2>9. \A e \in moved : Fit(Edge(e), V, E)
    BY <1>7, EdgeFits
  <2>10. \A c \in Candidates' : Fit(c, V, E)
    <3> SUFFICES ASSUME NEW c \in Candidates' PROVE Fit(c, V, E)
      OBVIOUS
    <3> DEFINE U == UNION near
    <3>1. unknown' = (unknown \ gone) \cup existing \cup redirected \cup (U \ left)
      BY <1>1
    <3>2. c \in U => Fit(c, V, E)
      BY <2>7
    <3> HIDE DEF U
    <3>3. c \in Candidates \ gone \/ c \in existing \/ c \in redirected \/ c \in U
      BY <2>1, <3>1 DEF Candidates
    <3> QED
      BY <2>2, <2>3, <2>8, <2>9, <3>2, <3>3
  <2> QED
    BY <1>1, <1>8, <2>6, <2>10 DEF Valid
<1> HIDE DEF nk
<1>13. ASSUME NEW w \in Way
       PROVE  /\ heap'[w] = [key |-> nk(w), pending |-> heap[w].pending, seen |-> {}]
              /\ heap'[w].key = nk(w) /\ heap'[w].pending = heap[w].pending /\ heap'[w].seen = {}
              /\ cp'[w] \in [V -> Nat] /\ \A m \in V : cp'[w][m] = cp[w][m] /\ Due(w, m)' = cp[w][m]
  <2> DEFINE k == nk(w)
             p == heap[w].pending
             h == heap'[w]
             q == heap[w]
  <2>1. h = [q EXCEPT !.seen = {}, !.key = k] /\ q = [key |-> heap[w].key, pending |-> p, seen |-> heap[w].seen]
    BY <1>1, <1>3
  <2> HIDE DEF k, p, h, q
  <2>2. h = [key |-> k, pending |-> p, seen |-> {}]
    BY <2>1
  <2>3. h.key = k /\ h.pending = p /\ h.seen = {}
    BY <2>2
  <2>4. cp'[w] = Restrict(cp[w], V)
    BY <1>1
  <2>5. cp'[w] \in [V -> Nat] /\ \A m \in V : cp'[w][m] = cp[w][m]
    <3> DEFINE f == cp[w]
    <3>1. f \in [mts -> Nat] /\ Restrict(f, V) = [m \in V |-> f[m]]
      BY <1>3 DEF Restrict
    <3> HIDE DEF f
    <3>2. Restrict(f, V) \in [V -> Nat] /\ \A m \in V : Restrict(f, V)[m] = f[m]
      BY <1>7, <3>1
    <3> QED
      BY <2>4, <3>2 DEF f
  <2>6. ASSUME NEW m \in V PROVE Due(w, m)' = cp[w][m]
    <3>1. cp[w][m] \in Nat
      BY <1>3, <1>7
    <3>2. DOMAIN heap'[w].pending = {}
      BY <1>1, <2>3 DEF h, p
    <3>3. Due(w, m)' = cp[w][m] + 0
      BY <2>5, <3>2 DEF Due, Pend
    <3> QED
      BY <3>1, <3>3
  <2> QED
    BY <2>2, <2>3, <2>5, <2>6 DEF k, p, h
<1>14. ASSUME NEW w \in Way, NEW e \in E
       PROVE  /\ Near(w, e) \in V /\ Far(w, e) \in V
              /\ nk(w)[e] \in Nat
              /\ cp[w][Near(w, e)] + Stepped(Near(w, e)) <= nk(w)[e]
              /\ nk(w)[e] <= cp[w][Far(w, e)]
  <2>1. Near(w, e) \in V /\ Far(w, e) \in V
    BY <1>7 DEF Near, Far
  <2>2. nk(w)[e] = IF e \in moved \ g THEN cp[w][Near(w, e)] + Stepped(Near(w, e)) ELSE heap[w].key[e]
    BY DEF nk, NewKeys
  <2>3. \A f \in g : /\ cp[w][Into(Near(w, f))] + Stepped(Into(Near(w, f))) <= heap[w].key[f]
                     /\ heap[w].key[f] <= cp[w][Into(Far(w, f))]
    <3> SUFFICES ASSUME NEW f \in g
                 PROVE  /\ cp[w][Into(Near(w, f))] + Stepped(Into(Near(w, f))) <= heap[w].key[f]
                        /\ heap[w].key[f] <= cp[w][Into(Far(w, f))]
      OBVIOUS
    <3>1. /\ cp[w][Into(Near(w, f))] + Stepped(Into(Near(w, f))) <= heap[w].key[f]
          /\ heap[w].key[f] <= Due(w, Into(Far(w, f)))
      BY <1>0 DEF Keys
    <3>2. Into(Far(w, f)) \in mts
      BY <1>2, <1>3
    <3> QED
      BY <1>3, <3>1, <3>2
  <2> DEFINE a == cp[w][Near(w, e)]
             s == Stepped(Near(w, e))
             b == cp[w][Far(w, e)]
  <2>4. a \in Nat /\ s \in Nat /\ b \in Nat
    BY <1>3, <1>7, <2>1
  <2>5. CASE e \in moved \ g
    <3>1. PICK f \in g : e = <<Into(f[1]), Into(f[2])>>
      BY <1>5, <2>5
    <3>2. Near(w, e) = Into(Near(w, f)) /\ Far(w, e) = Into(Far(w, f))
      BY <3>1 DEF Near, Far
    <3>3. a + s <= heap[w].key[f] /\ heap[w].key[f] <= b /\ heap[w].key[f] \in Nat
      BY <1>3, <2>3, <3>2
    <3> DEFINE k == heap[w].key[f]
               x == nk(w)[e]
    <3>4. a + s <= k /\ k <= b /\ k \in Nat /\ x = a + s
      BY <2>2, <2>5, <3>3
    <3> HIDE DEF a, s, b, k, x
    <3>5. x \in Nat /\ a + s <= x /\ x <= b
      BY <2>4, <3>4
    <3> QED
      BY <2>1, <3>5 DEF a, s, b, x
  <2>6. CASE e \notin moved \ g
    <3>1. e \in g
      BY <1>7, <2>6
    <3>2. Into(Near(w, e)) = Near(w, e) /\ Into(Far(w, e)) = Far(w, e)
      BY <1>2, <1>b, <2>1
    <3>3. a + s <= heap[w].key[e] /\ heap[w].key[e] <= b /\ heap[w].key[e] \in Nat
      BY <1>3, <2>3, <3>1, <3>2
    <3> QED
      BY <2>1, <2>2, <2>6, <3>3
  <2> QED
    BY <2>5, <2>6
<1>15. PathTypes'
  <2>1. cp' \in [Way -> [V -> Nat]]
    <3>1. cp' = [w \in Way |-> cp'[w]]
      BY <1>1
    <3> QED
      BY <1>13, <3>1
  <2> DEFINE P == UNION {[A -> Nat] : A \in SUBSET V}
             G == [E -> Nat]
             S == SUBSET V
  <2>2. ASSUME NEW w \in Way PROVE heap'[w] \in [key : G, pending : P, seen : S]
    <3> DEFINE k == nk(w)
               p == heap[w].pending
    <3>1. k \in G
      <4>1. k = [e \in E |-> nk(w)[e]]
        BY DEF nk, NewKeys
      <4> QED
        BY <1>14, <4>1
    <3>2. p \in P
      BY <1>3
    <3>3. heap'[w] = [key |-> k, pending |-> p, seen |-> {}] /\ {} \in S
      BY <1>13
    <3> HIDE DEF P, G, S, k, p
    <3> QED
      BY <3>1, <3>2, <3>3
  <2> HIDE DEF P, G, S
  <2>3. heap' \in [Way -> [key : G, pending : P, seen : S]]
    BY <1>1, <2>2
  <2>4. \A w \in Way : DOMAIN heap'[w].pending = {}
    BY <1>1, <1>13
  <2> QED
    BY <1>1, <1>8, <2>1, <2>3, <2>4 DEF PathTypes, P, G, S
<1>16. Keys'
  <2> SUFFICES ASSUME NEW w \in Way, NEW e \in E
               PROVE  /\ cp'[w][Near(w, e)] + Stepped(Near(w, e))' <= heap'[w].key[e]
                      /\ heap'[w].key[e] <= Due(w, Far(w, e))'
    BY <1>1, <1>8 DEF Keys
  <2>1. Near(w, e) \in V /\ Far(w, e) \in V
    BY <1>14
  <2>2. /\ cp'[w][Near(w, e)] = cp[w][Near(w, e)] /\ Stepped(Near(w, e))' = Stepped(Near(w, e))
        /\ Due(w, Far(w, e))' = cp[w][Far(w, e)] /\ heap'[w].key[e] = nk(w)[e]
    BY <1>8, <1>13, <2>1
  <2> QED
    BY <1>14, <2>2
<1>17. Budget'
  <2> DEFINE B == Max({path0, limit})
  <2> SUFFICES ASSUME NEW m \in V PROVE Due("fwd", m)' + Stepped(m)' + Due("rev", m)' <= B
    BY <1>1, <1>8 DEF Budget
  <2>1. Due("fwd", m) + Stepped(m) + Due("rev", m) <= B
    BY <1>0, <1>2 DEF Budget
  <2>2. Due("fwd", m)' = Due("fwd", m) /\ Due("rev", m)' = Due("rev", m) /\ Stepped(m)' = Stepped(m)
    BY <1>3, <1>7, <1>8, <1>13 DEF Way
  <2> QED
    BY <2>1, <2>2
<1> QED
  BY <1>1, <1>9, <1>10, <1>11, <1>12, <1>15, <1>16, <1>17 DEF Inv, Coarse

(***************************************************************************)
(* The result                                                              *)
(***************************************************************************)

LEMMA ReduceStep == Inv /\ Reduce => Inv'
<1> SUFFICES ASSUME Inv, Reduce PROVE Inv'
  OBVIOUS
<1>0. Types /\ Order /\ Groups /\ Valid /\ PathTypes /\ Keys /\ Budget /\ pc = "reduce" /\ pc # "propagate"
  BY DEF Inv, Reduce, Coarse
<1>V. PICK V : V = {owner[v] : v \in Logic}
  OBVIOUS
<1>T. PICK T : T = removeTransitiveEdges(g)
  OBVIOUS
<1>R. PICK R : R = rerouteEdges(T, V)
  OBVIOUS
<1>1. /\ g' = R /\ cost' = Restrict(cost, V) /\ owner' = Restrict(owner, Logic)
      /\ unknown' = {} /\ pc' = "done"
      /\ UNCHANGED <<input, rank, hazards, known, limit, before, fresh, merge, path0>>
  <2> DEFINE V0 == {owner[v] : v \in Logic}
  <2>1. /\ g' = rerouteEdges(removeTransitiveEdges(g), V0) /\ cost' = Restrict(cost, V0)
        /\ owner' = Restrict(owner, Logic) /\ unknown' = {} /\ pc' = "done"
        /\ UNCHANGED <<input, rank, hazards, known, limit, before, fresh, merge, path0>>
    BY DEF Reduce, Logic
  <2>2. V = V0
    BY <1>V
  <2> HIDE DEF V0
  <2> QED
    BY <1>T, <1>R, <2>1, <2>2
<1>2. /\ Exit(input) \in Nat /\ IsFiniteSet(mts) /\ IsFiniteSet(g) /\ g \subseteq mts \X mts
      /\ mts \subseteq 0 .. Exit(input) /\ cost \in [mts -> Nat] /\ limit \in Nat /\ path0 \in Nat
      /\ \A e \in g : e = <<e[1], e[2]>> /\ e[1] \in mts /\ e[2] \in mts
      /\ cp["fwd"] \in [mts -> Nat] /\ cp["rev"] \in [mts -> Nat] /\ \A m \in mts : Stepped(m) \in Nat
  BY <1>0, PathFacts DEF Way, Types
<1>3. Merged = g /\ Nodes = mts
  BY <1>0, <1>2, NoMergeInProgress
<1>4. V \subseteq mts /\ IsFiniteSet(V) /\ \A v \in Logic : v \in DOMAIN owner /\ owner[v] \in V
  <2>1. V \subseteq mts /\ \A v \in Logic : v \in DOMAIN owner /\ owner[v] \in V
    BY <1>0, <1>3, <1>V DEF Types
  <2> QED
    BY <1>2, <2>1, FS_Subset
<1>5. T \subseteq g /\ IsFiniteSet(T) /\ \A a : \A b \in Reach(g, a) : b \in Reach(T, a)
  <2>1. T \subseteq g
    BY <1>T DEF removeTransitiveEdges
  <2>2. Acyclic(g)
    BY <1>0, <1>3 DEF Order
  <2>3. \A a : \A b \in Reach(g, a) : b \in Reach(removeTransitiveEdges(g), a)
    BY <1>2, <2>2, TransitiveReduction
  <2> QED
    BY <1>2, <1>T, <2>1, <2>3, FS_Subset
<1>6. /\ IsFiniteSet(R) /\ R \subseteq V \X V
      /\ \A e \in R : e[2] \in Reach(T, e[1])
      /\ \A a \in V, b \in V : b \in Reach(T, a) => b \in Reach(R, a)
  BY <1>4, <1>5, <1>R, Rerouted
<1>7. \A e \in R : e[2] \in Reach(g, e[1]) /\ e[1] \in V /\ e[2] \in V
  <2>1. \A a : Reach(T, a) \subseteq Reach(g, a)
    BY <1>2, <1>5, ReachMono
  <2> QED
    BY <1>6, <2>1
<1>8. /\ mts' = V /\ cost' \in [V -> Nat] /\ Logic' = Logic /\ DOMAIN owner' = Logic
      /\ \A v \in Logic : owner'[v] = owner[v]
      /\ \A m \in V : cost'[m] = cost[m] /\ Stepped(m)' = Stepped(m)
  <2>1. mts' = V /\ cost' \in [V -> Nat] /\ \A m \in V : cost'[m] = cost[m]
    BY <1>1, <1>2, <1>4 DEF mts, Restrict
  <2>2. \A m \in V : Stepped(m)' = Stepped(m)
    BY <2>1 DEF Stepped
  <2>3. DOMAIN owner' = Logic /\ \A v \in Logic : owner'[v] = owner[v]
    BY <1>1 DEF Restrict
  <2>4. Logic' = Logic
    BY <1>1 DEF Logic
  <2> QED
    BY <2>1, <2>2, <2>3, <2>4
<1>9. Merged' = R /\ Nodes' = V
  BY <1>1, <1>6, <1>8, NoMergeAfter
<1>10. Types'
  BY <1>0, <1>1, <1>2, <1>4, <1>6, <1>8, <1>9 DEF Types
<1>11. Order'
  <2>1. Acyclic(R)
    <3>1. Acyclic(g)
      BY <1>0, <1>3 DEF Order
    <3> QED
      BY <1>2, <1>6, <1>7, <3>1, AcyclicSub
  <2>2. ASSUME NEW a \in Logic, NEW b \in Logic, Before(a, b) PROVE Before(a, b)'
    <3>1. Leads(g, owner[a], owner[b])
      BY <1>3, <2>2 DEF Before
    <3>2. Leads(R, owner[a], owner[b])
      BY <1>4, <1>5, <1>6, <3>1 DEF Leads
    <3> QED
      BY <1>8, <1>9, <3>2 DEF Before
  <2>3. input' = input /\ Handled' = Handled
    BY <1>1 DEF Handled
  <2>4. /\ \A k \in DOMAIN input.variables : /\ input.variables[k].writers \subseteq Logic
                                             /\ input.variables[k].readers \subseteq Logic
        /\ \A k \in Handled : input.hazards[k] \subseteq Logic
    BY <1>0, LogicOfInput
  <2> QED
    BY <1>0, <1>9, <2>1, <2>2, <2>3, <2>4 DEF Order
<1>12. Groups'
  BY <1>0, <1>1, <1>8 DEF Groups
<1>13. Valid'
  <2>1. DOMAIN known = {}
    BY <1>0 DEF Valid, Candidates
  <2> QED
    BY <1>1, <2>1 DEF Valid, Candidates
<1>14. Fits'
  <2> DEFINE f == cp["fwd"]
             B == Max({path0, limit})
             wt == [m \in mts |-> Stepped(m)]
             ff == [m \in V |-> f[m]]
  <2>1. f \in [mts -> Nat] /\ wt \in [mts -> Nat] /\ \A m \in mts : wt[m] = Stepped(m)
    BY <1>2
  <2>2. \A e \in g : f[e[1]] + wt[e[1]] <= f[e[2]]
    BY <1>0, <1>2, <2>1, PathsCover DEF Way, Near, Far
  <2>3. \A m \in mts : f[m] + Stepped(m) <= B
    <3> SUFFICES ASSUME NEW m \in mts PROVE f[m] + Stepped(m) <= B
      OBVIOUS
    <3>1. Due("fwd", m) + Stepped(m) + Due("rev", m) <= B
      BY <1>0, <1>3 DEF Budget
    <3>2. Due("fwd", m) = f[m] + 0 /\ Due("rev", m) = cp["rev"][m] + 0
      BY <1>0 DEF PathTypes, Due, Pend, Way
    <3>3. f[m] \in Nat /\ cp["rev"][m] \in Nat /\ Stepped(m) \in Nat /\ B \in Nat
      BY <1>2, MaxOfTwo
    <3> HIDE DEF f, B
    <3> QED
      BY <3>1, <3>2, <3>3
  <2> HIDE DEF f, wt
  <2>4. \A e \in R : f[e[1]] + wt[e[1]] <= f[e[2]]
    <3> SUFFICES ASSUME NEW e \in R PROVE f[e[1]] + wt[e[1]] <= f[e[2]]
      OBVIOUS
    <3> DEFINE a == e[1]
               b == e[2]
    <3>1. a \in mts /\ b \in Reach(g, a)
      BY <1>4, <1>7
    <3> HIDE DEF a, b
    <3>2. f[a] + wt[a] <= f[b]
      BY ONLY <1>2, <2>1, <2>2, <3>1, Rises
    <3> QED
      BY <3>2 DEF a, b
  <2>5. ff \in [V -> Nat] /\ \A m \in V : ff[m] = f[m]
    BY <1>4, <2>1
  <2> HIDE DEF ff
  <2>6. \A e \in R : ff[e[1]] + Stepped(e[1])' <= ff[e[2]]
    <3> SUFFICES ASSUME NEW e \in R PROVE ff[e[1]] + Stepped(e[1])' <= ff[e[2]]
      OBVIOUS
    <3>1. e[1] \in V /\ e[2] \in V /\ e[1] \in mts
      BY <1>4, <1>7
    <3>2. Stepped(e[1])' = wt[e[1]]
      BY <1>8, <2>1, <3>1
    <3> QED
      BY <2>4, <2>5, <3>1, <3>2
  <2>7. \A m \in V : ff[m] + Stepped(m)' <= B
    <3> SUFFICES ASSUME NEW m \in V PROVE ff[m] + Stepped(m)' <= B
      OBVIOUS
    <3>1. Stepped(m)' = Stepped(m) /\ m \in mts
      BY <1>4, <1>8
    <3> QED
      BY <2>3, <2>5, <3>1
  <2>8. B = Max({path0', limit'}) /\ mts' = V /\ g' = R
    BY <1>1, <1>8
  <2> QED
    BY <2>5, <2>6, <2>7, <2>8 DEF Fits
<1> QED
  BY <1>1, <1>10, <1>11, <1>12, <1>13, <1>14 DEF Inv, Coarse

--------------------------------------------------------------------------------

(***************************************************************************)
(* The theorems                                                            *)
(***************************************************************************)

LEMMA StutterStep == Inv /\ UNCHANGED vars => Inv'
<1> SUFFICES ASSUME Inv, UNCHANGED vars PROVE Inv'
  OBVIOUS
<1>1. UNCHANGED <<input, pc, g, cost, owner, rank, hazards, cp, heap, known, unknown, limit,
                  before, fresh, merge, path0>>
  BY DEF vars
<1>2. /\ mts' = mts /\ Logic' = Logic /\ Handled' = Handled /\ Candidates' = Candidates
      /\ \A m : Into(m)' = Into(m) /\ Stepped(m)' = Stepped(m)
      /\ \A w, m : Due(w, m)' = Due(w, m)
  BY <1>1 DEF mts, Logic, Handled, Candidates, Into, Stepped, Due, Pend
<1>3. Merged' = Merged /\ Nodes' = Nodes
  BY <1>1, <1>2 DEF Merged, Nodes
<1>4. /\ \A a, b : Before(a, b)' <=> Before(a, b)
      /\ \A w, a, b : Behind(w, a, b)' <=> Behind(w, a, b)
  BY <1>1, <1>3 DEF Before, Behind
<1>5. Types => Types'
  BY <1>1, <1>2, <1>3 DEF Types
<1>6. Order => Order'
  BY <1>1, <1>2, <1>3, <1>4 DEF Order
<1>7. Groups => Groups'
  BY <1>1, <1>2 DEF Groups
<1>8. Valid => Valid'
  BY <1>1, <1>2 DEF Valid
<1>9. (Ranked => Ranked') /\ (Ends => Ends')
  BY <1>1, <1>2 DEF Ranked, Ends
<1>10. PathTypes => PathTypes'
  BY <1>1, <1>2 DEF PathTypes
<1>11. Keys => Keys'
  <2> SUFFICES ASSUME Keys, NEW w \in Way, NEW e \in g
               PROVE  /\ cp[w][Into(Near(w, e))] + Stepped(Into(Near(w, e))) <= heap[w].key[e]
                      /\ heap[w].key[e] <= Due(w, Into(Far(w, e)))
    BY <1>1 DEF Keys, Into, Stepped, Due, Pend
  <2> QED
    BY DEF Keys
<1>12. Budget => Budget'
  BY <1>1, <1>2, <1>3 DEF Budget
<1>13. Pending => Pending'
  BY <1>1, <1>2, <1>4 DEF Pending
<1>14. Fits => Fits'
  BY <1>1, <1>2 DEF Fits
<1> QED
  BY <1>1, <1>5, <1>6, <1>7, <1>8, <1>9, <1>10, <1>11, <1>12, <1>13, <1>14 DEF Inv

\* The invariant: the graph has no cycle, the logic is in order, and the paths, keys and
\* growths bound each other, before, in and after every merge of the partitioner.
THEOREM PartitionerInvariant == Spec => []Inv
<1>1. Init => Inv
  BY InitInv
<1>2. Inv /\ [Next]_vars => Inv'
  <2> SUFFICES ASSUME Inv, [Next]_vars PROVE Inv'
    OBVIOUS
  <2>1. CASE mergeSameRankTasks
    BY <2>1, HazardStep
  <2>2. CASE partInitCriticalPaths
    BY <2>2, FirstPathsStep
  <2>3. CASE FillScoreboard
    BY <2>3, FillStep
  <2>4. CASE NothingKnown \/ StaleScore \/ RescoreFirst \/ TooManyMTasks \/ Exhausted \/ Discard
    BY <2>4, ScoreboardSteps
  <2>5. CASE Contract
    BY <2>5, ContractStep
  <2>6. ASSUME NEW w \in Way, Propagate(w) PROVE Inv'
    BY <2>6, PropagateStep
  <2>7. CASE Redirect
    BY <2>7, RedirectStep
  <2>8. CASE Reduce
    BY <2>8, ReduceStep
  <2>9. CASE Done
    BY <2>9, StutterStep DEF Done
  <2>10. CASE UNCHANGED vars
    BY <2>10, StutterStep
  <2> QED
    BY <2>1, <2>2, <2>3, <2>4, <2>5, <2>6, <2>7, <2>8, <2>9, <2>10 DEF Next
<1> QED
  BY <1>1, <1>2, PTL DEF Spec

\* The mtask graph has no cycle and keeps the order of the logic, for every move graph: the
\* search that mergeWouldCreateCycle prunes never lets a merge close a cycle.
THEOREM PartitionIsSound == Spec => []SoundPartition
<1>1. Inv => SoundPartition
  <2> SUFFICES ASSUME Inv, pc # "propagate"
               PROVE  /\ \A m \in mts : m \notin Reach(g, m)
                      /\ \A k \in DOMAIN input.variables :
                          \A w \in input.variables[k].writers, r \in input.variables[k].readers :
                              Ordered(owner[w], owner[r])
    BY DEF SoundPartition
  <2>1. Types /\ Order
    BY DEF Inv
  <2>2. Merged = g
    BY <2>1, NoMergeInProgress DEF Types
  <2>3. \A a, b : Before(a, b) => Ordered(owner[a], owner[b])
    BY <2>2 DEF Before, Leads, Ordered
  <2> QED
    BY <2>1, <2>2, <2>3 DEF Order, Acyclic
<1> QED
  BY <1>1, PartitionerInvariant, PTL

\* Writers of one variable stay ordered through every merge (FixDataHazards, Contraction).
THEOREM WritersStayOrdered == Spec => []WritersOrdered
<1>1. Inv => WritersOrdered
  <2> SUFFICES ASSUME Inv, pc \in {"contract", "reduce", "done"},
                      NEW k \in DOMAIN input.hazards, NEW a \in input.hazards[k], NEW b \in input.hazards[k]
               PROVE  Ordered(owner[a], owner[b]) \/ Ordered(owner[b], owner[a])
    BY DEF WritersOrdered
  <2>1. Types /\ Order /\ Groups
    BY DEF Inv
  <2>2. Merged = g
    BY <2>1, NoMergeInProgress DEF Types
  <2>3. k \in Handled
    <3>1. hazards = <<>> /\ Len(hazards) = 0
      BY <2>1 DEF Groups
    <3>2. input.hazards \in Seq(SUBSET Logic)
      BY <2>1, InputFacts DEF Types, Logic
    <3>3. Len(input.hazards) \in Nat /\ k \in 1 .. Len(input.hazards)
      BY <3>2
    <3> QED
      BY <3>1, <3>3 DEF Handled
  <2>4. \A x, y : Before(x, y) => Ordered(owner[x], owner[y])
    BY <2>2 DEF Before, Leads, Ordered
  <2> QED
    BY <2>1, <2>3, <2>4 DEF Order
<1> QED
  BY <1>1, PartitionerInvariant, PTL

\* PropagateCp gives an mtask its path once in a pass, and it is the path of its longest edge.
THEOREM PropagatesOnce == Spec => []PropagateOnce
<1>1. Inv => PropagateOnce
  <2> SUFFICES ASSUME Inv, pc = "propagate", NEW w \in Way, DOMAIN heap[w].pending # {}
               PROVE  /\ DOMAIN heap[w].pending \cap heap[w].seen = {}
                      /\ cp[w][MostGrown(heap[w])] + heap[w].pending[MostGrown(heap[w])]
                           = Max({heap[w].key[e] : e \in Arriving(w, g, MostGrown(heap[w]))})
    BY DEF PropagateOnce
  <2>0. Types /\ Order /\ PathTypes /\ Keys /\ Pending
    BY DEF Inv, Coarse
  <2>1. DOMAIN heap[w].pending \cap heap[w].seen = {}
    BY <2>0 DEF Pending
  <2> DEFINE m == MostGrown(heap[w])
             key == heap[w].key
             A == Arriving(w, g, m)
             S == {key[e] : e \in A}
  <2>2. /\ Exit(input) \in Nat /\ IsFiniteSet(g) /\ \A e \in g : key[e] \in Nat
        /\ DOMAIN heap[w].pending \subseteq mts /\ mts \subseteq 0 .. Exit(input)
        /\ \A o \in DOMAIN heap[w].pending : heap[w].pending[o] \in Nat
        /\ \A x \in mts : Due(w, x) \in Nat
    BY <2>0, PathFacts DEF Types
  <2>3. m \in DOMAIN heap[w].pending
    <3>1. DOMAIN heap[w].pending \subseteq 0 .. Exit(input)
      BY <2>2
    <3> QED
      BY <2>2, <3>1, MostGrownIn
  <2> HIDE DEF m, key
  <2>4. Into(m) = m
    <3>1. Behind(w, merge.recipient, m)
      BY <2>0, <2>3 DEF Pending
    <3> QED
      BY <2>0, <3>1, BehindFacts
  <2>5. cp[w][m] + heap[w].pending[m] = Due(w, m) /\ Due(w, m) \in Nat
    BY <2>2, <2>3 DEF Due, Pend
  <2>6. \A y \in S : y <= Due(w, m)
    BY <2>0, <2>4 DEF Keys, Arriving, key
  <2>7. Due(w, m) \in S
    BY <2>0, <2>3 DEF Pending, Arriving, key
  <2>8. S \subseteq Nat /\ IsFiniteSet(S)
    <3>1. A \subseteq g
      BY DEF Arriving
    <3>2. IsFiniteSet(A)
      BY <2>2, <3>1, FS_Subset
    <3>3. S \subseteq Nat
      BY <2>2, <3>1
    <3> HIDE DEF A
    <3> QED
      BY <3>2, <3>3, FiniteImage
  <2> HIDE DEF S
  <2>9. Max(S) \in S /\ Max(S) \in Nat /\ \A y \in S : y <= Max(S)
    BY <2>7, <2>8, MaxOfNats
  <2>10. Max(S) = Due(w, m)
    BY <2>5, <2>6, <2>7, <2>9
  <2> QED
    BY <2>1, <2>5, <2>10 DEF m, key, S
<1> QED
  BY <1>1, PartitionerInvariant, PTL

\* Whatever the merges, every mtask has a place within the budget.
LEMMA AlwaysFits ==
    ASSUME Inv, pc \in {"contract", "reduce", "done"}
    PROVE  Fits
<1>1. CASE pc = "done"
  BY <1>1 DEF Inv
<1>2. CASE pc \in {"contract", "reduce"}
  <2>0. Types /\ PathTypes /\ Keys /\ Budget /\ pc # "propagate"
    BY <1>2 DEF Inv, Coarse
  <2> DEFINE f == cp["fwd"]
             B == Max({path0, limit})
  <2>1. /\ f \in [mts -> Nat] /\ \A m \in mts : cp["rev"][m] \in Nat /\ Stepped(m) \in Nat
        /\ B \in Nat
    BY <2>0, PathFacts, MaxOfTwo DEF Way, Types
  <2>2. \A e \in g : f[e[1]] + Stepped(e[1]) <= f[e[2]]
    BY <2>0, PathsCover DEF Way, Near, Far
  <2>3. \A m \in mts : f[m] + Stepped(m) <= B
    <3> SUFFICES ASSUME NEW m \in mts PROVE f[m] + Stepped(m) <= B
      OBVIOUS
    <3>1. Due("fwd", m) + Stepped(m) + Due("rev", m) <= B
      BY <2>0, NoMergeInProgress DEF Budget, Types
    <3>2. Due("fwd", m) = f[m] + 0 /\ Due("rev", m) = cp["rev"][m] + 0
      BY <2>0 DEF PathTypes, Due, Pend, Way
    <3>3. f[m] \in Nat /\ cp["rev"][m] \in Nat /\ Stepped(m) \in Nat
      BY <2>1
    <3> HIDE DEF f, B
    <3> QED
      BY <2>1, <3>1, <3>2, <3>3
  <2> HIDE DEF f
  <2> QED
    BY <2>1, <2>2, <2>3 DEF Fits
<1> QED
  BY <1>1, <1>2

\* The critical path stays within the larger of the score limit and the path before the first
\* merge: the local scores of Contraction bound the path of the whole graph.
THEOREM WithinBudget == Spec => []PathWithinBudget
<1>1. Inv => PathWithinBudget
  <2> SUFFICES ASSUME Inv, pc \in {"contract", "reduce", "done"}
               PROVE  CriticalPath <= Max({path0, limit})
    BY DEF PathWithinBudget
  <2> DEFINE B == Max({path0, limit})
             weight == [m \in mts |-> stepCost(cost[m])]
             path == PathCosts("fwd", g, mts, weight)
             total == [m \in mts |-> path[m] + weight[m]]
  <2>0. Types /\ Order
    BY DEF Inv
  <2>1. /\ Exit(input) \in Nat /\ mts \subseteq 0 .. Exit(input) /\ g \subseteq mts \X mts
        /\ cost \in [mts -> Nat] /\ limit \in Nat /\ path0 \in Nat
    BY <2>0, InputFacts DEF Types
  <2>2. IsFiniteSet(mts) /\ IsFiniteSet(g) /\ \A e \in g : e[1] \in mts /\ e[2] \in mts
    BY <2>1, FiniteGraph
  <2>3. Acyclic(g)
    <3>1. Merged = g
      BY <2>1, NoMergeInProgress
    <3> QED
      BY <2>0, <3>1 DEF Order
  <2>4. weight \in [mts -> Nat] /\ \A m \in mts : weight[m] = Stepped(m)
    BY <2>1, StepCosts DEF Stepped
  <2>5. B \in Nat
    BY <2>1, MaxOfTwo
  <2>6. PICK f \in [mts -> Nat] : /\ \A e \in g : f[e[1]] + Stepped(e[1]) <= f[e[2]]
                                  /\ \A m \in mts : f[m] + Stepped(m) <= B
    BY AlwaysFits DEF Fits
  <2>7. CriticalPath = Largest(total, mts)
    <3>1. {total[m] : m \in mts} = {path[m] + weight[m] : m \in mts}
      OBVIOUS
    <3>2. CriticalPath = Max({0} \cup {path[m] + weight[m] : m \in mts})
      BY DEF CriticalPath
    <3> HIDE DEF total, path, weight
    <3> QED
      BY <3>1, <3>2 DEF Largest
  <2> HIDE DEF weight, B
  <2>8. path \in [mts -> Nat] /\ \A m \in mts : path[m] <= f[m]
    <3>1. \A e \in g : f[e[1]] + weight[e[1]] <= f[e[2]]
      BY <2>2, <2>4, <2>6
    <3>2. f \in [mts -> Nat] /\ weight \in [mts -> Nat]
      BY <2>4, <2>6
    <3>3. \A v \in mts : PathCosts("fwd", g, mts, weight)[v] <= f[v]
      BY ONLY <2>1, <2>2, <2>3, <3>1, <3>2, PathsBelow
    <3>4. PathCosts("fwd", g, mts, weight) \in [mts -> Nat]
      BY ONLY <2>1, <2>2, <2>3, <3>2, LongestPaths
    <3> QED
      BY <3>3, <3>4
  <2> HIDE DEF path
  <2>9. \A m \in mts : total[m] \in Nat /\ total[m] <= B
    <3> SUFFICES ASSUME NEW m \in mts PROVE total[m] \in Nat /\ total[m] <= B
      OBVIOUS
    <3>1. /\ path[m] \in Nat /\ weight[m] \in Nat /\ f[m] \in Nat /\ path[m] <= f[m]
          /\ weight[m] = Stepped(m) /\ f[m] + Stepped(m) <= B /\ total[m] = path[m] + weight[m]
      BY <2>4, <2>6, <2>8
    <3> QED
      BY <2>5, <3>1
  <2> HIDE DEF total
  <2>10. Largest(total, mts) = 0 \/ \E m \in mts : total[m] = Largest(total, mts)
    BY <2>2, <2>9, LargestValue
  <2> QED
    BY <2>5, <2>7, <2>9, <2>10 DEF B
<1> QED
  BY <1>1, PartitionerInvariant, PTL

\* Whether a path exists, as pathExistsFrom's comment has it: the pruning by critical paths
\* changes how much is searched, never what is found.
SearchIsExact ==
    pc \in {"scoreboard", "contract", "reduce"} =>
        \A a, b \in mts : \A excluded \in SUBSET g :
            pathExistsFrom(a, b, excluded) <=> b \in Reach(g \ excluded, a)

\* The pruned search of mergeWouldCreateCycle is exact between merges.
THEOREM PrunedSearchIsExact == Spec => []SearchIsExact
<1>1. Inv => SearchIsExact
  <2> SUFFICES ASSUME Inv, pc \in {"scoreboard", "contract", "reduce"},
                      NEW a \in mts, NEW b \in mts, NEW X \in SUBSET g
               PROVE  pathExistsFrom(a, b, X) <=> b \in Reach(g \ X, a)
    BY DEF SearchIsExact
  <2>0. Types /\ PathTypes /\ Keys /\ pc # "propagate"
    BY DEF Inv, Coarse
  <2>1. ~pathExistsFrom(a, b, X) => b \notin Reach(g \ X, a)
    BY <2>0, SearchExact
  <2>2. pathExistsFrom(a, b, X) => b \in Reach(g \ X, a)
    <3> DEFINE F == {e \in g : Worthwhile(e[1], b)} \ X
               E == g \ X
    <3>1. IsFiniteSet(g)
      BY <2>0, PathFacts DEF Way
    <3>2. F \subseteq E /\ IsFiniteSet(E)
      BY <3>1, FS_Subset
    <3>3. pathExistsFrom(a, b, X) <=> b \in Reach(F, a)
      BY DEF pathExistsFrom
    <3> HIDE DEF F, E
    <3>4. Reach(F, a) \subseteq Reach(E, a)
      BY <3>2, ReachMono
    <3> QED
      BY <3>3, <3>4 DEF E
  <2> QED
    BY <2>1, <2>2
<1> QED
  BY <1>1, PartitionerInvariant, PTL

\* The half of CriticalPathsClose that soundness needs: between merges no key and no critical
\* path is below the value that its neighbours imply, one way or the other.
CriticalPathsCover ==
    pc \in {"scoreboard", "contract", "reduce"} =>
        \A w \in Way :
            /\ \A e \in g : heap[w].key[e] >= cp[w][Near(w, e)] + stepCost(cost[Near(w, e)])
            /\ \A m \in mts :
                cp[w][m] >= Max({0} \cup {cp[w][Near(w, e)] + stepCost(cost[Near(w, e)]) :
                                             e \in Arriving(w, g, m)})

\* partCheckCriticalPaths' lower bounds hold after any number of merges and propagations.
THEOREM PathsStayCovered == Spec => []CriticalPathsCover
<1>1. Inv => CriticalPathsCover
  <2> SUFFICES ASSUME Inv, pc \in {"scoreboard", "contract", "reduce"}, NEW w \in Way
               PROVE  /\ \A e \in g : heap[w].key[e] >= cp[w][Near(w, e)] + stepCost(cost[Near(w, e)])
                      /\ \A m \in mts :
                          cp[w][m] >= Max({0} \cup {cp[w][Near(w, e)] + stepCost(cost[Near(w, e)]) :
                                                       e \in Arriving(w, g, m)})
    BY DEF CriticalPathsCover
  <2>0. Types /\ PathTypes /\ Keys /\ pc # "propagate"
    BY DEF Inv, Coarse
  <2> DEFINE val == [e \in g |-> cp[w][Near(w, e)] + stepCost(cost[Near(w, e)])]
  <2>1. /\ IsFiniteSet(g) /\ \A e \in g : Near(w, e) \in mts /\ Far(w, e) \in mts /\ heap[w].key[e] \in Nat
        /\ \A m \in mts : cp[w][m] \in Nat /\ Stepped(m) \in Nat
    BY <2>0, PathFacts
  <2>2. \A e \in g : val[e] \in Nat /\ val[e] = cp[w][Near(w, e)] + Stepped(Near(w, e))
    BY <2>1 DEF Stepped
  <2>3. \A e \in g : val[e] <= heap[w].key[e] /\ val[e] <= cp[w][Far(w, e)]
    BY <2>0, <2>2, PathsCover
  <2>4. \A e \in g : heap[w].key[e] >= val[e]
    BY <2>1, <2>2, <2>3
  <2>5. ASSUME NEW m \in mts
        PROVE  cp[w][m] >= Max({0} \cup {cp[w][Near(w, e)] + stepCost(cost[Near(w, e)]) : e \in Arriving(w, g, m)})
    <3> DEFINE A == Arriving(w, g, m)
    <3>1. A \subseteq g /\ \A e \in A : Far(w, e) = m
      BY DEF Arriving
    <3>2. IsFiniteSet(A) /\ \A e \in A : val[e] \in Nat /\ val[e] <= cp[w][m]
      BY <2>1, <2>2, <2>3, <3>1, FS_Subset
    <3>3. {cp[w][Near(w, e)] + stepCost(cost[Near(w, e)]) : e \in A} = {val[e] : e \in A}
      <4>1. \A e \in A : val[e] = cp[w][Near(w, e)] + stepCost(cost[Near(w, e)])
        BY <3>1
      <4> HIDE DEF val, A
      <4> QED
        BY <4>1
    <3> HIDE DEF A, val
    <3>4. Largest(val, A) \in Nat /\ (Largest(val, A) = 0 \/ \E e \in A : val[e] = Largest(val, A))
      BY <3>2, LargestValue
    <3>5. cp[w][m] >= Largest(val, A)
      BY <2>1, <3>2, <3>4
    <3> QED
      BY <3>3, <3>5 DEF Largest, A
  <2> QED
    BY <2>4, <2>5
<1> QED
  BY <1>1, PartitionerInvariant, PTL
================================================================================
