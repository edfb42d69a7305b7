---------------------------- MODULE TimingEvalProofs ----------------------------
(***************************************************************************)
(* Proofs about the simulation loop, for any number of coroutines,         *)
(* sensitivity items, trigger schedulers, regions and delays: types, that  *)
(* triggers reach every region, that `pre' logic runs once, that no time   *)
(* slot is missed, that eval returns only when nothing is left to do, and  *)
(* that a suspended coroutine is held once.                                *)
(***************************************************************************)
EXTENDS TimingEval, SequenceTheorems, FiniteSetTheorems, WellFoundedInduction, TLAPS

--------------------------------------------------------------------------------
(* Queues of distinct elements. *)

Holds(q, b) == \E i \in 1 .. Len(q) : q[i] = b
Distinct(q) == \A i, j \in 1 .. Len(q) : q[i] = q[j] => i = j

\* Taking the head of a queue.
LEMMA TakeHead ==
  ASSUME NEW S, NEW q \in Seq(S), q # <<>>
  PROVE  /\ Head(q) \in S /\ Tail(q) \in Seq(S)
         /\ Len(q) \in Nat \ {0} /\ Len(Tail(q)) = Len(q) - 1
         /\ Head(q) = q[1]
         /\ \A i \in 1 .. Len(q) - 1 : Tail(q)[i] = q[i + 1]
BY HeadTailProperties, EmptySeq, LenProperties

LEMMA TakeHeadHolds ==
  ASSUME NEW S, NEW q \in Seq(S), q # <<>>, Distinct(q)
  PROVE  /\ Distinct(Tail(q))
         /\ ~Holds(Tail(q), Head(q))
         /\ \A b : Holds(q, b) <=> b = Head(q) \/ Holds(Tail(q), b)
<1> DEFINE n == Len(q)
           t == Tail(q)
<1>1. n \in Nat \ {0} /\ Len(t) = n - 1 /\ Head(q) = q[1]
      /\ \A i \in 1 .. n - 1 : t[i] = q[i + 1]
  BY TakeHead
<1>2. \A i, j \in 1 .. n : q[i] = q[j] => i = j
  BY DEF Distinct
<1>h. HIDE DEF t, n
<1>3. \A i, j \in 1 .. n - 1 : t[i] = t[j] => i = j
  <2> SUFFICES ASSUME NEW i \in 1 .. n - 1, NEW j \in 1 .. n - 1, t[i] = t[j] PROVE i = j
    OBVIOUS
  <2>1. i + 1 \in 1 .. n /\ j + 1 \in 1 .. n
    BY <1>1
  <2>2. q[i + 1] = q[j + 1]
    BY <1>1
  <2>3. i + 1 = j + 1
    BY <1>2, <2>1, <2>2
  <2> QED
    BY <2>3
<1>4. \A i \in 1 .. n - 1 : t[i] # q[1]
  <2> SUFFICES ASSUME NEW i \in 1 .. n - 1, t[i] = q[1] PROVE FALSE
    OBVIOUS
  <2>1. i + 1 \in 1 .. n /\ 1 \in 1 .. n /\ i + 1 # 1
    BY <1>1
  <2> QED
    BY <1>1, <1>2, <2>1
<1>5. ASSUME NEW b
      PROVE  (\E i \in 1 .. n : q[i] = b) <=> b = q[1] \/ \E i \in 1 .. n - 1 : t[i] = b
  <2>1. ASSUME NEW i \in 1 .. n, q[i] = b, i # 1 PROVE \E k \in 1 .. n - 1 : t[k] = b
    <3>1. i - 1 \in 1 .. n - 1 /\ (i - 1) + 1 = i
      BY <1>1, <2>1
    <3> QED
      BY <1>1, <2>1, <3>1
  <2>2. ASSUME NEW i \in 1 .. n - 1, t[i] = b PROVE \E k \in 1 .. n : q[k] = b
    <3>1. i + 1 \in 1 .. n
      BY <1>1
    <3> QED
      BY <1>1, <2>2, <3>1
  <2>3. 1 \in 1 .. n
    BY <1>1
  <2> QED
    BY <2>1, <2>2, <2>3
<1> QED
  BY <1>1, <1>3, <1>4, <1>5 DEF Distinct, Holds, t, n

\* Adding to the end of a queue.
LEMMA AddLast ==
  ASSUME NEW S, NEW q \in Seq(S), NEW x \in S
  PROVE  /\ Append(q, x) \in Seq(S) /\ Append(q, x) # <<>>
         /\ Len(q) \in Nat /\ Len(Append(q, x)) = Len(q) + 1
         /\ \A i \in 1 .. Len(q) : Append(q, x)[i] = q[i]
         /\ Append(q, x)[Len(q) + 1] = x
BY AppendProperties, LenProperties

LEMMA AddLastHolds ==
  ASSUME NEW S, NEW q \in Seq(S), NEW x \in S, Distinct(q), ~Holds(q, x)
  PROVE  /\ Distinct(Append(q, x))
         /\ \A b : Holds(Append(q, x), b) <=> Holds(q, b) \/ b = x
<1> DEFINE n == Len(q)
           a == Append(q, x)
<1>1. n \in Nat /\ Len(a) = n + 1 /\ (\A i \in 1 .. n : a[i] = q[i]) /\ a[n + 1] = x
  BY AddLast
<1>2. (\A i, j \in 1 .. n : q[i] = q[j] => i = j) /\ (\A i \in 1 .. n : q[i] # x)
  BY DEF Distinct, Holds
<1>h. HIDE DEF a, n
<1>3. \A i \in 1 .. n + 1 : i \in 1 .. n \/ i = n + 1
  BY <1>1
<1>4. n + 1 \in 1 .. n + 1 /\ \A i \in 1 .. n : i \in 1 .. n + 1
  BY <1>1
<1> QED
  BY <1>1, <1>2, <1>3, <1>4 DEF Distinct, Holds, a, n

\* One queue appended to another that shares no element with it.
LEMMA ConcatHolds ==
  ASSUME NEW S, NEW p \in Seq(S), NEW q \in Seq(S), Distinct(p), Distinct(q),
         \A b \in S : ~(Holds(p, b) /\ Holds(q, b))
  PROVE  /\ p \o q \in Seq(S) /\ Distinct(p \o q)
         /\ \A b : Holds(p \o q, b) <=> Holds(p, b) \/ Holds(q, b)
<1> DEFINE m == Len(p)
           n == Len(q)
           a == p \o q
<1>1. /\ m \in Nat /\ n \in Nat /\ Len(a) = m + n /\ a \in Seq(S)
      /\ \A i \in 1 .. m + n : a[i] = IF i <= m THEN p[i] ELSE q[i - m]
  BY ConcatProperties, LenProperties
<1>2. /\ \A i, j \in 1 .. m : p[i] = p[j] => i = j
      /\ \A i, j \in 1 .. n : q[i] = q[j] => i = j
  BY DEF Distinct
<1>3. \A i \in 1 .. m, j \in 1 .. n : p[i] # q[j]
  <2> SUFFICES ASSUME NEW i \in 1 .. m, NEW j \in 1 .. n, p[i] = q[j] PROVE FALSE
    OBVIOUS
  <2>1. p[i] \in S
    BY ElementOfSeq
  <2> QED
    BY <2>1 DEF Holds
<1>h. HIDE DEF m, n, a
<1>4. \A i \in 1 .. m + n : \/ i \in 1 .. m /\ a[i] = p[i]
                            \/ i - m \in 1 .. n /\ a[i] = q[i - m] /\ ~(i \in 1 .. m)
  BY <1>1
<1>5. ASSUME NEW i \in 1 .. m + n, NEW j \in 1 .. m + n, a[i] = a[j] PROVE i = j
  <2>1. CASE i \in 1 .. m /\ j \in 1 .. m
    BY <1>1, <1>2, <1>5, <2>1
  <2>2. CASE ~(i \in 1 .. m) /\ ~(j \in 1 .. m)
    <3>1. i - m \in 1 .. n /\ j - m \in 1 .. n /\ q[i - m] = q[j - m]
      BY <1>4, <1>5, <2>2
    <3>2. i - m = j - m
      BY <1>2, <3>1
    <3> QED
      BY <1>1, <3>2
  <2> QED
    BY <1>3, <1>4, <1>5, <2>1, <2>2
<1>6. ASSUME NEW b
      PROVE  (\E i \in 1 .. m + n : a[i] = b)
               <=> (\E i \in 1 .. m : p[i] = b) \/ (\E i \in 1 .. n : q[i] = b)
  <2>1. \A i \in 1 .. m : i \in 1 .. m + n /\ a[i] = p[i]
    BY <1>1
  <2>2. \A i \in 1 .. n : i + m \in 1 .. m + n /\ a[i + m] = q[i]
    BY <1>1
  <2> QED
    BY <1>4, <2>1, <2>2
<1> QED
  BY <1>1, <1>5, <1>6 DEF Holds, Distinct, m, n, a

\* The empty queue.
LEMMA EmptyHolds ==
  ASSUME NEW S
  PROVE  <<>> \in Seq(S) /\ Distinct(<<>>) /\ (\A b : ~Holds(<<>>, b)) /\ Len(<<>>) = 0
BY EmptySeq DEF Distinct, Holds

\* Positions in a concatenation.
LEMMA ConcatIndex ==
  ASSUME NEW S, NEW p \in Seq(S), NEW q \in Seq(S)
  PROVE  /\ p \o q \in Seq(S) /\ Len(p) \in Nat /\ Len(q) \in Nat
         /\ Len(p \o q) = Len(p) + Len(q)
         /\ \A i \in 1 .. Len(p) : (p \o q)[i] = p[i]
         /\ \A i \in 1 .. Len(q) : (p \o q)[Len(p) + i] = q[i]
<1>1. /\ p \o q \in Seq(S) /\ Len(p) \in Nat /\ Len(q) \in Nat
      /\ Len(p \o q) = Len(p) + Len(q)
      /\ \A i \in 1 .. Len(p) + Len(q) :
           (p \o q)[i] = IF i <= Len(p) THEN p[i] ELSE q[i - Len(p)]
  BY ConcatProperties, LenProperties
<1>2. \A i \in 1 .. Len(p) : (p \o q)[i] = p[i]
  BY <1>1
<1>3. ASSUME NEW i \in 1 .. Len(q) PROVE (p \o q)[Len(p) + i] = q[i]
  <2>1. Len(p) + i \in 1 .. Len(p) + Len(q) /\ ~(Len(p) + i <= Len(p)) /\ (Len(p) + i) - Len(p) = i
    BY <1>1
  <2> QED
    BY <1>1, <2>1
<1> QED
  BY <1>1, <1>2, <1>3

\* An element put in behind the first n.
Behind(q, n, x) == SubSeq(q, 1, n) \o <<x>> \o SubSeq(q, n + 1, Len(q))

LEMMA PutBehind ==
  ASSUME NEW S, NEW q \in Seq(S), NEW n \in 0 .. Len(q), NEW x \in S
  PROVE  /\ Behind(q, n, x) \in Seq(S) /\ Len(q) \in Nat
         /\ Len(Behind(q, n, x)) = Len(q) + 1
         /\ \A i \in 1 .. n : Behind(q, n, x)[i] = q[i]
         /\ Behind(q, n, x)[n + 1] = x
         /\ \A i \in n + 2 .. Len(q) + 1 : Behind(q, n, x)[i] = q[i - 1]
<1> DEFINE l == Len(q)
           u == SubSeq(q, 1, n)
           y == <<x>>
           v == SubSeq(q, n + 1, l)
           w == u \o y
           r == w \o v
<1>1. l \in Nat /\ n \in Nat /\ n <= l /\ \A i \in 1 .. l : q[i] \in S
  BY LenProperties, ElementOfSeq
<1>2. /\ u \in Seq(S) /\ Len(u) = n
      /\ \A i \in 1 .. n : u[i] = q[i]
  <2>1. \A i \in 1 .. n : q[i] \in S
    BY <1>1
  <2>2. /\ u \in Seq(S)
        /\ Len(u) = IF 1 <= n THEN n - 1 + 1 ELSE 0
        /\ \A i \in 1 .. n - 1 + 1 : u[i] = q[1 + i - 1]
    BY <1>1, <2>1, SubSeqProperties
  <2> QED
    BY <1>1, <2>2
<1>3. /\ v \in Seq(S) /\ Len(v) = l - n
      /\ \A i \in 1 .. l - n : v[i] = q[n + i]
  <2>1. \A i \in n + 1 .. l : q[i] \in S
    BY <1>1
  <2>2. /\ v \in Seq(S)
        /\ Len(v) = IF n + 1 <= l THEN l - (n + 1) + 1 ELSE 0
        /\ \A i \in 1 .. l - (n + 1) + 1 : v[i] = q[(n + 1) + i - 1]
    BY <1>1, <2>1, SubSeqProperties
  <2> QED
    BY <1>1, <2>2
<1>4. y \in Seq(S) /\ Len(y) = 1 /\ y[1] = x
  OBVIOUS
<1> HIDE DEF u, y, v
<1>5. /\ w \in Seq(S) /\ Len(w) = n + 1
      /\ (\A i \in 1 .. n : w[i] = q[i]) /\ w[n + 1] = x
  <2>1. /\ w \in Seq(S) /\ Len(w) = Len(u) + Len(y)
        /\ \A i \in 1 .. Len(u) : w[i] = u[i]
        /\ \A i \in 1 .. Len(y) : w[Len(u) + i] = y[i]
    <3>1. u \in Seq(S) /\ y \in Seq(S)
      BY <1>2, <1>4
    <3> QED
      BY <3>1, ConcatIndex
  <2> HIDE DEF w
  <2>2. w[n + 1] = x
    <3>1. 1 \in 1 .. Len(y)
      BY <1>4
    <3> QED
      BY <1>2, <1>4, <2>1, <3>1
  <2> QED
    BY <1>2, <1>4, <2>1, <2>2
<1> HIDE DEF w
<1>6. /\ r \in Seq(S) /\ Len(r) = Len(w) + Len(v)
      /\ \A i \in 1 .. Len(w) : r[i] = w[i]
      /\ \A i \in 1 .. Len(v) : r[Len(w) + i] = v[i]
  <2>1. w \in Seq(S) /\ v \in Seq(S)
    BY <1>3, <1>5
  <2> QED
    BY <2>1, ConcatIndex
<1> HIDE DEF r, l
<1>7. r \in Seq(S) /\ Len(r) = l + 1
  BY <1>1, <1>3, <1>5, <1>6
<1>8. \A i \in 1 .. n + 1 : r[i] = w[i]
  BY <1>5, <1>6
<1>9. (\A i \in 1 .. n : r[i] = q[i]) /\ r[n + 1] = x
  <2>1. n + 1 \in 1 .. n + 1 /\ \A i \in 1 .. n : i \in 1 .. n + 1
    BY <1>1
  <2> QED
    BY <1>5, <1>8, <2>1
<1>10. ASSUME NEW i \in n + 2 .. l + 1 PROVE r[i] = q[i - 1]
  <2> DEFINE k == i - (n + 1)
  <2>1. k \in 1 .. l - n /\ (n + 1) + k = i /\ n + k = i - 1
    BY <1>1
  <2> HIDE DEF k
  <2>2. r[(n + 1) + k] = v[k]
    BY <1>3, <1>5, <1>6, <2>1
  <2>3. v[k] = q[n + k]
    BY <1>3, <2>1
  <2> QED
    BY <2>1, <2>2, <2>3
<1>11. /\ r \in Seq(S) /\ l \in Nat /\ Len(r) = l + 1
       /\ \A i \in 1 .. n : r[i] = q[i]
       /\ r[n + 1] = x
       /\ \A i \in n + 2 .. l + 1 : r[i] = q[i - 1]
  BY <1>1, <1>7, <1>9, <1>10
<1>12. r = Behind(q, n, x)
  BY DEF Behind, l, r, w, u, v, y
<1> QED
  BY <1>11, <1>12 DEF l

\* A set of naturals has a least element.
LEMMA LeastNat ==
  ASSUME NEW T \in SUBSET Nat, T # {}
  PROVE  \E x \in T : \A y \in T : x <= y
<1> DEFINE R == OpToRel(<, Nat)
<1>1. IsWellFoundedOn(R, Nat)
  BY NatLessThanWellFounded
<1>2. \A x, y \in Nat : y < x => <<y, x>> \in R
  BY DEF OpToRel
<1> HIDE DEF R
<1>3. PICK x \in T : \A y \in T : ~ (<<y, x>> \in R)
  BY <1>1, WFMin
<1>4. \A y \in T : x \in Nat /\ y \in Nat /\ ~(y < x)
  BY <1>2, <1>3
<1> QED
  BY <1>4

--------------------------------------------------------------------------------

(***************************************************************************)
(* The inductive invariant                                                 *)
(***************************************************************************)

\* A delay queue is ordered by time and holds nothing of the past.
From(q, t) ==
    \A i \in 1 .. Len(q) : q[i][1] >= t /\ \A j \in i .. Len(q) : q[i][1] <= q[j][1]

\* Where the loop is and which of the queues being emptied are in use.
Control ==
    /\ pc = "sched" => cur \in 1 .. Len(Scheds) + 1
    /\ pc = "resume" => cur \in Sched
    /\ pc = "phase" => cur \in Region
    /\ pc # "resume" => resumeQueue = <<>>
    /\ pc # "zero" => zeroDlyResumed = <<>>

Base == TypeOK /\ From(queue, time) /\ Control

\* What a region has not seen of the triggers is in its own vector or in one before it.
Regions ==
    /\ \A r \in Region : \A x : x \in seen[r] <=> \E q \in 1 .. r : x \in trig[q]
    /\ pc = "phase" => \A q \in 1 .. cur - 1 : trig[q] = {}
    /\ pc \in {"returned", "done"} => \A q \in Region : trig[q] = {}
    /\ preSeen \subseteq trig[1]

\* On the way out of the loops: neither a coroutine nor the logic of a region runs.
Idle ==
    \/ pc = "phase" /\ trig[cur] = {}
    \/ pc \in {"returned", "done"}

\* The trigger of the delay scheduler is true exactly if something is due, until it
\* has been resumed.
Due ==
    /\ pc \in {"commit", "latch", "sched", "resume"} /\ Dly \in act => AwaitingCurrentTime
    /\ pc = "commit" /\ Dly \notin act => ~AwaitingCurrentTime
    /\ Idle => ~AwaitingCurrentTime
    /\ pc = "delay" /\ ~resumed => AwaitingCurrentTime
    /\ pc = "zero" => resumed
    /\ pc # "missed"

\* The event of the dynamic nonblocking assignments has still to be handled.
Ahead ==
    \/ pc \in {"commit", "latch"}
    \/ pc = "sched" /\ cur <= NbaSched
    \/ pc = "resume" /\ cur < NbaSched

\* What is left to do on the way out of the loops.  An awaited nonblocking assignment
\* has been announced, except one that logic of nba began: its announcement is that of
\* the phase it was begun in.
Settled ==
    /\ pc \in {"commit", "latch"} \/ Idle => fired = {}
    /\ pc = "phase" /\ Idle /\ cur > 1 => ~nbaPending
    /\ pc \in {"returned", "done"} => ~nbaPending
    /\ Idle => \A s \in Sched : uncommitted[s] = <<>>
    /\ \A b : Holds(uncommitted[NbaSched], b) =>
                b \in late \/ (nbaPending /\ ~NbaLogic)
    /\ \A b : Holds(ready[NbaSched], b) =>
                b \in late \/ nbaPending \/ NbaEvent \in fired \/ (NbaEvent \in act /\ Ahead)

\* The queues that hold coroutines, and which coroutines each holds.
Key == {"uncommitted", "ready"} \X Sched
         \cup {"resumeQueue", "queue", "zeroDelayed", "zeroDlyResumed"} \X {0}

HoldsLate(q, c) == \E i \in 1 .. Len(q) : q[i][2] = c
DistinctLate(q) == \A i, j \in 1 .. Len(q) : q[i][2] = q[j][2] => i = j

HasIn(k, c, u, y, r, q, z, x) ==
    \/ k[1] = "uncommitted" /\ Holds(u[k[2]], c)
    \/ k[1] = "ready" /\ Holds(y[k[2]], c)
    \/ k[1] = "resumeQueue" /\ Holds(r, c)
    \/ k[1] = "queue" /\ HoldsLate(q, c)
    \/ k[1] = "zeroDelayed" /\ Holds(z, c)
    \/ k[1] = "zeroDlyResumed" /\ Holds(x, c)

Has(k, c) ==
    HasIn(k, c, uncommitted, ready, resumeQueue, queue, zeroDelayed, zeroDlyResumed)

AllDistinct ==
    /\ \A s \in Sched : Distinct(uncommitted[s]) /\ Distinct(ready[s])
    /\ Distinct(resumeQueue) /\ DistinctLate(queue)
    /\ Distinct(zeroDelayed) /\ Distinct(zeroDlyResumed)

\* A coroutine that has run and not ended is held.
Suspended(c) == runs[c] \notin {0, Ended}

Held ==
    /\ AllDistinct
    /\ \A c \in Coro : \A k, l \in Key : Has(k, c) /\ Has(l, c) => k = l
    /\ \A c \in Coro : Suspended(c) <=> \E k \in Key : Has(k, c)

--------------------------------------------------------------------------------
(* The constants and the delay queue. *)

LEMMA Constants ==
  /\ NCoro \in Nat /\ NRegions \in Nat \ {0} /\ ConvergeLimit \in Nat
  /\ MaxRuns \in [Coro -> Nat]
  /\ Len(Scheds) \in Nat /\ NbaSched \in Sched /\ 1 \in Region
  /\ NbaEvent \in Item /\ DesignItem \subseteq Item /\ NbaEvent \notin DesignItem
  /\ Dly \notin Item /\ Delays \subseteq Nat /\ NbaSched \notin WaitScheds
  /\ WaitScheds \subseteq Sched
  /\ \A s \in Sched : Scheds[s] \in Seq(Item) /\ Scheds[s][1] \in Item /\ Len(Scheds[s]) \in Nat \ {0}
  /\ Len(Scheds[NbaSched]) = 1
<1>1. /\ Scheds \in Seq(Seq(Item) \ {<<>>}) /\ NbaSched \in Sched
      /\ Scheds[NbaSched] = <<NbaEvent>>
  BY TimingAssumption
<1>2. Len(Scheds) \in Nat
  BY <1>1, LenProperties
<1>3. \A s \in Sched : Scheds[s] \in Seq(Item) \ {<<>>}
  BY <1>1, ElementOfSeq DEF Sched
<1>4. ASSUME NEW s \in Sched
      PROVE  Scheds[s] \in Seq(Item) /\ Scheds[s][1] \in Item /\ Len(Scheds[s]) \in Nat \ {0}
  <2> DEFINE q == Scheds[s]
  <2>1. q \in Seq(Item) /\ q # <<>>
    BY <1>3
  <2> HIDE DEF q
  <2>2. Len(q) \in Nat \ {0}
    BY <2>1, EmptySeq, LenProperties
  <2>3. q[1] \in Item
    BY <2>1, <2>2, ElementOfSeq
  <2> QED
    BY <2>1, <2>2, <2>3 DEF q
<1>5. Len(Scheds[NbaSched]) = 1
  BY <1>1
<1>6. NbaEvent \in Item
  BY <1>1, <1>4 DEF NbaEvent
<1>7. 1 \in Region
  BY TimingAssumption DEF Region
<1> QED
  BY <1>1, <1>2, <1>4, <1>5, <1>6, <1>7, TimingAssumption DEF DesignItem

\* An entry of a delay queue.
Entry == Nat \X Coro

LEMMA Entries ==
  ASSUME NEW q \in Seq(Entry)
  PROVE  /\ Len(q) \in Nat
         /\ \A i \in 1 .. Len(q) : q[i] \in Entry /\ q[i][1] \in Nat /\ q[i][2] \in Coro
<1>1. \A i \in 1 .. Len(q) : q[i] \in Entry
  BY ElementOfSeq
<1> QED
  BY <1>1, LenProperties DEF Entry

\* In an ordered queue the entries up to a time come first.
LEMMA UpperBoundFacts ==
  ASSUME NEW q \in Seq(Entry), NEW b \in Nat, From(q, b), NEW t \in Nat
  PROVE  /\ UpperBound(q, t) \in 0 .. Len(q)
         /\ \A i \in 1 .. Len(q) : q[i][1] <= t <=> i <= UpperBound(q, t)
<1> DEFINE l == Len(q)
           B(n) == \A i \in 1 .. l : q[i][1] <= t <=> i <= n
           T == {i \in 1 .. l : ~(q[i][1] <= t)}
<1>1. l \in Nat /\ \A i \in 1 .. l : q[i][1] \in Nat
  BY Entries
<1>2. \A i \in 1 .. l : \A j \in i .. l : q[i][1] <= q[j][1]
  BY DEF From
<1>3. \E n \in 0 .. l : B(n)
  <2>1. CASE T = {}
    <3>1. \A i \in 1 .. l : q[i][1] <= t /\ i <= l
      BY <1>1, <2>1
    <3>2. l \in 0 .. l /\ B(l)
      BY <1>1, <3>1
    <3> QED
      BY <3>2
  <2>2. CASE T # {}
    <3>1. T \in SUBSET Nat
      OBVIOUS
    <3>2. PICK m \in T : \A y \in T : m <= y
      BY <2>2, <3>1, LeastNat
    <3>3. m \in 1 .. l /\ ~(q[m][1] <= t) /\ m - 1 \in 0 .. l
      BY <1>1, <3>2
    <3>4. ASSUME NEW i \in 1 .. l PROVE q[i][1] <= t <=> i <= m - 1
      <4>1. CASE i <= m - 1
        <5>1. i \notin T
          BY <1>1, <3>2, <3>3, <4>1
        <5> QED
          BY <4>1, <5>1
      <4>2. CASE ~(i <= m - 1)
        <5>1. i \in m .. l
          BY <3>3, <4>2
        <5>2. q[m][1] <= q[i][1] /\ q[m][1] \in Nat /\ q[i][1] \in Nat
          BY <1>1, <1>2, <3>3, <5>1
        <5> QED
          BY <3>3, <4>2, <5>2
      <4> QED
        BY <4>1, <4>2
    <3> QED
      BY <3>3, <3>4
  <2> QED
    BY <2>1, <2>2
<1>4. UpperBound(q, t) = CHOOSE n \in 0 .. l : B(n)
  BY DEF UpperBound
<1> HIDE DEF B, l
<1>5. UpperBound(q, t) \in 0 .. l /\ B(UpperBound(q, t))
  BY <1>3, <1>4
<1> QED
  BY <1>5 DEF B, l

\* What emplace() does to an ordered queue.
LEMMA EmplaceFacts ==
  ASSUME NEW q \in Seq(Entry), NEW b \in Nat, From(q, b),
         NEW t \in Nat, t >= b, NEW c \in Coro
  PROVE  /\ Emplace(q, t, c) \in Seq(Entry) /\ From(Emplace(q, t, c), b)
         /\ Emplace(q, t, c) # <<>>
         /\ q # <<>> /\ q[1][1] <= t => Emplace(q, t, c)[1] = q[1]
         /\ \A d : HoldsLate(Emplace(q, t, c), d) <=> HoldsLate(q, d) \/ d = c
         /\ DistinctLate(q) /\ ~HoldsLate(q, c) => DistinctLate(Emplace(q, t, c))
<1> DEFINE n == UpperBound(q, t)
           l == Len(q)
           x == <<t, c>>
           r == Emplace(q, t, c)
<1>1. n \in 0 .. l /\ \A i \in 1 .. l : q[i][1] <= t <=> i <= n
  BY UpperBoundFacts
<1>2. x \in Entry /\ x[1] = t /\ x[2] = c
  BY DEF Entry
<1>3. r = Behind(q, n, x)
  BY DEF Emplace, Behind
<1>4. l \in Nat /\ \A i \in 1 .. l : q[i][1] \in Nat /\ q[i][2] \in Coro
  BY Entries
<1> HIDE DEF n, x
<1>5. /\ r \in Seq(Entry) /\ Len(r) = l + 1
      /\ \A i \in 1 .. n : r[i] = q[i]
      /\ r[n + 1] = x
      /\ \A i \in n + 2 .. l + 1 : r[i] = q[i - 1]
  <2>1. n \in 0 .. Len(q) /\ x \in Entry
    BY <1>1, <1>2
  <2> HIDE DEF r
  <2>2. r \in Seq(Entry) /\ Len(r) = l + 1
    BY <1>3, <2>1, PutBehind
  <2>3. \A i \in 1 .. n : Behind(q, n, x)[i] = q[i]
    BY <2>1, PutBehind
  <2>4. Behind(q, n, x)[n + 1] = x
    BY <2>1, PutBehind
  <2>5. \A i \in n + 2 .. Len(q) + 1 : Behind(q, n, x)[i] = q[i - 1]
    BY <2>1, PutBehind
  <2> QED
    BY <1>3, <2>2, <2>3, <2>4, <2>5
<1>6. /\ \A i \in 1 .. l : q[i][1] >= b
      /\ \A i \in 1 .. l : \A j \in i .. l : q[i][1] <= q[j][1]
  BY DEF From
<1> HIDE DEF r, l
<1>7. \A i \in 1 .. l + 1 : \/ i \in 1 .. n /\ r[i] = q[i] /\ i \in 1 .. l
                            \/ i = n + 1 /\ r[i] = x
                            \/ i \in n + 2 .. l + 1 /\ r[i] = q[i - 1] /\ i - 1 \in 1 .. l
  <2> SUFFICES ASSUME NEW i \in 1 .. l + 1
               PROVE  \/ i \in 1 .. n /\ r[i] = q[i] /\ i \in 1 .. l
                      \/ i = n + 1 /\ r[i] = x
                      \/ i \in n + 2 .. l + 1 /\ r[i] = q[i - 1] /\ i - 1 \in 1 .. l
    OBVIOUS
  <2>1. \/ i \in 1 .. n /\ i \in 1 .. l
        \/ i = n + 1
        \/ i \in n + 2 .. l + 1 /\ i - 1 \in 1 .. l
    BY <1>1, <1>4
  <2>2. CASE i \in 1 .. n /\ i \in 1 .. l
    BY <1>5, <2>2
  <2>3. CASE i = n + 1
    BY <1>5, <2>3
  <2>4. CASE i \in n + 2 .. l + 1 /\ i - 1 \in 1 .. l
    BY <1>5, <2>4
  <2> QED
    BY <2>1, <2>2, <2>3, <2>4
<1>8. From(r, b)
  <2>1. \A i \in 1 .. l + 1 : r[i][1] >= b
    BY <1>2, <1>6, <1>7
  <2>2. ASSUME NEW i \in 1 .. l + 1, NEW j \in i .. l + 1 PROVE r[i][1] <= r[j][1]
    <3>0. j \in 1 .. l + 1 /\ i <= j /\ i \in Nat /\ j \in Nat
      BY <1>4
    <3>1. CASE i \in 1 .. n /\ j \in 1 .. n
      <4>1. i \in 1 .. l /\ j \in i .. l
        BY <1>1, <1>4, <3>0, <3>1
      <4> QED
        BY <1>5, <1>6, <3>1, <4>1
    <3>2. CASE i \in 1 .. n /\ j = n + 1
      <4>1. i \in 1 .. l /\ i <= n
        BY <1>1, <1>4, <3>2
      <4>2. q[i][1] <= t
        BY <1>1, <4>1
      <4> QED
        BY <1>2, <1>5, <3>2, <4>2
    <3>3. CASE i \in 1 .. n /\ j \in n + 2 .. l + 1
      <4>1. i \in 1 .. l /\ j - 1 \in i .. l
        BY <1>1, <1>4, <3>0, <3>3
      <4> QED
        BY <1>5, <1>6, <3>3, <4>1
    <3>4. CASE i = n + 1 /\ j = n + 1
      BY <1>2, <1>5, <3>4
    <3>5. CASE i = n + 1 /\ j \in n + 2 .. l + 1
      <4>1. j - 1 \in 1 .. l /\ ~(j - 1 <= n) /\ r[j] = q[j - 1]
        BY <1>1, <1>5, <1>7, <3>0, <3>5
      <4>2. ~(q[j - 1][1] <= t) /\ q[j - 1][1] \in Nat
        BY <1>1, <1>4, <4>1
      <4> QED
        BY <1>2, <1>5, <3>5, <4>1, <4>2
    <3>6. CASE i \in n + 2 .. l + 1 /\ j \in n + 2 .. l + 1
      <4>1. i - 1 \in 1 .. l /\ j - 1 \in i - 1 .. l /\ r[i] = q[i - 1] /\ r[j] = q[j - 1]
        <5>1. i - 1 \in 1 .. l /\ j - 1 \in i - 1 .. l
          BY <1>1, <1>4, <3>0, <3>6
        <5> QED
          BY <1>5, <3>6, <5>1
      <4> QED
        BY <1>6, <4>1
    <3> QED
      BY <1>1, <1>7, <3>0, <3>1, <3>2, <3>3, <3>4, <3>5, <3>6
  <2> QED
    BY <1>5, <2>1, <2>2 DEF From
<1>9. r # <<>>
  BY <1>4, <1>5
<1>10. ASSUME q # <<>>, q[1][1] <= t PROVE r[1] = q[1]
  <2>1. 1 \in 1 .. l
    BY <1>4, <1>10, EmptySeq DEF l
  <2>2. 1 \in 1 .. n
    BY <1>1, <1>10, <2>1
  <2> QED
    BY <1>5, <2>2
<1>11. ASSUME NEW d PROVE HoldsLate(r, d) <=> HoldsLate(q, d) \/ d = c
  <2>1. ASSUME NEW i \in 1 .. l, q[i][2] = d PROVE \E k \in 1 .. l + 1 : r[k][2] = d
    <3>1. CASE i <= n
      <4>1. i \in 1 .. n /\ i \in 1 .. l + 1
        BY <1>1, <1>4, <3>1
      <4> QED
        BY <1>5, <2>1, <4>1
    <3>2. CASE ~(i <= n)
      <4>1. i + 1 \in n + 2 .. l + 1 /\ i + 1 \in 1 .. l + 1 /\ (i + 1) - 1 = i
        BY <1>1, <1>4, <3>2
      <4> QED
        BY <1>5, <2>1, <4>1
    <3> QED
      BY <3>1, <3>2
  <2>2. n + 1 \in 1 .. l + 1
    BY <1>1, <1>4
  <2> QED
    BY <1>2, <1>5, <1>7, <2>1, <2>2 DEF HoldsLate, l
<1>12. ASSUME DistinctLate(q), ~HoldsLate(q, c) PROVE DistinctLate(r)
  <2>1. /\ \A i, j \in 1 .. l : q[i][2] = q[j][2] => i = j
        /\ \A i \in 1 .. l : q[i][2] # c
    BY <1>12 DEF DistinctLate, HoldsLate, l
  <2>2. ASSUME NEW i \in 1 .. l + 1, NEW j \in 1 .. l + 1, r[i][2] = r[j][2] PROVE i = j
    <3>1. CASE i = n + 1 \/ j = n + 1
      BY <1>1, <1>2, <1>7, <2>1, <2>2, <3>1
    <3>2. CASE i # n + 1 /\ j # n + 1
      <4> DEFINE f(k) == IF k \in 1 .. n THEN k ELSE k - 1
      <4>0. \A k \in 1 .. l + 1 : k # n + 1 => f(k) \in 1 .. l /\ r[k] = q[f(k)]
        <5> SUFFICES ASSUME NEW k \in 1 .. l + 1, k # n + 1 PROVE f(k) \in 1 .. l /\ r[k] = q[f(k)]
          OBVIOUS
        <5>1. CASE k \in 1 .. n
          BY <1>7, <5>1, <1>1, <1>4
        <5>2. CASE k \notin 1 .. n
          BY <1>7, <5>2
        <5> QED
          BY <5>1, <5>2
      <4>1. f(i) \in 1 .. l /\ f(j) \in 1 .. l /\ r[i] = q[f(i)] /\ r[j] = q[f(j)]
        BY <3>2, <4>0
      <4>2. f(i) = f(j)
        BY <2>1, <2>2, <4>1
      <4> QED
        BY <1>1, <1>4, <3>2, <4>2
    <3> QED
      BY <3>1, <3>2
  <2> QED
    BY <1>5, <2>2 DEF DistinctLate
<1> QED
  BY <1>5, <1>8, <1>9, <1>10, <1>11, <1>12 DEF r

\* What taking the first entry does.
LEMMA TailFacts ==
  ASSUME NEW q \in Seq(Entry), NEW b \in Nat, From(q, b), q # <<>>
  PROVE  /\ Tail(q) \in Seq(Entry) /\ From(Tail(q), b)
         /\ q[1] \in Entry /\ q[1][1] \in Nat /\ q[1][2] \in Coro
         /\ DistinctLate(q) =>
              /\ DistinctLate(Tail(q)) /\ ~HoldsLate(Tail(q), q[1][2])
              /\ \A d : HoldsLate(q, d) <=> d = q[1][2] \/ HoldsLate(Tail(q), d)
<1> DEFINE r == Tail(q)
           l == Len(q)
<1>1. /\ r \in Seq(Entry) /\ l \in Nat \ {0} /\ Len(r) = l - 1
      /\ \A i \in 1 .. l - 1 : r[i] = q[i + 1]
  BY TakeHead
<1>2. /\ \A i \in 1 .. l : q[i][1] >= b
      /\ \A i \in 1 .. l : \A j \in i .. l : q[i][1] <= q[j][1]
  BY DEF From
<1>3. 1 \in 1 .. l /\ \A i \in 1 .. l - 1 : i + 1 \in 1 .. l /\ i + 1 # 1
  BY <1>1
<1>4. \A i \in 1 .. l : q[i] \in Entry /\ q[i][1] \in Nat /\ q[i][2] \in Coro
  BY Entries
<1> HIDE DEF r, l
<1>5. From(r, b)
  <2>1. \A i \in 1 .. l - 1 : r[i][1] >= b
    BY <1>1, <1>2, <1>3
  <2>2. ASSUME NEW i \in 1 .. l - 1, NEW j \in i .. l - 1 PROVE r[i][1] <= r[j][1]
    <3>1. i + 1 \in 1 .. l /\ j + 1 \in i + 1 .. l /\ j \in 1 .. l - 1
      BY <1>1
    <3> QED
      BY <1>1, <1>2, <3>1
  <2> QED
    BY <1>1, <2>1, <2>2 DEF From
<1>6. ASSUME DistinctLate(q)
      PROVE  /\ DistinctLate(r) /\ ~HoldsLate(r, q[1][2])
             /\ \A d : HoldsLate(q, d) <=> d = q[1][2] \/ HoldsLate(r, d)
  <2>1. \A i, j \in 1 .. l : q[i][2] = q[j][2] => i = j
    BY <1>6 DEF DistinctLate, l
  <2>2. DistinctLate(r)
    <3> SUFFICES ASSUME NEW i \in 1 .. l - 1, NEW j \in 1 .. l - 1, r[i][2] = r[j][2] PROVE i = j
      BY <1>1 DEF DistinctLate
    <3>0. r[i] = q[i + 1] /\ r[j] = q[j + 1] /\ i + 1 \in 1 .. l /\ j + 1 \in 1 .. l
      BY <1>1, <1>3
    <3>1. i + 1 = j + 1
      BY <2>1, <3>0
    <3> QED
      BY <1>1, <3>1
  <2>3. ~HoldsLate(r, q[1][2])
    <3> SUFFICES ASSUME NEW i \in 1 .. l - 1, r[i][2] = q[1][2] PROVE FALSE
      BY <1>1 DEF HoldsLate
    <3>1. r[i] = q[i + 1] /\ i + 1 \in 1 .. l /\ i + 1 # 1
      BY <1>1, <1>3
    <3> QED
      BY <1>3, <2>1, <3>1
  <2>4. ASSUME NEW d PROVE HoldsLate(q, d) <=> d = q[1][2] \/ HoldsLate(r, d)
    <3>1. ASSUME NEW i \in 1 .. l, q[i][2] = d, i # 1 PROVE \E k \in 1 .. l - 1 : r[k][2] = d
      <4>1. i - 1 \in 1 .. l - 1 /\ (i - 1) + 1 = i
        BY <1>1, <3>1
      <4> QED
        BY <1>1, <3>1, <4>1
    <3> QED
      BY <1>1, <1>3, <3>1 DEF HoldsLate, l
  <2> QED
    BY <2>2, <2>3, <2>4
<1> QED
  BY <1>1, <1>3, <1>4, <1>5, <1>6 DEF r, l

--------------------------------------------------------------------------------
(* Types and where the loop is. *)

LEMMA FireFacts ==
  ASSUME TypeOK, NEW c, NEW f \in SUBSET DesignItem, NEW e \in SUBSET Item, Fire(c, f, e)
  PROVE  /\ fires' \in 0 .. MaxFires /\ fired' \subseteq Item /\ woken' \subseteq Coro
         /\ fired' = fired \cup f \cup e
<1>1. f \subseteq Item /\ IsFiniteSet(Item)
  BY TimingAssumption DEF DesignItem
<1>2. IsFiniteSet(f)
  BY <1>1, FS_Subset
<1>3. Cardinality(f) \in Nat
  BY <1>2, FS_CardinalityType
<1>4. fires' \in 0 .. MaxFires
  <2>1. fires' = fires + Cardinality(f) /\ fires + Cardinality(f) <= MaxFires
    BY DEF Fire
  <2>2. fires \in 0 .. MaxFires
    BY DEF TypeOK
  <2>3. MaxFires \in Nat
    BY TimingAssumption
  <2> QED
    BY <1>3, <2>1, <2>2, <2>3
<1>5. fired' \subseteq Item /\ fired' = fired \cup f \cup e
  BY <1>1 DEF Fire, TypeOK
<1>6. woken' \subseteq Coro
  BY DEF Fire
<1> QED
  BY <1>4, <1>5, <1>6

\* The ways a coroutine's run can end.
LEMMA RunCases ==
  ASSUME NEW c \in Coro, NEW q, NEW z, Run(c, q, z)
  PROVE  \/ /\ runs[c] \in 0 .. MaxRuns[c] - 1 /\ runs' = [runs EXCEPT ![c] = @ + 1]
            /\ \/ /\ queue' = q /\ zeroDelayed' = z
                  /\ \E s \in Sched :
                       /\ uncommitted' = [uncommitted EXCEPT ![s] = Append(@, c)]
                       /\ nbaPending' = (nbaPending \/ s = NbaSched)
                       /\ ready' = ready
               \/ /\ queue' = q /\ zeroDelayed' = z
                  /\ \E s \in WaitScheds :
                       /\ ready' = [ready EXCEPT ![s] = Append(@, c)]
                       /\ uncommitted' = uncommitted /\ nbaPending' = nbaPending
               \/ /\ \E d \in Delays \ {0} : queue' = Emplace(q, time + d, c)
                  /\ zeroDelayed' = z
                  /\ uncommitted' = uncommitted /\ ready' = ready /\ nbaPending' = nbaPending
               \/ /\ queue' = q /\ zeroDelayed' = Append(z, c)
                  /\ uncommitted' = uncommitted /\ ready' = ready /\ nbaPending' = nbaPending
         \/ /\ runs' = [runs EXCEPT ![c] = Ended]
            /\ queue' = q /\ zeroDelayed' = z
            /\ uncommitted' = uncommitted /\ ready' = ready /\ nbaPending' = nbaPending
<1>1. CASE AwaitTrigger(c, q, z) /\ runs[c] \in 0 .. MaxRuns[c] - 1 /\ runs' = [runs EXCEPT ![c] = @ + 1]
  BY <1>1 DEF AwaitTrigger
<1>2. CASE AwaitDelay(c, q, z) /\ runs[c] \in 0 .. MaxRuns[c] - 1 /\ runs' = [runs EXCEPT ![c] = @ + 1]
  BY <1>2 DEF AwaitDelay
<1>3. CASE /\ runs' = [runs EXCEPT ![c] = Ended]
           /\ queue' = q /\ zeroDelayed' = z
           /\ UNCHANGED <<uncommitted, ready, nbaPending>>
  BY <1>3
<1> QED
  BY <1>1, <1>2, <1>3 DEF Run

\* What a coroutine's run does to the types and to the delay scheduler.
LEMMA RunFacts ==
  ASSUME TypeOK, NEW c \in Coro, NEW q \in Seq(Entry), From(q, time),
         NEW z \in Seq(Coro), Run(c, q, z)
  PROVE  /\ fires' \in 0 .. MaxFires /\ fired' \subseteq Item /\ woken' \subseteq Coro
         /\ late' \subseteq Coro
         /\ runs' \in [Coro -> Nat \cup {Ended}] /\ nbaPending' \in BOOLEAN
         /\ uncommitted' \in [Sched -> Seq(Coro)] /\ ready' \in [Sched -> Seq(Coro)]
         /\ queue' \in Seq(Entry) /\ From(queue', time) /\ zeroDelayed' \in Seq(Coro)
         /\ q # <<>> /\ q[1][1] <= time => queue' # <<>> /\ queue'[1] = q[1]
         /\ z # <<>> => zeroDelayed' # <<>>
<1>0. late' \subseteq Coro
  BY DEF Run, TypeOK
<1>1. fires' \in 0 .. MaxFires /\ fired' \subseteq Item /\ woken' \subseteq Coro
  <2>1. PICK f \in SUBSET DesignItem : Fire(c, f, {})
    BY DEF Run
  <2> QED
    BY <2>1, FireFacts
<1>2. runs' \in [Coro -> Nat \cup {Ended}]
  <2>1. MaxRuns[c] \in Nat /\ runs \in [Coro -> Nat \cup {Ended}]
    BY Constants DEF TypeOK
  <2>2. \/ runs[c] \in 0 .. MaxRuns[c] - 1 /\ runs' = [runs EXCEPT ![c] = @ + 1]
        \/ runs' = [runs EXCEPT ![c] = Ended]
    BY DEF Run
  <2> QED
    BY <2>1, <2>2 DEF Ended
<1>3. nbaPending' \in BOOLEAN
  BY RunCases, Zenon DEF TypeOK
<1>4. uncommitted' \in [Sched -> Seq(Coro)]
  <2>1. uncommitted \in [Sched -> Seq(Coro)]
    BY DEF TypeOK
  <2>2. ASSUME NEW s \in Sched, uncommitted' = [uncommitted EXCEPT ![s] = Append(@, c)]
        PROVE  uncommitted' \in [Sched -> Seq(Coro)]
    <3>1. Append(uncommitted[s], c) \in Seq(Coro)
      BY <2>1, AddLast
    <3> QED
      BY <2>1, <2>2, <3>1
  <2>3. uncommitted' = uncommitted \/ \E s \in Sched : uncommitted' = [uncommitted EXCEPT ![s] = Append(@, c)]
    BY RunCases
  <2> QED
    BY <2>1, <2>2, <2>3
<1>5. ready' \in [Sched -> Seq(Coro)]
  <2>1. ready \in [Sched -> Seq(Coro)] /\ WaitScheds \subseteq Sched
    BY Constants DEF TypeOK
  <2>2. ASSUME NEW s \in WaitScheds, ready' = [ready EXCEPT ![s] = Append(@, c)]
        PROVE  ready' \in [Sched -> Seq(Coro)]
    <3>1. Append(ready[s], c) \in Seq(Coro)
      BY <2>1, AddLast
    <3> QED
      BY <2>1, <2>2, <3>1
  <2>3. ready' = ready \/ \E s \in WaitScheds : ready' = [ready EXCEPT ![s] = Append(@, c)]
    BY RunCases
  <2> QED
    BY <2>1, <2>2, <2>3
<1>6. /\ queue' \in Seq(Entry) /\ From(queue', time)
      /\ q # <<>> /\ q[1][1] <= time => queue' # <<>> /\ queue'[1] = q[1]
  <2>1. time \in Nat /\ Delays \subseteq Nat
    BY Constants DEF TypeOK
  <2>2. ASSUME NEW d \in Delays \ {0}, queue' = Emplace(q, time + d, c)
        PROVE  /\ queue' \in Seq(Entry) /\ From(queue', time)
               /\ q # <<>> /\ q[1][1] <= time => queue' # <<>> /\ queue'[1] = q[1]
    <3>1. time + d \in Nat /\ time + d >= time
      BY <2>1
    <3>2. /\ Emplace(q, time + d, c) \in Seq(Entry) /\ From(Emplace(q, time + d, c), time)
          /\ Emplace(q, time + d, c) # <<>>
          /\ q # <<>> /\ q[1][1] <= time + d => Emplace(q, time + d, c)[1] = q[1]
      BY <2>1, <3>1, EmplaceFacts
    <3>3. q # <<>> /\ q[1][1] <= time => q[1][1] <= time + d
      <4>1. q # <<>> => q[1][1] \in Nat
        BY <2>1, TailFacts
      <4> QED
        BY <2>1, <4>1
    <3> QED
      BY <2>2, <3>2, <3>3
  <2>3. queue' = q \/ \E d \in Delays \ {0} : queue' = Emplace(q, time + d, c)
    BY RunCases
  <2> QED
    BY <2>2, <2>3
<1>7. zeroDelayed' \in Seq(Coro) /\ (z # <<>> => zeroDelayed' # <<>>)
  <2>1. zeroDelayed' = z \/ zeroDelayed' = Append(z, c)
    BY RunCases
  <2> QED
    BY <2>1, AddLast
<1> QED
  BY <1>0, <1>1, <1>2, <1>3, <1>4, <1>5, <1>6, <1>7

\* Where a loop goes round.
LEMMA LoopFacts ==
  ASSUME TypeOK, NEW r \in 0 .. NRegions, LoopAgain(r)
  PROVE  pc' \in {"act", "fatal"} /\ iter' \in [0 .. NRegions -> 0 .. ConvergeLimit + 1]
<1>1. ConvergeLimit \in Nat /\ NRegions \in Nat /\ iter \in [0 .. NRegions -> 0 .. ConvergeLimit + 1]
  BY Constants DEF TypeOK
<1>2. CASE iter[r] > ConvergeLimit /\ pc' = "fatal" /\ UNCHANGED iter
  BY <1>1, <1>2
<1>3. CASE /\ iter[r] <= ConvergeLimit /\ pc' = "act"
           /\ iter' = [q \in 0 .. NRegions |->
                          IF q < r THEN 1 ELSE IF q = r THEN iter[q] + 1 ELSE iter[q]]
  BY <1>1, <1>3
<1> QED
  BY <1>2, <1>3 DEF LoopAgain

LEMMA BaseInit == Init => Base
<1> SUFFICES ASSUME Init PROVE Base
  OBVIOUS
<1>1. <<>> \in Seq(Coro) /\ <<>> \in Seq(Nat \X Coro) /\ Len(<<>>) = 0
  BY EmptySeq
<1>2. TypeOK
  <2>1. NRegions \in Nat /\ ConvergeLimit \in Nat /\ MaxFires \in Nat
    BY TimingAssumption
  <2>2. 0 \in Nat \cup {Ended} /\ 0 \in 0 .. MaxFires /\ 0 \in 0 .. ConvergeLimit + 1
    BY <2>1
  <2> QED
    BY <1>1, <2>2 DEF Init, TypeOK
<1>3. From(queue, time)
  BY <1>1 DEF Init, From
<1>4. Control
  BY Constants DEF Init, Control
<1> QED
  BY <1>2, <1>3, <1>4 DEF Base

\* The steps that run a coroutine.
LEMMA BaseRun ==
  ASSUME Base,
         NEW c \in Coro, NEW q \in Seq(Entry), From(q, time), NEW z \in Seq(Coro), Run(c, q, z),
         UNCHANGED <<time, didInit, act, pre, trig, seen, preSeen>>,
         pc' = pc, cur' \in Nat,
         iter' \in [0 .. NRegions -> 0 .. ConvergeLimit + 1],
         resumeQueue' \in Seq(Coro), zeroDlyResumed' \in Seq(Coro), resumed' \in BOOLEAN
  PROVE  TypeOK' /\ From(queue, time)'
<1>1. /\ fires' \in 0 .. MaxFires /\ fired' \subseteq Item /\ woken' \subseteq Coro
      /\ late' \subseteq Coro
      /\ runs' \in [Coro -> Nat \cup {Ended}] /\ nbaPending' \in BOOLEAN
      /\ uncommitted' \in [Sched -> Seq(Coro)] /\ ready' \in [Sched -> Seq(Coro)]
      /\ queue' \in Seq(Entry) /\ From(queue', time) /\ zeroDelayed' \in Seq(Coro)
  BY RunFacts DEF Base
<1>2. TypeOK'
  BY <1>1 DEF Base, TypeOK, Entry
<1>3. From(queue', time')
  BY <1>1
<1>4. From(queue, time)' = From(queue', time')
  BY DEF From
<1> QED
  BY <1>2, <1>3, <1>4

LEMMA BaseStep == Base /\ [Next]_vars => Base'
<1> SUFFICES ASSUME Base, [Next]_vars PROVE Base'
  OBVIOUS
<1>t. TypeOK /\ From(queue, time) /\ Control /\ time \in Nat
  BY DEF Base, TypeOK
<1>q. queue \in Seq(Entry) /\ zeroDelayed \in Seq(Coro) /\ resumeQueue \in Seq(Coro)
      /\ zeroDlyResumed \in Seq(Coro)
  BY <1>t DEF TypeOK, Entry
<1>e. <<>> \in Seq(Coro)
  BY EmptySeq
<1>f. queue' = queue /\ time' = time => From(queue, time)'
  BY <1>t DEF From
<1>1. ASSUME NEW c \in Coro, Begin(c) PROVE Base'
  <2>1. /\ Run(c, queue, zeroDelayed) /\ UNCHANGED <<time, didInit, act, pre, trig, seen, preSeen>>
        /\ UNCHANGED <<pc, cur, iter, resumeQueue, zeroDlyResumed, resumed>>
    BY <1>1 DEF Begin, loopVars, seenVars
  <2>2. TypeOK' /\ From(queue, time)'
    <3>1. /\ pc' = pc /\ cur' \in Nat /\ iter' \in [0 .. NRegions -> 0 .. ConvergeLimit + 1]
          /\ resumeQueue' \in Seq(Coro) /\ zeroDlyResumed' \in Seq(Coro) /\ resumed' \in BOOLEAN
      BY <1>t, <2>1 DEF TypeOK
    <3> QED
      BY <1>t, <1>q, <2>1, <3>1, BaseRun
  <2> QED
    BY <1>t, <2>1, <2>2 DEF Base, Control
<1>1a. CASE EndInitial
  <2>1. iter' \in [0 .. NRegions -> 0 .. ConvergeLimit + 1]
    BY <1>1a, Constants DEF EndInitial, EnterLoops
  <2>2. TypeOK'
    BY <1>t, <1>1a, <2>1 DEF TypeOK, EndInitial, designVars, schedVars, delayVars, seenVars
  <2> QED
    BY <1>t, <1>f, <1>1a, <2>2 DEF Base, Control, EndInitial, schedVars, delayVars
<1>2. CASE EvalTriggersAct
  <2>1. TypeOK'
    BY <1>t, <1>2, TimingAssumption DEF TypeOK, EvalTriggersAct, schedVars, delayVars, seenVars, Trigger, DesignItem
  <2> QED
    BY <1>t, <1>f, <1>2, <2>1 DEF Base, Control, EvalTriggersAct, schedVars, delayVars, seenVars
<1>3. CASE TimingCommit
  <2>1. UNCHANGED <<loopVars, designVars, resumeQueue, delayVars, seenVars>>
    BY <1>3 DEF TimingCommit
  <2>2. ready' \in [Sched -> Seq(Coro)] /\ uncommitted' \in [Sched -> Seq(Coro)]
    <3>1. \A s \in Sched : ready[s] \in Seq(Coro) /\ uncommitted[s] \in Seq(Coro)
      BY <1>t DEF TypeOK
    <3>2. \A s \in Sched : ready[s] \o uncommitted[s] \in Seq(Coro)
      BY <3>1, ConcatIndex
    <3> QED
      BY <1>e, <1>3, <3>1, <3>2 DEF TimingCommit
  <2>3. \/ pc' = "latch" /\ cur' = cur
        \/ pc' = "phase" /\ cur' = 1
    BY <1>3 DEF TimingCommit
  <2>4. TypeOK'
    BY <1>t, <2>1, <2>2, <2>3 DEF TypeOK, loopVars, designVars, delayVars, seenVars
  <2>5. pc = "commit"
    BY <1>3 DEF TimingCommit
  <2> QED
    BY <1>t, <1>f, <2>1, <2>3, <2>4, <2>5, Constants DEF Base, Control, loopVars, delayVars
<1>4. CASE Latch
  <2>1. TypeOK'
    BY <1>t, <1>4, Constants DEF TypeOK, Latch, designVars, delayVars
  <2> QED
    BY <1>t, <1>f, <1>4, <2>1, Constants DEF Base, Control, Latch, designVars, delayVars
<1>5. CASE BeginResume
  <2>1. TypeOK'
    BY <1>t, <1>e, <1>5 DEF TypeOK, BeginResume, loopVars, designVars, delayVars, seenVars
  <2> QED
    BY <1>t, <1>f, <1>5, <2>1 DEF Base, Control, BeginResume, loopVars, delayVars
<1>6. CASE SkipSched
  <2>1. TypeOK'
    BY <1>t, <1>6 DEF TypeOK, SkipSched, loopVars, designVars, delayVars, seenVars
  <2> QED
    BY <1>t, <1>f, <1>6, <2>1, Constants DEF Base, Control, SkipSched, loopVars, delayVars, Sched
<1>7. CASE ResumeCoro
  <2>1. Head(resumeQueue) \in Coro /\ Tail(resumeQueue) \in Seq(Coro)
    BY <1>q, <1>7, TakeHead DEF ResumeCoro
  <2>2. /\ Run(Head(resumeQueue), queue, zeroDelayed)
        /\ UNCHANGED <<time, didInit, act, pre, trig, seen, preSeen>>
        /\ UNCHANGED <<pc, cur, iter, zeroDlyResumed, resumed>> /\ resumeQueue' = Tail(resumeQueue)
        /\ pc = "resume"
    BY <1>7 DEF ResumeCoro, loopVars, seenVars
  <2>3. TypeOK' /\ From(queue, time)'
    <3>1. /\ pc' = pc /\ cur' \in Nat
          /\ iter' \in [0 .. NRegions -> 0 .. ConvergeLimit + 1]
          /\ resumeQueue' \in Seq(Coro) /\ zeroDlyResumed' \in Seq(Coro) /\ resumed' \in BOOLEAN
      BY <1>t, <2>1, <2>2 DEF TypeOK
    <3> QED
      BY <1>t, <1>q, <2>1, <2>2, <3>1, BaseRun
  <2> QED
    BY <1>t, <2>2, <2>3 DEF Base, Control
<1>8. CASE EndResume
  <2>1. UNCHANGED <<loopVars, designVars, resumeQueue, delayVars, seenVars>>
        /\ pc = "resume" /\ resumeQueue = <<>> /\ pc' = "sched" /\ cur' = cur + 1
    BY <1>8 DEF EndResume
  <2>2. cur \in Sched
    BY <1>t, <2>1 DEF Control
  <2>3. ready' \in [Sched -> Seq(Coro)] /\ uncommitted' \in [Sched -> Seq(Coro)]
    <3>1. ready \in [Sched -> Seq(Coro)] /\ uncommitted \in [Sched -> Seq(Coro)]
      BY <1>t DEF TypeOK
    <3>2. ready[cur] \o uncommitted[cur] \in Seq(Coro)
      BY <2>2, <3>1, ConcatIndex
    <3> QED
      BY <1>e, <1>8, <2>2, <3>1, <3>2 DEF EndResume
  <2>4. TypeOK'
    BY <1>t, <2>1, <2>3 DEF TypeOK, loopVars, designVars, delayVars, seenVars
  <2> QED
    BY <1>t, <1>f, <2>1, <2>2, <2>4, Constants DEF Base, Control, loopVars, delayVars, Sched
<1>9. CASE BeginDelay
  <2>1. TypeOK'
    BY <1>t, <1>9 DEF TypeOK, BeginDelay, loopVars, designVars, schedVars, seenVars
  <2> QED
    BY <1>t, <1>f, <1>9, <2>1 DEF Base, Control, BeginDelay, loopVars, schedVars
<1>10. CASE ResumeDelayed
  <2>1. Tail(queue) \in Seq(Entry) /\ From(Tail(queue), time) /\ queue[1][2] \in Coro
    BY <1>t, <1>q, <1>10, TailFacts DEF ResumeDelayed
  <2>2. /\ Run(queue[1][2], Tail(queue), zeroDelayed)
        /\ UNCHANGED <<time, didInit, act, pre, trig, seen, preSeen>>
        /\ UNCHANGED <<pc, cur, iter, zeroDlyResumed, resumeQueue>> /\ resumed' = TRUE
        /\ pc = "delay"
    BY <1>10 DEF ResumeDelayed, loopVars, seenVars
  <2>3. TypeOK' /\ From(queue, time)'
    <3>1. /\ pc' = pc /\ cur' \in Nat
          /\ iter' \in [0 .. NRegions -> 0 .. ConvergeLimit + 1]
          /\ resumeQueue' \in Seq(Coro) /\ zeroDlyResumed' \in Seq(Coro) /\ resumed' \in BOOLEAN
      BY <1>t, <2>2 DEF TypeOK
    <3> QED
      BY <1>t, <1>q, <2>1, <2>2, <3>1, BaseRun
  <2> QED
    BY <1>t, <2>2, <2>3 DEF Base, Control
<1>11. CASE BeginZero
  <2>1. TypeOK'
    BY <1>t, <1>e, <1>11 DEF TypeOK, BeginZero, loopVars, designVars, schedVars, seenVars
  <2> QED
    BY <1>t, <1>f, <1>11, <2>1 DEF Base, Control, BeginZero, loopVars, schedVars
<1>12. CASE ResumeZero
  <2>1. Head(zeroDlyResumed) \in Coro /\ Tail(zeroDlyResumed) \in Seq(Coro)
    BY <1>q, <1>12, TakeHead DEF ResumeZero
  <2>2. /\ Run(Head(zeroDlyResumed), queue, zeroDelayed)
        /\ UNCHANGED <<time, didInit, act, pre, trig, seen, preSeen>>
        /\ UNCHANGED <<pc, cur, iter, resumeQueue, resumed>> /\ zeroDlyResumed' = Tail(zeroDlyResumed)
        /\ pc = "zero"
    BY <1>12 DEF ResumeZero, loopVars, seenVars
  <2>3. TypeOK' /\ From(queue, time)'
    <3>1. /\ pc' = pc /\ cur' \in Nat
          /\ iter' \in [0 .. NRegions -> 0 .. ConvergeLimit + 1]
          /\ resumeQueue' \in Seq(Coro) /\ zeroDlyResumed' \in Seq(Coro) /\ resumed' \in BOOLEAN
      BY <1>t, <2>1, <2>2 DEF TypeOK
    <3> QED
      BY <1>t, <1>q, <2>1, <2>2, <3>1, BaseRun
  <2> QED
    BY <1>t, <2>2, <2>3 DEF Base, Control
<1>13. CASE EndDelay
  <2>1. TypeOK'
    BY <1>t, <1>13 DEF TypeOK, EndDelay, loopVars, designVars, schedVars, delayVars, seenVars
  <2> QED
    BY <1>t, <1>f, <1>13, <2>1 DEF Base, Control, EndDelay, loopVars, schedVars, delayVars
<1>14. CASE EvalAct
  <2>1. PICK f \in SUBSET DesignItem : Fire(0, f, {})
    BY <1>14 DEF EvalAct, RunLogic
  <2>2. fires' \in 0 .. MaxFires /\ fired' \subseteq Item /\ woken' \subseteq Coro
    BY <1>t, <2>1, FireFacts
  <2>3. pc' \in {"act", "fatal"} /\ iter' \in [0 .. NRegions -> 0 .. ConvergeLimit + 1]
    BY <1>t, <1>14, LoopFacts, Constants DEF EvalAct
  <2>4. /\ UNCHANGED <<time, didInit, act, pre, trig, schedVars, delayVars, seenVars, nbaPending, runs, late>>
        /\ pc = "evalAct"
    BY <1>14 DEF EvalAct, RunLogic
  <2>5. TypeOK'
    BY <1>t, <2>2, <2>3, <2>4 DEF TypeOK, schedVars, delayVars, seenVars
  <2> QED
    BY <1>t, <1>f, <2>3, <2>4, <2>5 DEF Base, Control, schedVars, delayVars
<1>15. ASSUME NEW r \in Region, RegionWork(r) PROVE Base'
  <2>1. PICK f \in SUBSET DesignItem : Fire(0, f, Extra(r))
    BY <1>15 DEF RegionWork
  <2>2. fires' \in 0 .. MaxFires /\ fired' \subseteq Item /\ woken' \subseteq Coro
    <3>1. Extra(r) \in SUBSET Item
      BY Constants DEF Extra
    <3> QED
      BY <1>t, <2>1, <3>1, FireFacts
  <2>3. pc' \in {"act", "fatal"} /\ iter' \in [0 .. NRegions -> 0 .. ConvergeLimit + 1]
    <3>1. r \in 0 .. NRegions
      BY Constants DEF Region
    <3> QED
      BY <1>t, <1>15, <3>1, LoopFacts DEF RegionWork
  <2>4. /\ UNCHANGED <<time, didInit, act, pre, runs, late, schedVars, delayVars>>
        /\ pc = "phase"
    BY <1>15 DEF RegionWork
  <2>5. trig' \in [Region -> SUBSET Trigger]
    BY <1>t, <1>15 DEF RegionWork, HandOn, TypeOK
  <2>6. seen' \in [Region -> SUBSET Trigger] /\ preSeen' \subseteq Trigger /\ nbaPending' \in BOOLEAN
    <3>1. seen' \in [Region -> SUBSET Trigger] /\ preSeen' \subseteq Trigger
      BY <1>t, <1>15 DEF RegionWork, TypeOK
    <3>2. nbaPending' \in BOOLEAN
      BY <1>t, <1>15 DEF RegionWork, TypeOK
    <3> QED
      BY <3>1, <3>2
  <2>7. TypeOK'
    BY <1>t, <2>2, <2>3, <2>4, <2>5, <2>6 DEF TypeOK, schedVars, delayVars
  <2> QED
    BY <1>t, <1>f, <2>3, <2>4, <2>7 DEF Base, Control, schedVars, delayVars
<1>16. ASSUME NEW r \in Region, RegionDone(r) PROVE Base'
  <2>0. cur' \in Nat /\ pc' \in {"phase", "returned"}
    BY <1>t, <1>16, Constants DEF TypeOK, RegionDone, Region
  <2>1. TypeOK'
    BY <1>t, <1>16, <2>0 DEF TypeOK, RegionDone, loopVars, designVars, delayVars, seenVars
  <2> QED
    BY <1>t, <1>f, <1>16, <2>1, Constants DEF Base, Control, RegionDone, loopVars, delayVars, Region
<1>17. CASE NbaExtra
  <2>1. Fire(0, {}, Extra(1))
    BY <1>17 DEF NbaExtra
  <2>2. fires' \in 0 .. MaxFires /\ fired' \subseteq Item /\ woken' \subseteq Coro
    <3>1. Extra(1) \in SUBSET Item
      BY Constants DEF Extra
    <3> QED
      BY <1>t, <2>1, <3>1, FireFacts
  <2>3. pc' \in {"act", "fatal"} /\ iter' \in [0 .. NRegions -> 0 .. ConvergeLimit + 1]
    <3>1. 1 \in 0 .. NRegions
      BY Constants DEF Region
    <3> QED
      BY <1>t, <1>17, <3>1, LoopFacts DEF NbaExtra
  <2>4. /\ UNCHANGED <<time, didInit, act, pre, trig, runs, late, schedVars, delayVars, seenVars>>
        /\ pc = "phase" /\ nbaPending' = FALSE
    BY <1>17 DEF NbaExtra
  <2>5. TypeOK'
    BY <1>t, <2>2, <2>3, <2>4 DEF TypeOK, schedVars, delayVars, seenVars
  <2> QED
    BY <1>t, <1>f, <2>3, <2>4, <2>5 DEF Base, Control, schedVars, delayVars
<1>18. CASE AdvanceTime
  <2>1. NextTimeSlot \in Nat /\ From(queue, NextTimeSlot)
    <3>1. CASE queue = <<>>
      BY <1>t, <3>1 DEF NextTimeSlot, From
    <3>2. CASE queue # <<>>
      <4>1. queue[1][1] \in Nat /\ NextTimeSlot = queue[1][1]
        BY <1>t, <1>q, <3>2, TailFacts DEF NextTimeSlot
      <4>2. Len(queue) \in Nat /\ 1 \in 1 .. Len(queue)
        BY <1>q, <3>2, EmptySeq, LenProperties
      <4>3. \A i \in 1 .. Len(queue) : queue[1][1] <= queue[i][1] /\ queue[i][1] \in Nat
        BY <1>t, <1>q, <4>2, Entries DEF From
      <4> QED
        BY <1>t, <4>1, <4>3 DEF From
    <3> QED
      BY <3>1, <3>2
  <2>2. time' = NextTimeSlot /\ queue' = queue
    BY <1>18 DEF AdvanceTime, delayVars
  <2>3. From(queue, time)'
    BY <2>1, <2>2 DEF From
  <2>4. iter' \in [0 .. NRegions -> 0 .. ConvergeLimit + 1]
    BY <1>18, Constants DEF AdvanceTime, EnterLoops
  <2>5. TypeOK'
    BY <1>t, <1>18, <2>1, <2>2, <2>4 DEF TypeOK, AdvanceTime, designVars, schedVars, delayVars, seenVars
  <2> QED
    BY <1>t, <1>18, <2>3, <2>5 DEF Base, Control, AdvanceTime, schedVars, delayVars
<1>19. CASE Finish
  <2>1. TypeOK'
    BY <1>t, <1>19 DEF TypeOK, Finish, loopVars, designVars, schedVars, delayVars, seenVars
  <2> QED
    BY <1>t, <1>f, <1>19, <2>1 DEF Base, Control, Finish, loopVars, schedVars, delayVars
<1>20. CASE UNCHANGED vars
  <2>1. TypeOK'
    BY <1>t, <1>20 DEF TypeOK, vars, loopVars, designVars, schedVars, delayVars, seenVars
  <2> QED
    BY <1>t, <1>f, <1>20, <2>1 DEF Base, Control, vars, loopVars, schedVars, delayVars
<1> QED
  BY <1>1, <1>1a, <1>2, <1>3, <1>4, <1>5, <1>6, <1>7, <1>8, <1>9, <1>10, <1>11, <1>12, <1>13, <1>14,
     <1>15, <1>16, <1>17, <1>18, <1>19, <1>20 DEF Next, Step, Stopped, Initial, Fork

\* Every variable of the loop keeps its type, however many coroutines, items,
\* schedulers and regions there are: in particular no loop counter passes the limit
\* of --converge-limit, and the delay queue holds coroutines only.
THEOREM TypeCorrect == Spec => []TypeOK
<1>1. Base => TypeOK
  BY DEF Base
<1> QED
  BY BaseInit, BaseStep, <1>1, PTL DEF Spec

--------------------------------------------------------------------------------
(* The triggers of the regions. *)

\* Steps that leave the vectors alone.
LEMMA RegionsKept ==
  ASSUME Regions, UNCHANGED <<trig, seen, preSeen>>,
         pc' \notin {"phase", "returned", "done"} \/ (pc' = "phase" /\ cur' = 1)
           \/ UNCHANGED <<pc, cur>>
  PROVE  Regions'
BY DEF Regions

LEMMA RegionsStep == Base /\ Regions /\ [Next]_vars => Regions'
<1> SUFFICES ASSUME Base, Regions, [Next]_vars PROVE Regions'
  OBVIOUS
<1>t. TypeOK /\ Control /\ NRegions \in Nat \ {0} /\ 1 \in Region
  BY Constants DEF Base
<1>g. trig \in [Region -> SUBSET Trigger] /\ seen \in [Region -> SUBSET Trigger]
  BY <1>t DEF TypeOK
<1>1. ASSUME NEW c \in Coro, Begin(c) PROVE Regions'
  BY <1>1, RegionsKept DEF Begin, loopVars, seenVars
<1>1a. CASE EndInitial
  BY <1>1a, RegionsKept DEF EndInitial, seenVars
<1>2. CASE EvalTriggersAct
  BY <1>2, RegionsKept DEF EvalTriggersAct, seenVars
<1>3. CASE TimingCommit
  BY <1>3, RegionsKept DEF TimingCommit, seenVars, loopVars
<1>4. CASE Latch
  <2>1. trig' = [trig EXCEPT ![1] = @ \cup act] /\ seen' = [r \in Region |-> seen[r] \cup act]
        /\ preSeen' = preSeen \cup (act \ trig[1]) /\ pc' = "sched"
    BY <1>4 DEF Latch
  <2>2. ASSUME NEW r \in Region, NEW x PROVE x \in seen'[r] <=> \E q \in 1 .. r : x \in trig'[q]
    <3>1. r \in Nat /\ 1 \in 1 .. r /\ \A q \in 1 .. r : q \in Region
      BY <1>t DEF Region
    <3>2. x \in seen[r] <=> \E q \in 1 .. r : x \in trig[q]
      BY DEF Regions
    <3>3. \A q \in 1 .. r : x \in trig'[q] <=> x \in trig[q] \/ (q = 1 /\ x \in act)
      BY <1>g, <2>1, <3>1
    <3>4. x \in seen'[r] <=> x \in seen[r] \/ x \in act
      BY <2>1
    <3> QED
      BY <3>1, <3>2, <3>3, <3>4
  <2>3. preSeen' \subseteq trig'[1]
    BY <1>t, <1>g, <2>1 DEF Regions
  <2> QED
    BY <2>1, <2>2, <2>3 DEF Regions
<1>5. CASE BeginResume \/ SkipSched \/ EndResume
  BY <1>5, RegionsKept DEF BeginResume, SkipSched, EndResume, seenVars, loopVars
<1>6. CASE ResumeCoro \/ ResumeDelayed \/ ResumeZero
  BY <1>6, RegionsKept DEF ResumeCoro, ResumeDelayed, ResumeZero, seenVars, loopVars
<1>7. CASE BeginDelay \/ BeginZero \/ EndDelay
  BY <1>7, RegionsKept DEF BeginDelay, BeginZero, EndDelay, seenVars, loopVars
<1>8. CASE EvalAct
  <2>1. pc' \in {"act", "fatal"}
    BY <1>8 DEF EvalAct, LoopAgain
  <2> QED
    BY <1>8, <2>1, RegionsKept DEF EvalAct, seenVars
<1>9. ASSUME NEW r \in Region, RegionWork(r) PROVE Regions'
  <2>1. /\ pc = "phase" /\ cur = r /\ trig' = HandOn(r) /\ seen' = [seen EXCEPT ![r] = {}]
        /\ preSeen' = (IF r = 1 THEN {} ELSE preSeen)
    BY <1>9 DEF RegionWork
  <2>2. pc' \in {"act", "fatal"}
    BY <1>9 DEF RegionWork, LoopAgain
  <2>3. \A q \in 1 .. r - 1 : trig[q] = {}
    BY <2>1 DEF Regions
  <2>4. ASSUME NEW t \in Region, NEW x PROVE x \in seen'[t] <=> \E q \in 1 .. t : x \in trig'[q]
    <3>1. r \in Nat /\ t \in Nat /\ r >= 1 /\ t >= 1 /\ \A q \in 1 .. t : q \in Region
      BY <1>t DEF Region
    <3>2. x \in seen[t] <=> \E q \in 1 .. t : x \in trig[q]
      BY DEF Regions
    <3>3. \A q \in 1 .. t : x \in trig'[q] <=> q # r /\ (x \in trig[q] \/ (q = r + 1 /\ x \in trig[r]))
      BY <2>1, <3>1 DEF HandOn
    <3>4. CASE t < r
      <4>1. \A q \in 1 .. t : q # r /\ q # r + 1
        BY <3>1, <3>4
      <4>2. x \in seen'[t] <=> x \in seen[t]
        BY <1>g, <2>1, <3>1, <3>4
      <4> QED
        BY <3>2, <3>3, <4>1, <4>2
    <3>5. CASE t = r
      <4>1. x \notin seen'[t]
        BY <1>g, <2>1, <3>5
      <4>2. \A q \in 1 .. t : q = r \/ (q \in 1 .. r - 1 /\ q # r + 1)
        BY <3>1, <3>5
      <4> QED
        BY <2>3, <3>3, <4>1, <4>2
    <3>6. CASE t > r
      <4>1. x \in seen'[t] <=> x \in seen[t]
        BY <1>g, <2>1, <3>1, <3>6
      <4>2. r \in 1 .. t /\ r + 1 \in 1 .. t /\ r + 1 # r
        BY <3>1, <3>6
      <4> QED
        BY <3>2, <3>3, <4>1, <4>2
    <3> QED
      BY <3>1, <3>4, <3>5, <3>6
  <2>5. preSeen' \subseteq trig'[1]
    <3>1. CASE r = 1
      BY <2>1, <3>1
    <3>2. CASE r # 1
      <4>1. 1 # r + 1
        BY <1>t DEF Region
      <4> QED
        BY <1>t, <2>1, <3>2, <4>1 DEF HandOn, Regions
    <3> QED
      BY <3>1, <3>2
  <2> QED
    BY <2>2, <2>4, <2>5 DEF Regions
<1>10. ASSUME NEW r \in Region, RegionDone(r) PROVE Regions'
  <2>1. UNCHANGED <<trig, seen, preSeen>> /\ pc = "phase" /\ cur = r /\ trig[r] = {}
    BY <1>10 DEF RegionDone, loopVars, seenVars
  <2>2. \A q \in 1 .. r : trig[q] = {}
    <3>1. \A q \in 1 .. r : q = r \/ q \in 1 .. r - 1
      BY <1>t DEF Region
    <3> QED
      BY <2>1, <3>1 DEF Regions
  <2>3. CASE r < NRegions /\ cur' = r + 1 /\ pc' = "phase"
    <3>1. (r + 1) - 1 = r
      BY <1>t DEF Region
    <3> QED
      BY <2>1, <2>2, <2>3, <3>1 DEF Regions
  <2>4. CASE ~(r < NRegions) /\ pc' = "returned"
    <3>1. r = NRegions
      BY <1>t, <2>4 DEF Region
    <3> QED
      BY <2>1, <2>2, <2>4, <3>1 DEF Regions, Region
  <2> QED
    BY <1>10, <2>1, <2>3, <2>4 DEF RegionDone
<1>11. CASE NbaExtra
  <2>1. pc' \in {"act", "fatal"}
    BY <1>11 DEF NbaExtra, LoopAgain
  <2> QED
    BY <1>11, <2>1, RegionsKept DEF NbaExtra, seenVars
<1>12. CASE AdvanceTime
  BY <1>12, RegionsKept DEF AdvanceTime, seenVars
<1>13. CASE Finish
  <2>1. UNCHANGED <<trig, seen, preSeen>> /\ pc = "returned" /\ pc' = "done"
    BY <1>13 DEF Finish, loopVars, seenVars
  <2> QED
    BY <2>1 DEF Regions
<1>14. CASE UNCHANGED vars
  BY <1>14, RegionsKept DEF vars, loopVars, seenVars, schedVars
<1> QED
  BY <1>1, <1>1a, <1>2, <1>3, <1>4, <1>5, <1>6, <1>7, <1>8, <1>9, <1>10, <1>11, <1>12, <1>13, <1>14
     DEF Next, Step, Stopped, Initial, Fork

LEMMA RegionsInit == Init => Regions
BY Constants DEF Init, Regions, Region

\* When the turn of a region comes, its vector holds exactly what has triggered
\* since it last ran, whatever the number of regions and of iterations of the loops
\* inside: latching under the next region before clearing loses nothing.
THEOREM TriggersArrive == Spec => []TriggersReachRegions
<1>1. Base /\ Regions => TriggersReachRegions
  <2> SUFFICES ASSUME Base, Regions, NEW r \in Region, pc = "phase", cur = r
               PROVE  trig[r] = seen[r]
    BY DEF TriggersReachRegions
  <2>1. ASSUME NEW x PROVE x \in seen[r] <=> x \in trig[r]
    <3>1. r \in 1 .. r /\ \A q \in 1 .. r : q = r \/ q \in 1 .. cur - 1
      BY Constants DEF Region
    <3>2. x \in seen[r] <=> \E q \in 1 .. r : x \in trig[q]
      BY DEF Regions
    <3>3. \A q \in 1 .. cur - 1 : trig[q] = {}
      BY DEF Regions
    <3> QED
      BY <3>1, <3>2, <3>3
  <2>2. trig[r] \in SUBSET Trigger /\ seen[r] \in SUBSET Trigger
    BY DEF Base, TypeOK
  <2> QED
    BY <2>1, <2>2
<1> QED
  BY BaseInit, BaseStep, RegionsInit, RegionsStep, <1>1, PTL DEF Spec

\* `pre' logic runs at most once for a trigger between two runs of the nba region:
\* andNot() removes exactly what the pending nba triggers already hold.
THEOREM PreLogicOnce == Spec => PreOnce
<1>1. Regions /\ [Next]_vars => [pc = "latch" => pre' \cap preSeen = {}]_vars
  <2> SUFFICES ASSUME Regions, Next, pc = "latch" PROVE pre' \cap preSeen = {}
    OBVIOUS
  <2>1. Latch
    BY DEF Next, Step, Stopped, Initial, EndInitial, Fork, DesignRuns, EvalTriggersAct,
           TimingCommit, BeginResume, SkipSched,
           ResumeCoro, EndResume, BeginDelay, ResumeDelayed, BeginZero, ResumeZero, EndDelay,
           EvalAct, RegionWork, RegionDone, NbaExtra, AdvanceTime, Finish
  <2> QED
    BY <2>1 DEF Latch, Regions
<1> QED
  BY BaseInit, BaseStep, RegionsInit, RegionsStep, <1>1, PTL DEF Spec, PreOnce

--------------------------------------------------------------------------------
(* The delay scheduler's trigger, and the missed time slot. *)

\* A run keeps due what is due: it adds entries of later times only.
LEMMA RunKeepsDue ==
  ASSUME Base, NEW c \in Coro, Run(c, queue, zeroDelayed), time' = time, AwaitingCurrentTime
  PROVE  AwaitingCurrentTime'
<1>1. queue \in Seq(Entry) /\ zeroDelayed \in Seq(Coro) /\ From(queue, time) /\ TypeOK
  BY DEF Base, TypeOK, Entry
<1>2. /\ queue # <<>> /\ queue[1][1] <= time => queue' # <<>> /\ queue'[1] = queue[1]
      /\ zeroDelayed # <<>> => zeroDelayed' # <<>>
  BY <1>1, RunFacts
<1> QED
  BY <1>2 DEF AwaitingCurrentTime

\* Steps that leave the time and the delay scheduler alone.
LEMMA DueKept ==
  ASSUME Due, UNCHANGED <<time, queue, zeroDelayed, act>>,
         \/ pc \in {"latch", "sched", "resume"} /\ pc' \in {"latch", "sched", "resume"}
         \/ Idle /\ pc' \in {"phase", "returned", "done"}
         \/ pc' \in {"initial", "act", "evalAct", "fatal"}
         \/ UNCHANGED <<pc, cur, trig, resumed>>
  PROVE  Due'
<1>1. AwaitingCurrentTime' <=> AwaitingCurrentTime
  BY DEF AwaitingCurrentTime
<1> QED
  BY <1>1 DEF Due, Idle

LEMMA DueStep == Base /\ Due /\ [Next]_vars => Due'
<1> SUFFICES ASSUME Base, Due, [Next]_vars PROVE Due'
  OBVIOUS
<1>t. TypeOK /\ Control /\ From(queue, time) /\ time \in Nat /\ queue \in Seq(Entry)
      /\ resumeQueue \in Seq(Coro)
  BY DEF Base, TypeOK, Entry
<1>1. ASSUME NEW c \in Coro, Initial(c) \/ Fork(c) PROVE Due'
  <2>1. /\ Run(c, queue, zeroDelayed) /\ UNCHANGED <<time, act, trig, pc, cur, resumed>>
        /\ pc = "initial" \/ DesignRuns
    BY <1>1 DEF Initial, Fork, Begin, loopVars
  <2>2. pc # "commit" /\ ~Idle'
    BY <2>1 DEF DesignRuns, Idle
  <2>3. AwaitingCurrentTime => AwaitingCurrentTime'
    BY <2>1, RunKeepsDue
  <2> QED
    BY <2>1, <2>2, <2>3 DEF Due, Idle
<1>1a. CASE EndInitial
  BY <1>1a DEF EndInitial, Due, Idle
<1>2. CASE EvalTriggersAct
  <2>1. AwaitingCurrentTime' <=> AwaitingCurrentTime
    BY <1>2 DEF EvalTriggersAct, delayVars, AwaitingCurrentTime
  <2>2. pc' = "commit"
    BY <1>2 DEF EvalTriggersAct
  <2>3. fired \subseteq Item /\ ChangeItem \subseteq Item /\ Dly \notin Item
    BY <1>t, TimingAssumption DEF TypeOK, DesignItem
  <2>4. act' = fired \cup (IF didInit THEN {} ELSE ChangeItem)
                     \cup (IF AwaitingCurrentTime THEN {Dly} ELSE {})
    BY <1>2 DEF EvalTriggersAct
  <2>5. Dly \in act' <=> AwaitingCurrentTime
    BY <2>3, <2>4
  <2> QED
    BY <2>1, <2>2, <2>5 DEF Due, Idle
<1>3. CASE TimingCommit
  <2>1. AwaitingCurrentTime' <=> AwaitingCurrentTime
    BY <1>3 DEF TimingCommit, delayVars, loopVars, AwaitingCurrentTime
  <2>2. act' = act /\ pc = "commit" /\ (pc' = "latch" \/ (pc' = "phase" /\ act = {}))
    BY <1>3 DEF TimingCommit, loopVars
  <2> QED
    BY <2>1, <2>2 DEF Due, Idle
<1>4. CASE Latch \/ BeginResume \/ SkipSched \/ EndResume
  BY <1>4, DueKept DEF Latch, BeginResume, SkipSched, EndResume, loopVars, delayVars
<1>5. CASE ResumeCoro
  <2>1. Head(resumeQueue) \in Coro
    BY <1>t, <1>5, TakeHead DEF ResumeCoro
  <2>2. /\ Run(Head(resumeQueue), queue, zeroDelayed)
        /\ time' = time /\ act' = act /\ pc = "resume" /\ pc' = "resume"
    BY <1>5 DEF ResumeCoro, loopVars
  <2>3. Dly \in act => AwaitingCurrentTime
    BY <2>2 DEF Due, Idle
  <2>4. AwaitingCurrentTime => AwaitingCurrentTime'
    BY <2>1, <2>2, RunKeepsDue
  <2> QED
    BY <2>2, <2>3, <2>4 DEF Due, Idle
<1>6. CASE BeginDelay
  <2>1. AwaitingCurrentTime' <=> AwaitingCurrentTime
    BY <1>6 DEF BeginDelay, loopVars, AwaitingCurrentTime
  <2>2. pc = "sched" /\ (pc' = "evalAct" \/ (Dly \in act /\ pc' = "delay"))
    BY <1>6 DEF BeginDelay
  <2> QED
    BY <2>1, <2>2 DEF Due, Idle
<1>7. CASE ResumeDelayed
  BY <1>7 DEF ResumeDelayed, Due, Idle
<1>8. CASE BeginZero
  <2>1. /\ pc = "delay" /\ pc' = "zero" /\ resumed' = (resumed \/ zeroDelayed # <<>>)
        /\ ~(queue # <<>> /\ queue[1][1] = time)
    BY <1>8 DEF BeginZero
  <2>2. CASE ~resumed
    <3>1. AwaitingCurrentTime
      BY <2>1, <2>2 DEF Due, Idle
    <3>2. ASSUME queue # <<>>, queue[1][1] <= time PROVE FALSE
      <4>1. 1 \in 1 .. Len(queue)
        BY <1>t, <3>2, EmptySeq, LenProperties
      <4>2. queue[1][1] \in Nat /\ queue[1][1] >= time
        BY <1>t, <4>1, Entries DEF From
      <4> QED
        BY <1>t, <2>1, <3>2, <4>2
    <3>3. zeroDelayed # <<>>
      BY <3>1, <3>2 DEF AwaitingCurrentTime
    <3>4. resumed' = TRUE
      BY <2>1, <3>3
    <3> QED
      BY <2>1, <3>4 DEF Due, Idle
  <2>3. CASE resumed
    <3>1. resumed' = TRUE
      BY <2>1, <2>3
    <3> QED
      BY <2>1, <3>1 DEF Due, Idle
  <2> QED
    BY <2>2, <2>3
<1>9. CASE ResumeZero
  BY <1>9 DEF ResumeZero, Due, Idle
<1>10. CASE EndDelay
  <2>1. pc' = "evalAct"
    BY <1>10 DEF EndDelay, Due
  <2> QED
    BY <2>1 DEF Due, Idle
<1>11. CASE EvalAct
  <2>1. pc' \in {"act", "fatal"}
    BY <1>11 DEF EvalAct, LoopAgain
  <2> QED
    BY <2>1 DEF Due, Idle
<1>12. ASSUME NEW r \in Region, RegionWork(r) PROVE Due'
  <2>1. pc' \in {"act", "fatal"}
    BY <1>12 DEF RegionWork, LoopAgain
  <2> QED
    BY <2>1 DEF Due, Idle
<1>13. ASSUME NEW r \in Region, RegionDone(r) PROVE Due'
  <2>1. Idle /\ pc' \in {"phase", "returned"}
    BY <1>13 DEF RegionDone, Idle
  <2>2. UNCHANGED <<time, queue, zeroDelayed, act>>
    BY <1>13 DEF RegionDone, loopVars, delayVars
  <2> QED
    BY <2>1, <2>2, DueKept
<1>14. CASE NbaExtra
  <2>1. pc' \in {"act", "fatal"}
    BY <1>14 DEF NbaExtra, LoopAgain
  <2> QED
    BY <2>1 DEF Due, Idle
<1>15. CASE AdvanceTime
  BY <1>15 DEF AdvanceTime, Due, Idle
<1>16. CASE Finish
  BY <1>16, DueKept DEF Finish, Idle, loopVars, delayVars
<1>17. CASE UNCHANGED vars
  BY <1>17, DueKept DEF vars, loopVars, schedVars, delayVars
<1> QED
  BY <1>1, <1>1a, <1>2, <1>3, <1>4, <1>5, <1>6, <1>7, <1>8, <1>9, <1>10, <1>11, <1>12, <1>13, <1>14,
     <1>15, <1>16, <1>17 DEF Next, Step, Stopped

LEMMA DueInit == Init => Due
BY DEF Init, Due, Idle

\* Under the generated main() the fatal `Missed a time slot?' of
\* VlDelayScheduler::resume is unreachable: time only moves to the first entry of
\* the ordered queue, and the delay scheduler is resumed only with something due.
THEOREM SlotsNotMissed == Spec => []NoMissedSlot
<1>1. Base /\ Due => NoMissedSlot
  <2> SUFFICES ASSUME Base, Due PROVE NoMissedSlot
    OBVIOUS
  <2>1. queue \in Seq(Entry) /\ From(queue, time)
    BY DEF Base, TypeOK, Entry
  <2>2. DOMAIN queue = 1 .. Len(queue)
    BY <2>1, LenProperties
  <2> QED
    BY <2>1, <2>2 DEF NoMissedSlot, Due, From
<1> QED
  BY BaseInit, BaseStep, DueInit, DueStep, <1>1, PTL DEF Spec

--------------------------------------------------------------------------------
(* A coroutine is held once. *)

\* The six kinds of queue.
LEMMA KeyCases ==
  ASSUME NEW k \in Key
  PROVE  \/ \E s \in Sched : k = <<"uncommitted", s>>
         \/ \E s \in Sched : k = <<"ready", s>>
         \/ k = <<"resumeQueue", 0>> \/ k = <<"queue", 0>>
         \/ k = <<"zeroDelayed", 0>> \/ k = <<"zeroDlyResumed", 0>>
BY DEF Key

LEMMA KeyMembers ==
  /\ \A s \in Sched : <<"uncommitted", s>> \in Key /\ <<"ready", s>> \in Key
  /\ <<"resumeQueue", 0>> \in Key /\ <<"queue", 0>> \in Key
  /\ <<"zeroDelayed", 0>> \in Key /\ <<"zeroDlyResumed", 0>> \in Key
BY DEF Key

LEMMA HasInAt ==
  ASSUME NEW c, NEW u, NEW y, NEW r, NEW q, NEW z, NEW x
  PROVE  /\ \A s : HasIn(<<"uncommitted", s>>, c, u, y, r, q, z, x) <=> Holds(u[s], c)
         /\ \A s : HasIn(<<"ready", s>>, c, u, y, r, q, z, x) <=> Holds(y[s], c)
         /\ HasIn(<<"resumeQueue", 0>>, c, u, y, r, q, z, x) <=> Holds(r, c)
         /\ HasIn(<<"queue", 0>>, c, u, y, r, q, z, x) <=> HoldsLate(q, c)
         /\ HasIn(<<"zeroDelayed", 0>>, c, u, y, r, q, z, x) <=> Holds(z, c)
         /\ HasIn(<<"zeroDlyResumed", 0>>, c, u, y, r, q, z, x) <=> Holds(x, c)
BY DEF HasIn

\* The steps that run a coroutine: q, z, resumeQueue' and zeroDlyResumed' are the
\* queues once c has been taken out.
LEMMA RunHeld ==
  ASSUME Base, Held, NEW c \in Coro, NEW q \in Seq(Entry), From(q, time), NEW z \in Seq(Coro),
         Run(c, q, z),
         DistinctLate(q), Distinct(z), Distinct(resumeQueue'), Distinct(zeroDlyResumed'),
         \A d \in Coro : \A k \in Key :
            HasIn(k, d, uncommitted, ready, resumeQueue', q, z, zeroDlyResumed')
              <=> Has(k, d) /\ d # c
  PROVE  Held'
<1> DEFINE Mid(k, d) == HasIn(k, d, uncommitted, ready, resumeQueue', q, z, zeroDlyResumed')
           After(k, d) == HasIn(k, d, uncommitted', ready', resumeQueue', queue', zeroDelayed',
                                zeroDlyResumed')
<1>t. /\ uncommitted \in [Sched -> Seq(Coro)] /\ ready \in [Sched -> Seq(Coro)]
      /\ runs \in [Coro -> Nat \cup {Ended}] /\ time \in Nat /\ Delays \subseteq Nat
      /\ MaxRuns[c] \in Nat
      /\ WaitScheds \subseteq Sched
  BY Constants DEF Base, TypeOK
<1>d. \A s \in Sched : Distinct(uncommitted[s]) /\ Distinct(ready[s])
  BY DEF Held, AllDistinct
<1>a. \A k, d : Has(k, d)' <=> After(k, d)
  BY DEF Has
<1>m. \A d \in Coro : \A k \in Key : Mid(k, d) <=> Has(k, d) /\ d # c
  OBVIOUS
<1>x. \A d : /\ \A s : Mid(<<"uncommitted", s>>, d) <=> Holds(uncommitted[s], d)
             /\ \A s : Mid(<<"ready", s>>, d) <=> Holds(ready[s], d)
             /\ Mid(<<"resumeQueue", 0>>, d) <=> Holds(resumeQueue', d)
             /\ Mid(<<"queue", 0>>, d) <=> HoldsLate(q, d)
             /\ Mid(<<"zeroDelayed", 0>>, d) <=> Holds(z, d)
             /\ Mid(<<"zeroDlyResumed", 0>>, d) <=> Holds(zeroDlyResumed', d)
  BY HasInAt
<1>y. \A d : /\ \A s : After(<<"uncommitted", s>>, d) <=> Holds(uncommitted'[s], d)
             /\ \A s : After(<<"ready", s>>, d) <=> Holds(ready'[s], d)
             /\ After(<<"resumeQueue", 0>>, d) <=> Holds(resumeQueue', d)
             /\ After(<<"queue", 0>>, d) <=> HoldsLate(queue', d)
             /\ After(<<"zeroDelayed", 0>>, d) <=> Holds(zeroDelayed', d)
             /\ After(<<"zeroDlyResumed", 0>>, d) <=> Holds(zeroDlyResumed', d)
  BY HasInAt
<1> HIDE DEF Mid, After
<1>n. /\ \A s \in Sched : ~Holds(uncommitted[s], c) /\ ~Holds(ready[s], c)
      /\ ~HoldsLate(q, c) /\ ~Holds(z, c)
  <2>1. \A k \in Key : ~Mid(k, c)
    BY <1>m
  <2> QED
    BY <1>x, <2>1, KeyMembers
<1>z. ASSUME NEW d \in Coro, NEW K,
             \A s \in Sched : Holds(uncommitted'[s], d)
                <=> Holds(uncommitted[s], d) \/ (d = c /\ K = <<"uncommitted", s>>),
             \A s \in Sched : Holds(ready'[s], d)
                <=> Holds(ready[s], d) \/ (d = c /\ K = <<"ready", s>>),
             HoldsLate(queue', d) <=> HoldsLate(q, d) \/ (d = c /\ K = <<"queue", 0>>),
             Holds(zeroDelayed', d) <=> Holds(z, d) \/ (d = c /\ K = <<"zeroDelayed", 0>>),
             K # <<"resumeQueue", 0>>, K # <<"zeroDlyResumed", 0>>, NEW k \in Key
      PROVE  After(k, d) <=> Mid(k, d) \/ (d = c /\ K = k)
  <2>1. CASE \E s \in Sched : k = <<"uncommitted", s>>
    BY <1>x, <1>y, <1>z, <2>1
  <2>2. CASE \E s \in Sched : k = <<"ready", s>>
    BY <1>x, <1>y, <1>z, <2>2
  <2>3. CASE k = <<"resumeQueue", 0>>
    BY <1>x, <1>y, <1>z, <2>3
  <2>4. CASE k = <<"queue", 0>>
    BY <1>x, <1>y, <1>z, <2>4
  <2>5. CASE k = <<"zeroDelayed", 0>>
    BY <1>x, <1>y, <1>z, <2>5
  <2>6. CASE k = <<"zeroDlyResumed", 0>>
    BY <1>x, <1>y, <1>z, <2>6
  <2> QED
    BY <2>1, <2>2, <2>3, <2>4, <2>5, <2>6, KeyCases
<1>1. ASSUME NEW s \in Sched, uncommitted' = [uncommitted EXCEPT ![s] = Append(@, c)],
             ready' = ready, queue' = q, zeroDelayed' = z
      PROVE  /\ AllDistinct'
             /\ \A d \in Coro : \A k \in Key :
                  After(k, d) <=> Mid(k, d) \/ (d = c /\ <<"uncommitted", s>> = k)
  <2>1. /\ Distinct(Append(uncommitted[s], c))
        /\ \A d : Holds(Append(uncommitted[s], c), d) <=> Holds(uncommitted[s], d) \/ d = c
    BY <1>t, <1>d, <1>n, AddLastHolds
  <2>2. \A v \in Sched : uncommitted'[v] = IF v = s THEN Append(uncommitted[s], c) ELSE uncommitted[v]
    BY <1>t, <1>1
  <2>3. AllDistinct'
    BY <1>1, <1>d, <2>1, <2>2 DEF AllDistinct
  <2>4. ASSUME NEW d \in Coro, NEW k \in Key
        PROVE  After(k, d) <=> Mid(k, d) \/ (d = c /\ <<"uncommitted", s>> = k)
    <3>1. \A v \in Sched : Holds(uncommitted'[v], d)
             <=> Holds(uncommitted[v], d) \/ (d = c /\ <<"uncommitted", s>> = <<"uncommitted", v>>)
      BY <2>1, <2>2
    <3> QED
      BY <1>z, <1>1, <3>1
  <2> QED
    BY <2>3, <2>4
<1>2. ASSUME NEW s \in Sched, ready' = [ready EXCEPT ![s] = Append(@, c)],
             uncommitted' = uncommitted, queue' = q, zeroDelayed' = z
      PROVE  /\ AllDistinct'
             /\ \A d \in Coro : \A k \in Key :
                  After(k, d) <=> Mid(k, d) \/ (d = c /\ <<"ready", s>> = k)
  <2>1. /\ Distinct(Append(ready[s], c))
        /\ \A d : Holds(Append(ready[s], c), d) <=> Holds(ready[s], d) \/ d = c
    BY <1>t, <1>d, <1>n, AddLastHolds
  <2>2. \A v \in Sched : ready'[v] = IF v = s THEN Append(ready[s], c) ELSE ready[v]
    BY <1>t, <1>2
  <2>3. AllDistinct'
    BY <1>2, <1>d, <2>1, <2>2 DEF AllDistinct
  <2>4. ASSUME NEW d \in Coro, NEW k \in Key
        PROVE  After(k, d) <=> Mid(k, d) \/ (d = c /\ <<"ready", s>> = k)
    <3>1. \A v \in Sched : Holds(ready'[v], d)
             <=> Holds(ready[v], d) \/ (d = c /\ <<"ready", s>> = <<"ready", v>>)
      BY <2>1, <2>2
    <3> QED
      BY <1>z, <1>2, <3>1
  <2> QED
    BY <2>3, <2>4
<1>3. ASSUME NEW t \in Delays \ {0}, queue' = Emplace(q, time + t, c), zeroDelayed' = z,
             uncommitted' = uncommitted, ready' = ready
      PROVE  /\ AllDistinct'
             /\ \A d \in Coro : \A k \in Key :
                  After(k, d) <=> Mid(k, d) \/ (d = c /\ <<"queue", 0>> = k)
  <2>0. time + t \in Nat /\ time + t >= time
    BY <1>t
  <2>1. /\ DistinctLate(queue')
        /\ \A d : HoldsLate(queue', d) <=> HoldsLate(q, d) \/ d = c
    BY <1>t, <1>n, <1>3, <2>0, EmplaceFacts
  <2>3. AllDistinct'
    BY <1>3, <1>d, <2>1 DEF AllDistinct
  <2>4. ASSUME NEW d \in Coro, NEW k \in Key
        PROVE  After(k, d) <=> Mid(k, d) \/ (d = c /\ <<"queue", 0>> = k)
    <3> DEFINE K == <<"queue", 0>>
    <3>1. /\ \A s \in Sched : K # <<"uncommitted", s>> /\ K # <<"ready", s>>
          /\ K # <<"resumeQueue", 0>> /\ K # <<"zeroDlyResumed", 0>>
          /\ K = <<"queue", 0>> /\ K # <<"zeroDelayed", 0>>
      OBVIOUS
    <3> HIDE DEF K
    <3>2. After(k, d) <=> Mid(k, d) \/ (d = c /\ K = k)
      BY <1>z, <1>3, <2>1, <3>1
    <3> QED
      BY <3>2 DEF K
  <2> QED
    BY <2>3, <2>4
<1>4. ASSUME queue' = q, zeroDelayed' = Append(z, c), uncommitted' = uncommitted, ready' = ready
      PROVE  /\ AllDistinct'
             /\ \A d \in Coro : \A k \in Key :
                  After(k, d) <=> Mid(k, d) \/ (d = c /\ <<"zeroDelayed", 0>> = k)
  <2>1. /\ Distinct(zeroDelayed')
        /\ \A d : Holds(zeroDelayed', d) <=> Holds(z, d) \/ d = c
    BY <1>n, <1>4, AddLastHolds
  <2>3. AllDistinct'
    BY <1>4, <1>d, <2>1 DEF AllDistinct
  <2>4. ASSUME NEW d \in Coro, NEW k \in Key
        PROVE  After(k, d) <=> Mid(k, d) \/ (d = c /\ <<"zeroDelayed", 0>> = k)
    <3> DEFINE K == <<"zeroDelayed", 0>>
    <3>1. /\ \A s \in Sched : K # <<"uncommitted", s>> /\ K # <<"ready", s>>
          /\ K # <<"resumeQueue", 0>> /\ K # <<"zeroDlyResumed", 0>>
          /\ K # <<"queue", 0>> /\ K = <<"zeroDelayed", 0>>
      OBVIOUS
    <3> HIDE DEF K
    <3>2. After(k, d) <=> Mid(k, d) \/ (d = c /\ K = k)
      BY <1>z, <1>4, <2>1, <3>1
    <3> QED
      BY <3>2 DEF K
  <2> QED
    BY <2>3, <2>4
<1>5. ASSUME queue' = q, zeroDelayed' = z, uncommitted' = uncommitted, ready' = ready
      PROVE  AllDistinct' /\ \A d \in Coro : \A k \in Key : After(k, d) <=> Mid(k, d)
  BY <1>d, <1>5 DEF AllDistinct, Mid, After
<1>6. /\ AllDistinct'
      /\ \E P \in BOOLEAN : \E K \in Key :
           /\ P <=> runs'[c] \notin {0, Ended}
           /\ \A d \in Coro : \A k \in Key : After(k, d) <=> Mid(k, d) \/ (P /\ d = c /\ K = k)
  <2> DEFINE Goal(P, K) == \A d \in Coro : \A k \in Key : After(k, d) <=> Mid(k, d) \/ (P /\ d = c /\ K = k)
  <2> SUFFICES AllDistinct' /\ \E P \in BOOLEAN : \E K \in Key : (P <=> runs'[c] \notin {0, Ended}) /\ Goal(P, K)
    OBVIOUS
  <2>1. ASSUME runs[c] \in 0 .. MaxRuns[c] - 1, runs' = [runs EXCEPT ![c] = @ + 1]
        PROVE  runs'[c] \notin {0, Ended}
    BY <1>t, <2>1 DEF Ended
  <2>2. CASE /\ runs[c] \in 0 .. MaxRuns[c] - 1 /\ runs' = [runs EXCEPT ![c] = @ + 1]
             /\ queue' = q /\ zeroDelayed' = z
             /\ \E s \in Sched : /\ uncommitted' = [uncommitted EXCEPT ![s] = Append(@, c)]
                                 /\ ready' = ready
    <3>1. PICK s \in Sched : uncommitted' = [uncommitted EXCEPT ![s] = Append(@, c)] /\ ready' = ready
      BY <2>2
    <3>2. AllDistinct' /\ Goal(TRUE, <<"uncommitted", s>>)
      BY <1>1, <2>2, <3>1
    <3> HIDE DEF Goal
    <3> QED
      BY <2>1, <2>2, <3>2, KeyMembers
  <2>3. CASE /\ runs[c] \in 0 .. MaxRuns[c] - 1 /\ runs' = [runs EXCEPT ![c] = @ + 1]
             /\ queue' = q /\ zeroDelayed' = z
             /\ \E s \in WaitScheds : /\ ready' = [ready EXCEPT ![s] = Append(@, c)]
                                      /\ uncommitted' = uncommitted
    <3>1. PICK s \in Sched : ready' = [ready EXCEPT ![s] = Append(@, c)] /\ uncommitted' = uncommitted
      BY <1>t, <2>3
    <3>2. AllDistinct' /\ Goal(TRUE, <<"ready", s>>)
      BY <1>2, <2>3, <3>1
    <3> HIDE DEF Goal
    <3> QED
      BY <2>1, <2>3, <3>2, KeyMembers
  <2>4. CASE /\ runs[c] \in 0 .. MaxRuns[c] - 1 /\ runs' = [runs EXCEPT ![c] = @ + 1]
             /\ \E t \in Delays \ {0} : queue' = Emplace(q, time + t, c)
             /\ zeroDelayed' = z /\ uncommitted' = uncommitted /\ ready' = ready
    <3>2. AllDistinct' /\ Goal(TRUE, <<"queue", 0>>)
      BY <1>3, <2>4
    <3> HIDE DEF Goal
    <3> QED
      BY <2>1, <2>4, <3>2, KeyMembers
  <2>5. CASE /\ runs[c] \in 0 .. MaxRuns[c] - 1 /\ runs' = [runs EXCEPT ![c] = @ + 1]
             /\ queue' = q /\ zeroDelayed' = Append(z, c)
             /\ uncommitted' = uncommitted /\ ready' = ready
    <3>2. AllDistinct' /\ Goal(TRUE, <<"zeroDelayed", 0>>)
      BY <1>4, <2>5
    <3> HIDE DEF Goal
    <3> QED
      BY <2>1, <2>5, <3>2, KeyMembers
  <2>6. CASE /\ runs' = [runs EXCEPT ![c] = Ended] /\ queue' = q /\ zeroDelayed' = z
             /\ uncommitted' = uncommitted /\ ready' = ready
    <3>1. runs'[c] = Ended
      BY <1>t, <2>6
    <3>2. AllDistinct' /\ Goal(FALSE, <<"queue", 0>>)
      BY <1>5, <2>6
    <3> HIDE DEF Goal
    <3> QED
      BY <3>1, <3>2, KeyMembers
  <2> HIDE DEF Goal
  <2> QED
    BY <2>2, <2>3, <2>4, <2>5, <2>6, RunCases
<1>7. PICK P \in BOOLEAN, K \in Key :
         /\ P <=> runs'[c] \notin {0, Ended}
         /\ \A d \in Coro : \A k \in Key : After(k, d) <=> Mid(k, d) \/ (P /\ d = c /\ K = k)
  BY <1>6
<1>8. \A d \in Coro \ {c} : runs'[d] = runs[d]
  BY <1>t DEF Run
<1>9. ASSUME NEW d \in Coro PROVE \A k, l \in Key : Has(k, d)' /\ Has(l, d)' => k = l
  <2> SUFFICES ASSUME NEW k \in Key, NEW l \in Key, After(k, d), After(l, d) PROVE k = l
    BY <1>a
  <2>1. CASE d = c
    BY <1>7, <1>m, <2>1
  <2>2. CASE d # c
    <3>1. Has(k, d) /\ Has(l, d)
      BY <1>7, <1>m, <2>2
    <3> QED
      BY <3>1 DEF Held
  <2> QED
    BY <2>1, <2>2
<1>10. ASSUME NEW d \in Coro PROVE Suspended(d)' <=> \E k \in Key : Has(k, d)'
  <2> SUFFICES Suspended(d)' <=> \E k \in Key : After(k, d)
    BY <1>a
  <2>1. CASE d = c
    <3>1. Suspended(d)' <=> P
      BY <1>7, <2>1 DEF Suspended
    <3>2. \A k \in Key : After(k, d) <=> P /\ K = k
      BY <1>7, <1>m, <2>1
    <3> QED
      BY <3>1, <3>2
  <2>2. CASE d # c
    <3>1. Suspended(d)' <=> Suspended(d)
      BY <1>8, <2>2 DEF Suspended
    <3>2. \A k \in Key : After(k, d) <=> Has(k, d)
      BY <1>7, <1>m, <2>2
    <3> QED
      BY <3>1, <3>2 DEF Held
  <2> QED
    BY <2>1, <2>2
<1> QED
  BY <1>6, <1>9, <1>10 DEF Held

\* Taking coroutine c out of the one queue K that holds it.
LEMMA TakenOut ==
  ASSUME Held, NEW c \in Coro, NEW K \in Key, Has(K, c), NEW r, NEW q, NEW z, NEW x,
         \A d \in Coro : \A k \in Key \ {K} : HasIn(k, d, uncommitted, ready, r, q, z, x) <=> Has(k, d),
         \A d \in Coro : HasIn(K, d, uncommitted, ready, r, q, z, x) <=> Has(K, d) /\ d # c
  PROVE  \A d \in Coro : \A k \in Key :
            HasIn(k, d, uncommitted, ready, r, q, z, x) <=> Has(k, d) /\ d # c
<1>1. \A k \in Key \ {K} : ~Has(k, c)
  BY DEF Held
<1> QED
  BY <1>1

\* Which coroutines a queue holds, before and after a step.
LEMMA HasAt ==
  ASSUME NEW d
  PROVE  /\ \A s : Has(<<"uncommitted", s>>, d) <=> Holds(uncommitted[s], d)
         /\ \A s : Has(<<"ready", s>>, d) <=> Holds(ready[s], d)
         /\ Has(<<"resumeQueue", 0>>, d) <=> Holds(resumeQueue, d)
         /\ Has(<<"queue", 0>>, d) <=> HoldsLate(queue, d)
         /\ Has(<<"zeroDelayed", 0>>, d) <=> Holds(zeroDelayed, d)
         /\ Has(<<"zeroDlyResumed", 0>>, d) <=> Holds(zeroDlyResumed, d)
BY HasInAt DEF Has

LEMMA HasAtNext ==
  ASSUME NEW d
  PROVE  /\ \A s : Has(<<"uncommitted", s>>, d)' <=> Holds(uncommitted'[s], d)
         /\ \A s : Has(<<"ready", s>>, d)' <=> Holds(ready'[s], d)
         /\ Has(<<"resumeQueue", 0>>, d)' <=> Holds(resumeQueue', d)
         /\ Has(<<"queue", 0>>, d)' <=> HoldsLate(queue', d)
         /\ Has(<<"zeroDelayed", 0>>, d)' <=> Holds(zeroDelayed', d)
         /\ Has(<<"zeroDlyResumed", 0>>, d)' <=> Holds(zeroDlyResumed', d)
BY HasInAt DEF Has

\* Moving whole queues: what queue k held is held by queue g[k].
LEMMA MoveHeld ==
  ASSUME Held, AllDistinct', runs' = runs, NEW g \in [Key -> Key],
         \A d \in Coro : \A k \in Key : Has(k, d) => Has(g[k], d)',
         \A d \in Coro : \A l \in Key : Has(l, d)' => \E k \in Key : Has(k, d) /\ g[k] = l
  PROVE  Held'
<1>1. ASSUME NEW d \in Coro PROVE \A k, l \in Key : Has(k, d)' /\ Has(l, d)' => k = l
  BY DEF Held
<1>2. ASSUME NEW d \in Coro PROVE Suspended(d)' <=> \E k \in Key : Has(k, d)'
  <2>1. Suspended(d)' <=> Suspended(d)
    BY DEF Suspended
  <2>2. Suspended(d) <=> \E k \in Key : Has(k, d)
    BY DEF Held
  <2>3. (\E k \in Key : Has(k, d)) <=> \E l \in Key : Has(l, d)'
    OBVIOUS
  <2> QED
    BY <2>1, <2>2, <2>3
<1> QED
  BY <1>1, <1>2 DEF Held

\* No queue changes.
LEMMA HeldKept ==
  ASSUME Held, UNCHANGED <<uncommitted, ready, resumeQueue, queue, zeroDelayed, zeroDlyResumed, runs>>
  PROVE  Held'
<1>1. \A k, d : Has(k, d)' <=> Has(k, d)
  BY DEF Has
<1>2. \A d : Suspended(d)' <=> Suspended(d)
  BY DEF Suspended
<1>3. AllDistinct'
  BY DEF Held, AllDistinct
<1> QED
  BY <1>1, <1>2, <1>3 DEF Held

\* commit() of the schedulers in C.
LEMMA CommitHeld ==
  ASSUME Base, Held, NEW C \in SUBSET Sched,
         \A s \in Sched : ready'[s] = IF s \in C THEN ready[s] \o uncommitted[s] ELSE ready[s],
         \A s \in Sched : uncommitted'[s] = IF s \in C THEN <<>> ELSE uncommitted[s],
         UNCHANGED <<resumeQueue, queue, zeroDelayed, zeroDlyResumed, runs>>
  PROVE  Held'
<1> DEFINE g == [k \in Key |-> IF k[1] = "uncommitted" /\ k[2] \in C THEN <<"ready", k[2]>> ELSE k]
<1>t. \A s \in Sched : ready[s] \in Seq(Coro) /\ uncommitted[s] \in Seq(Coro)
  BY DEF Base, TypeOK
<1>d. \A s \in Sched : Distinct(ready[s]) /\ Distinct(uncommitted[s])
  BY DEF Held, AllDistinct
<1>1. ASSUME NEW s \in Sched
      PROVE  /\ Distinct(ready[s] \o uncommitted[s])
             /\ \A d : Holds(ready[s] \o uncommitted[s], d) <=> Holds(ready[s], d) \/ Holds(uncommitted[s], d)
  <2>1. \A d \in Coro : ~(Holds(ready[s], d) /\ Holds(uncommitted[s], d))
    <3> SUFFICES ASSUME NEW d \in Coro, Holds(ready[s], d), Holds(uncommitted[s], d) PROVE FALSE
      OBVIOUS
    <3>1. Has(<<"ready", s>>, d) /\ Has(<<"uncommitted", s>>, d)
      BY HasAt
    <3>2. <<"ready", s>> # <<"uncommitted", s>>
      OBVIOUS
    <3> QED
      BY <3>1, <3>2, KeyMembers DEF Held
  <2> QED
    BY <1>t, <1>d, <2>1, ConcatHolds
<1>2. Distinct(<<>>) /\ \A d : ~Holds(<<>>, d)
  BY EmptyHolds
<1>3. AllDistinct'
  BY <1>d, <1>1, <1>2 DEF AllDistinct, Held
<1>4. /\ \A s \in Sched : /\ g[<<"uncommitted", s>>] = IF s \in C THEN <<"ready", s>> ELSE <<"uncommitted", s>>
                          /\ g[<<"ready", s>>] = <<"ready", s>>
      /\ g[<<"resumeQueue", 0>>] = <<"resumeQueue", 0>> /\ g[<<"queue", 0>>] = <<"queue", 0>>
      /\ g[<<"zeroDelayed", 0>>] = <<"zeroDelayed", 0>>
      /\ g[<<"zeroDlyResumed", 0>>] = <<"zeroDlyResumed", 0>>
  BY KeyMembers
<1>5. g \in [Key -> Key]
  <2>1. \A k \in Key : k[1] = "uncommitted" => k[2] \in Sched
    BY DEF Key
  <2>2. \A k \in Key : (IF k[1] = "uncommitted" /\ k[2] \in C THEN <<"ready", k[2]>> ELSE k) \in Key
    BY <2>1, KeyMembers
  <2> QED
    BY <2>2
<1> HIDE DEF g
<1>6. ASSUME NEW d \in Coro, NEW k \in Key, Has(k, d) PROVE Has(g[k], d)'
  <2>1. CASE \E s \in Sched : k = <<"uncommitted", s>>
    <3>1. PICK s \in Sched : k = <<"uncommitted", s>>
      BY <2>1
    <3>2. Holds(uncommitted[s], d)
      BY <1>6, <3>1, HasAt
    <3>3. CASE s \in C
      <4>1. Holds(ready'[s], d) /\ g[k] = <<"ready", s>>
        BY <1>1, <1>4, <3>1, <3>2, <3>3
      <4> QED
        BY <4>1, HasAtNext
    <3>4. CASE s \notin C
      <4>1. Holds(uncommitted'[s], d) /\ g[k] = <<"uncommitted", s>>
        BY <1>4, <3>1, <3>2, <3>4
      <4> QED
        BY <4>1, HasAtNext
    <3> QED
      BY <3>3, <3>4
  <2>2. CASE \E s \in Sched : k = <<"ready", s>>
    <3>1. PICK s \in Sched : k = <<"ready", s>>
      BY <2>2
    <3>2. Holds(ready[s], d)
      BY <1>6, <3>1, HasAt
    <3>3. Holds(ready'[s], d) /\ g[k] = <<"ready", s>>
      BY <1>1, <1>4, <3>1, <3>2
    <3> QED
      BY <3>3, HasAtNext
  <2>3. CASE k = <<"resumeQueue", 0>>
    BY <1>4, <1>6, <2>3, HasAt, HasAtNext
  <2>4. CASE k = <<"queue", 0>>
    BY <1>4, <1>6, <2>4, HasAt, HasAtNext
  <2>5. CASE k = <<"zeroDelayed", 0>>
    BY <1>4, <1>6, <2>5, HasAt, HasAtNext
  <2>6. CASE k = <<"zeroDlyResumed", 0>>
    BY <1>4, <1>6, <2>6, HasAt, HasAtNext
  <2> QED
    BY <2>1, <2>2, <2>3, <2>4, <2>5, <2>6, KeyCases
<1>7. ASSUME NEW d \in Coro, NEW l \in Key, Has(l, d)' PROVE \E k \in Key : Has(k, d) /\ g[k] = l
  <2>1. CASE \E s \in Sched : l = <<"uncommitted", s>>
    <3>1. PICK s \in Sched : l = <<"uncommitted", s>>
      BY <2>1
    <3>2. Holds(uncommitted'[s], d)
      BY <1>7, <3>1, HasAtNext
    <3>3. s \notin C /\ Holds(uncommitted[s], d)
      BY <1>2, <3>2
    <3>4. Has(l, d) /\ g[l] = l
      BY <1>4, <3>1, <3>3, HasAt
    <3> QED
      BY <3>4
  <2>2. CASE \E s \in Sched : l = <<"ready", s>>
    <3>1. PICK s \in Sched : l = <<"ready", s>>
      BY <2>2
    <3>2. Holds(ready'[s], d)
      BY <1>7, <3>1, HasAtNext
    <3>3. CASE Holds(ready[s], d)
      <4>1. Has(l, d) /\ g[l] = l
        BY <1>4, <3>1, <3>3, HasAt
      <4> QED
        BY <4>1
    <3>4. CASE ~Holds(ready[s], d)
      <4>1. s \in C /\ Holds(uncommitted[s], d)
        BY <1>1, <3>2, <3>4
      <4>2. Has(<<"uncommitted", s>>, d) /\ g[<<"uncommitted", s>>] = l
        BY <1>4, <3>1, <4>1, HasAt
      <4> QED
        BY <4>2, KeyMembers
    <3> QED
      BY <3>3, <3>4
  <2>3. CASE l = <<"resumeQueue", 0>>
    BY <1>4, <1>7, <2>3, HasAt, HasAtNext
  <2>4. CASE l = <<"queue", 0>>
    BY <1>4, <1>7, <2>4, HasAt, HasAtNext
  <2>5. CASE l = <<"zeroDelayed", 0>>
    BY <1>4, <1>7, <2>5, HasAt, HasAtNext
  <2>6. CASE l = <<"zeroDlyResumed", 0>>
    BY <1>4, <1>7, <2>6, HasAt, HasAtNext
  <2> QED
    BY <2>1, <2>2, <2>3, <2>4, <2>5, <2>6, KeyCases
<1> QED
  BY <1>3, <1>5, <1>6, <1>7, MoveHeld

\* swap() of a queue A with an empty one B.
LEMMA SwapHeld ==
  ASSUME Held, AllDistinct', runs' = runs,
         NEW A \in Key, NEW B \in Key, A # B,
         \A d \in Coro : ~Has(B, d),
         \A d \in Coro : (Has(B, d)' <=> Has(A, d)) /\ ~Has(A, d)',
         \A d \in Coro : \A k \in Key \ {A, B} : Has(k, d)' <=> Has(k, d)
  PROVE  Held'
<1> DEFINE g == [k \in Key |-> IF k = A THEN B ELSE k]
<1>1. g \in [Key -> Key] /\ g[A] = B /\ \A k \in Key \ {A} : g[k] = k
  OBVIOUS
<1> HIDE DEF g
<1>2. ASSUME NEW d \in Coro, NEW k \in Key, Has(k, d) PROVE Has(g[k], d)'
  <2>1. CASE k = A
    <3>1. g[k] = B /\ Has(A, d)
      BY <1>1, <1>2, <2>1
    <3>2. Has(B, d)'
      BY <3>1
    <3> QED
      BY <3>1, <3>2
  <2>2. CASE k # A
    <3>1. g[k] = k /\ k \in Key \ {A, B}
      BY <1>1, <1>2, <2>2
    <3>2. Has(k, d)'
      BY <1>2, <3>1
    <3> QED
      BY <3>1, <3>2
  <2> QED
    BY <2>1, <2>2
<1>3. ASSUME NEW d \in Coro, NEW l \in Key, Has(l, d)' PROVE \E k \in Key : Has(k, d) /\ g[k] = l
  <2>1. CASE l = B
    <3>1. Has(A, d)
      BY <1>3, <2>1
    <3> QED
      BY <1>1, <2>1, <3>1
  <2>2. CASE l # B
    <3>1. l \in Key \ {A, B}
      BY <1>3, <2>2
    <3>2. Has(l, d)
      BY <1>3, <3>1
    <3> QED
      BY <1>1, <3>1, <3>2
  <2> QED
    BY <2>1, <2>2
<1> QED
  BY <1>1, <1>2, <1>3, MoveHeld

LEMMA HeldStep == Base /\ Held /\ [Next]_vars => Held'
<1> SUFFICES ASSUME Base, Held, [Next]_vars PROVE Held'
  OBVIOUS
<1>t. TypeOK /\ Control /\ From(queue, time) /\ time \in Nat
  BY DEF Base, TypeOK
<1>q. /\ uncommitted \in [Sched -> Seq(Coro)] /\ ready \in [Sched -> Seq(Coro)]
      /\ resumeQueue \in Seq(Coro) /\ queue \in Seq(Entry) /\ zeroDelayed \in Seq(Coro)
      /\ zeroDlyResumed \in Seq(Coro) /\ cur \in Nat
  BY <1>t DEF TypeOK, Entry
<1>d. AllDistinct
  BY DEF Held
<1>e. Distinct(<<>>) /\ \A d : ~Holds(<<>>, d)
  BY EmptyHolds
<1>1. ASSUME NEW c \in Coro, Begin(c) PROVE Held'
  <2>1. /\ Run(c, queue, zeroDelayed) /\ UNCHANGED <<resumeQueue, zeroDlyResumed>>
        /\ runs[c] = 0
    BY <1>1 DEF Begin
  <2>2. \A d \in Coro : \A k \in Key :
           HasIn(k, d, uncommitted, ready, resumeQueue', queue, zeroDelayed, zeroDlyResumed')
             <=> Has(k, d) /\ d # c
    <3>1. ~Suspended(c)
      BY <2>1 DEF Suspended
    <3>2. \A k \in Key : ~Has(k, c)
      BY <3>1 DEF Held
    <3> QED
      BY <2>1, <3>2 DEF Has
  <2>3. DistinctLate(queue) /\ Distinct(zeroDelayed) /\ Distinct(resumeQueue') /\ Distinct(zeroDlyResumed')
    BY <1>d, <2>1 DEF AllDistinct
  <2> QED
    BY <1>t, <1>q, <2>1, <2>2, <2>3, RunHeld
<1>2. CASE TimingCommit
  <2> DEFINE C == {s \in Sched : CommitCond(s)}
  <2>1. /\ \A s \in Sched : ready'[s] = IF s \in C THEN ready[s] \o uncommitted[s] ELSE ready[s]
        /\ \A s \in Sched : uncommitted'[s] = IF s \in C THEN <<>> ELSE uncommitted[s]
    BY <1>2 DEF TimingCommit
  <2>2. /\ UNCHANGED <<resumeQueue, queue, zeroDelayed, zeroDlyResumed, runs>>
    BY <1>2 DEF TimingCommit, delayVars, designVars
  <2>3. C \in SUBSET Sched
    OBVIOUS
  <2> HIDE DEF C
  <2> QED
    BY <2>1, <2>2, <2>3, CommitHeld
<1>3. CASE EndResume
  <2>1. /\ pc = "resume" /\ pc' = "sched"
        /\ ready' = [ready EXCEPT ![cur] = @ \o uncommitted[cur]]
        /\ uncommitted' = [uncommitted EXCEPT ![cur] = <<>>]
        /\ UNCHANGED <<resumeQueue, queue, zeroDelayed, zeroDlyResumed, runs>>
    BY <1>3 DEF EndResume, delayVars, designVars
  <2>2. cur \in Sched
    BY <1>t, <2>1 DEF Control
  <2>3. /\ \A s \in Sched : ready'[s] = IF s \in {cur} THEN ready[s] \o uncommitted[s] ELSE ready[s]
        /\ \A s \in Sched : uncommitted'[s] = IF s \in {cur} THEN <<>> ELSE uncommitted[s]
    BY <1>q, <2>1
  <2>4. {cur} \in SUBSET Sched
    BY <2>2
  <2> QED
    BY <2>1, <2>3, <2>4, CommitHeld
<1>4. CASE BeginResume
  <2>1. /\ pc = "sched" /\ pc' = "resume" /\ cur \in Sched
        /\ resumeQueue' = ready[cur] /\ ready' = [ready EXCEPT ![cur] = <<>>]
        /\ UNCHANGED <<uncommitted, queue, zeroDelayed, zeroDlyResumed, runs>>
    BY <1>4 DEF BeginResume, delayVars, designVars
  <2>0. PICK v \in Sched : v = cur
    BY <2>1
  <2>2. resumeQueue = <<>>
    BY <1>t, <2>1 DEF Control
  <2>3. \A s \in Sched : ready'[s] = IF s = v THEN <<>> ELSE ready[s]
    BY <1>q, <2>0, <2>1
  <2>4. AllDistinct'
    BY <1>d, <1>e, <2>0, <2>1, <2>3 DEF AllDistinct
  <2> DEFINE A == <<"ready", v>>
             B == <<"resumeQueue", 0>>
  <2>5. A \in Key /\ B \in Key /\ A # B
    BY KeyMembers
  <2>6. ASSUME NEW d \in Coro PROVE ~Has(B, d) /\ (Has(B, d)' <=> Has(A, d)) /\ ~Has(A, d)'
    <3>1. Holds(resumeQueue', d) <=> Holds(ready[v], d)
      BY <2>0, <2>1
    <3>2. ~Holds(resumeQueue, d) /\ ~Holds(ready'[v], d)
      BY <1>e, <2>2, <2>3
    <3> QED
      BY <3>1, <3>2, HasAt, HasAtNext
  <2>7. ASSUME NEW d \in Coro, NEW k \in Key, k # A, k # B PROVE Has(k, d)' <=> Has(k, d)
    <3>1. CASE \E s \in Sched : k = <<"uncommitted", s>>
      BY <2>1, <3>1, HasAt, HasAtNext
    <3>2. CASE \E s \in Sched : k = <<"ready", s>>
      <4>1. PICK s \in Sched : k = <<"ready", s>>
        BY <3>2
      <4>2. ready'[s] = ready[s]
        BY <2>3, <2>7, <4>1
      <4> QED
        BY <4>1, <4>2, HasAt, HasAtNext
    <3>3. CASE k = <<"queue", 0>>
      BY <2>1, <3>3, HasAt, HasAtNext
    <3>4. CASE k = <<"zeroDelayed", 0>>
      BY <2>1, <3>4, HasAt, HasAtNext
    <3>5. CASE k = <<"zeroDlyResumed", 0>>
      BY <2>1, <3>5, HasAt, HasAtNext
    <3> QED
      BY <2>7, <3>1, <3>2, <3>3, <3>4, <3>5, KeyCases
  <2>8. runs' = runs
    BY <2>1
  <2> HIDE DEF A, B
  <2> QED
    BY <2>4, <2>5, <2>6, <2>7, <2>8, SwapHeld
<1>5. CASE BeginZero
  <2>1. /\ pc = "delay" /\ pc' = "zero"
        /\ zeroDlyResumed' = zeroDelayed /\ zeroDelayed' = <<>>
        /\ UNCHANGED <<uncommitted, ready, resumeQueue, queue, runs>>
    BY <1>5 DEF BeginZero, schedVars, designVars
  <2>2. zeroDlyResumed = <<>>
    BY <1>t, <2>1 DEF Control
  <2>4. AllDistinct'
    BY <1>d, <1>e, <2>1 DEF AllDistinct
  <2> DEFINE A == <<"zeroDelayed", 0>>
             B == <<"zeroDlyResumed", 0>>
  <2>5. A \in Key /\ B \in Key /\ A # B
    BY KeyMembers
  <2>6. ASSUME NEW d \in Coro PROVE ~Has(B, d) /\ (Has(B, d)' <=> Has(A, d)) /\ ~Has(A, d)'
    BY <1>e, <2>1, <2>2, HasAt, HasAtNext
  <2>7. ASSUME NEW d \in Coro, NEW k \in Key, k # A, k # B PROVE Has(k, d)' <=> Has(k, d)
    <3>1. CASE \E s \in Sched : k = <<"uncommitted", s>>
      BY <2>1, <3>1, HasAt, HasAtNext
    <3>2. CASE \E s \in Sched : k = <<"ready", s>>
      BY <2>1, <3>2, HasAt, HasAtNext
    <3>3. CASE k = <<"queue", 0>>
      BY <2>1, <3>3, HasAt, HasAtNext
    <3>4. CASE k = <<"resumeQueue", 0>>
      BY <2>1, <3>4, HasAt, HasAtNext
    <3> QED
      BY <2>7, <3>1, <3>2, <3>3, <3>4, KeyCases
  <2>8. runs' = runs
    BY <2>1
  <2> HIDE DEF A, B
  <2> QED
    BY <2>4, <2>5, <2>6, <2>7, <2>8, SwapHeld
<1>6. CASE ResumeCoro
  <2> DEFINE c == Head(resumeQueue)
             K == <<"resumeQueue", 0>>
             Mid(k, d) == HasIn(k, d, uncommitted, ready, resumeQueue', queue, zeroDelayed, zeroDlyResumed')
  <2>1. /\ pc = "resume" /\ resumeQueue # <<>> /\ resumeQueue' = Tail(resumeQueue)
        /\ Run(c, queue, zeroDelayed) /\ UNCHANGED <<pc, cur, zeroDlyResumed>>
    BY <1>6 DEF ResumeCoro
  <2>2. c \in Coro
    BY <1>q, <2>1, TakeHead
  <2>3. /\ Distinct(resumeQueue') /\ ~Holds(resumeQueue', c)
        /\ \A d : Holds(resumeQueue, d) <=> d = c \/ Holds(resumeQueue', d)
    BY <1>d, <1>q, <2>1, TakeHeadHolds DEF AllDistinct
  <2> HIDE DEF c
  <2>4. K \in Key /\ Has(K, c)
    BY <2>3, KeyMembers, HasAt
  <2>5. ASSUME NEW d \in Coro PROVE Mid(K, d) <=> Has(K, d) /\ d # c
    <3>1. Mid(K, d) <=> Holds(resumeQueue', d)
      BY HasInAt
    <3>2. Has(K, d) <=> Holds(resumeQueue, d)
      BY HasAt
    <3> HIDE DEF Mid
    <3> QED
      BY <2>3, <3>1, <3>2
  <2>6. ASSUME NEW d \in Coro, NEW k \in Key \ {K} PROVE Mid(k, d) <=> Has(k, d)
    <3>1. k[1] # "resumeQueue"
      BY DEF Key
    <3> QED
      BY <2>1, <3>1 DEF HasIn, Has
  <2>7. \A d \in Coro : \A k \in Key : Mid(k, d) <=> Has(k, d) /\ d # c
    <3> HIDE DEF K
    <3> QED
      BY <2>2, <2>4, <2>5, <2>6, TakenOut
  <2>8. DistinctLate(queue) /\ Distinct(zeroDelayed) /\ Distinct(zeroDlyResumed')
    BY <1>d, <2>1 DEF AllDistinct
  <2> QED
    BY <1>t, <1>q, <2>1, <2>2, <2>3, <2>7, <2>8, RunHeld
<1>7. CASE ResumeZero
  <2> DEFINE c == Head(zeroDlyResumed)
             K == <<"zeroDlyResumed", 0>>
             Mid(k, d) == HasIn(k, d, uncommitted, ready, resumeQueue', queue, zeroDelayed, zeroDlyResumed')
  <2>1. /\ pc = "zero" /\ zeroDlyResumed # <<>> /\ zeroDlyResumed' = Tail(zeroDlyResumed)
        /\ Run(c, queue, zeroDelayed) /\ UNCHANGED <<pc, cur, resumeQueue>>
    BY <1>7 DEF ResumeZero
  <2>2. c \in Coro
    BY <1>q, <2>1, TakeHead
  <2>3. /\ Distinct(zeroDlyResumed') /\ ~Holds(zeroDlyResumed', c)
        /\ \A d : Holds(zeroDlyResumed, d) <=> d = c \/ Holds(zeroDlyResumed', d)
    BY <1>d, <1>q, <2>1, TakeHeadHolds DEF AllDistinct
  <2> HIDE DEF c
  <2>4. K \in Key /\ Has(K, c)
    BY <2>3, KeyMembers, HasAt
  <2>5. ASSUME NEW d \in Coro PROVE Mid(K, d) <=> Has(K, d) /\ d # c
    <3>1. Mid(K, d) <=> Holds(zeroDlyResumed', d)
      BY HasInAt
    <3>2. Has(K, d) <=> Holds(zeroDlyResumed, d)
      BY HasAt
    <3> HIDE DEF Mid
    <3> QED
      BY <2>3, <3>1, <3>2
  <2>6. ASSUME NEW d \in Coro, NEW k \in Key \ {K} PROVE Mid(k, d) <=> Has(k, d)
    <3>1. k[1] # "zeroDlyResumed"
      BY DEF Key
    <3> QED
      BY <2>1, <3>1 DEF HasIn, Has
  <2>7. \A d \in Coro : \A k \in Key : Mid(k, d) <=> Has(k, d) /\ d # c
    <3> HIDE DEF K
    <3> QED
      BY <2>2, <2>4, <2>5, <2>6, TakenOut
  <2>8. DistinctLate(queue) /\ Distinct(zeroDelayed) /\ Distinct(resumeQueue')
    BY <1>d, <2>1 DEF AllDistinct
  <2> QED
    BY <1>t, <1>q, <2>1, <2>2, <2>3, <2>7, <2>8, RunHeld
<1>8. CASE ResumeDelayed
  <2> DEFINE c == queue[1][2]
             q == Tail(queue)
             K == <<"queue", 0>>
             Mid(k, d) == HasIn(k, d, uncommitted, ready, resumeQueue', q, zeroDelayed, zeroDlyResumed')
  <2>1. /\ pc = "delay" /\ queue # <<>>
        /\ Run(c, q, zeroDelayed) /\ UNCHANGED <<pc, cur, resumeQueue, zeroDlyResumed>>
    BY <1>8 DEF ResumeDelayed
  <2>2. c \in Coro /\ q \in Seq(Entry) /\ From(q, time)
    BY <1>t, <1>q, <2>1, TailFacts
  <2>3. /\ DistinctLate(q) /\ ~HoldsLate(q, c)
        /\ \A d : HoldsLate(queue, d) <=> d = c \/ HoldsLate(q, d)
    BY <1>t, <1>d, <1>q, <2>1, TailFacts DEF AllDistinct
  <2> HIDE DEF c, q
  <2>4. K \in Key /\ Has(K, c)
    BY <2>3, KeyMembers, HasAt
  <2>5. ASSUME NEW d \in Coro PROVE Mid(K, d) <=> Has(K, d) /\ d # c
    <3>1. Mid(K, d) <=> HoldsLate(q, d)
      BY HasInAt
    <3>2. Has(K, d) <=> HoldsLate(queue, d)
      BY HasAt
    <3> HIDE DEF Mid
    <3> QED
      BY <2>3, <3>1, <3>2
  <2>6. ASSUME NEW d \in Coro, NEW k \in Key \ {K} PROVE Mid(k, d) <=> Has(k, d)
    <3>1. k[1] # "queue"
      BY DEF Key
    <3> QED
      BY <2>1, <3>1 DEF HasIn, Has
  <2>7. \A d \in Coro : \A k \in Key : Mid(k, d) <=> Has(k, d) /\ d # c
    <3> HIDE DEF K
    <3> QED
      BY <2>2, <2>4, <2>5, <2>6, TakenOut
  <2>8. Distinct(zeroDelayed) /\ Distinct(resumeQueue') /\ Distinct(zeroDlyResumed')
    BY <1>d, <2>1 DEF AllDistinct
  <2> QED
    BY <1>t, <1>q, <2>1, <2>2, <2>3, <2>7, <2>8, RunHeld
<1>9. CASE EndInitial \/ EvalTriggersAct \/ Latch \/ SkipSched \/ BeginDelay \/ EndDelay
             \/ AdvanceTime \/ Finish
  BY <1>9, HeldKept DEF EndInitial, EvalTriggersAct, Latch, SkipSched, BeginDelay, EndDelay,
     AdvanceTime, Finish, schedVars, delayVars, designVars
<1>10. CASE EvalAct \/ NbaExtra
  BY <1>10, HeldKept DEF EvalAct, NbaExtra, RunLogic, schedVars, delayVars
<1>11. ASSUME NEW r \in Region, RegionWork(r) \/ RegionDone(r) PROVE Held'
  BY <1>11, HeldKept DEF RegionWork, RegionDone, schedVars, delayVars, designVars
<1>12. CASE UNCHANGED vars
  BY <1>12, HeldKept DEF vars, designVars, schedVars, delayVars
<1> QED
  BY <1>1, <1>2, <1>3, <1>4, <1>5, <1>6, <1>7, <1>8, <1>9, <1>10, <1>11, <1>12
     DEF Next, Step, Stopped, Initial, Fork

LEMMA HeldInit == Init => Held
<1> SUFFICES ASSUME Init PROVE Held
  OBVIOUS
<1>1. Distinct(<<>>) /\ (\A d : ~Holds(<<>>, d)) /\ Len(<<>>) = 0
  BY EmptyHolds
<1>2. DistinctLate(<<>>) /\ \A d : ~HoldsLate(<<>>, d)
  BY <1>1 DEF DistinctLate, HoldsLate
<1>3. AllDistinct
  BY <1>1, <1>2 DEF Init, AllDistinct
<1>4. ASSUME NEW d, NEW k \in Key PROVE ~Has(k, d)
  <2>1. /\ \A s \in Sched : uncommitted[s] = <<>> /\ ready[s] = <<>>
        /\ resumeQueue = <<>> /\ queue = <<>> /\ zeroDelayed = <<>> /\ zeroDlyResumed = <<>>
    BY DEF Init
  <2>2. /\ \A s \in Sched : ~Has(<<"uncommitted", s>>, d) /\ ~Has(<<"ready", s>>, d)
        /\ ~Has(<<"resumeQueue", 0>>, d) /\ ~Has(<<"queue", 0>>, d)
        /\ ~Has(<<"zeroDelayed", 0>>, d) /\ ~Has(<<"zeroDlyResumed", 0>>, d)
    BY <1>1, <1>2, <2>1, HasAt
  <2> QED
    BY <2>2, KeyCases
<1>5. \A c \in Coro : ~Suspended(c)
  BY DEF Init, Suspended
<1> QED
  BY <1>3, <1>4, <1>5 DEF Held

\* Coroutine c is entry i of the queue k.
At(k, c, i) ==
    \/ k[1] = "uncommitted" /\ i \in 1 .. Len(uncommitted[k[2]]) /\ uncommitted[k[2]][i] = c
    \/ k[1] = "ready" /\ i \in 1 .. Len(ready[k[2]]) /\ ready[k[2]][i] = c
    \/ k[1] = "resumeQueue" /\ i \in 1 .. Len(resumeQueue) /\ resumeQueue[i] = c
    \/ k[1] = "queue" /\ i \in 1 .. Len(queue) /\ queue[i][2] = c
    \/ k[1] = "zeroDelayed" /\ i \in 1 .. Len(zeroDelayed) /\ zeroDelayed[i] = c
    \/ k[1] = "zeroDlyResumed" /\ i \in 1 .. Len(zeroDlyResumed) /\ zeroDlyResumed[i] = c

LEMMA AtFacts ==
  ASSUME Held, NEW c \in Coro, NEW k \in Key
  PROVE  /\ Has(k, c) <=> \E i : At(k, c, i)
         /\ \A i, j : At(k, c, i) /\ At(k, c, j) => i = j
<1>1. Has(k, c) <=> \E i : At(k, c, i)
  BY DEF Has, HasIn, At, Holds, HoldsLate
<1>2. ASSUME NEW i, NEW j, At(k, c, i), At(k, c, j) PROVE i = j
  <2>1. CASE k[1] \in {"uncommitted", "ready"}
    <3>1. k[2] \in Sched
      BY <2>1 DEF Key
    <3> QED
      BY <1>2, <2>1, <3>1 DEF Held, AllDistinct, Distinct, At
  <2>2. CASE k[1] \notin {"uncommitted", "ready"}
    BY <1>2, <2>2 DEF Held, AllDistinct, Distinct, DistinctLate, At
  <2> QED
    BY <2>1, <2>2
<1> QED
  BY <1>1, <1>2

\* The places in a trigger scheduler.
LEMMA InScheds ==
  ASSUME NEW c, NEW p
  PROVE  /\ p \in InUncommitted(c)
              <=> \E s \in Sched : p \in PlaceIn("uncommitted", s, Positions(uncommitted[s], c))
         /\ p \in InReady(c) <=> \E s \in Sched : p \in PlaceIn("ready", s, Positions(ready[s], c))
BY DEF InUncommitted, InReady

\* The places of a coroutine are its entries.
LEMMA PlaceFacts ==
  ASSUME Base, NEW c \in Coro, NEW p
  PROVE  p \in Places(c) <=> \E k \in Key : \E i : At(k, c, i) /\ p = <<k[1], k[2], i>>
<1>t. /\ \A s \in Sched : DOMAIN uncommitted[s] = 1 .. Len(uncommitted[s])
      /\ \A s \in Sched : DOMAIN ready[s] = 1 .. Len(ready[s])
      /\ DOMAIN resumeQueue = 1 .. Len(resumeQueue) /\ DOMAIN queue = 1 .. Len(queue)
      /\ DOMAIN zeroDelayed = 1 .. Len(zeroDelayed)
      /\ DOMAIN zeroDlyResumed = 1 .. Len(zeroDlyResumed)
  <2>1. /\ uncommitted \in [Sched -> Seq(Coro)] /\ ready \in [Sched -> Seq(Coro)]
        /\ resumeQueue \in Seq(Coro) /\ queue \in Seq(Entry) /\ zeroDelayed \in Seq(Coro)
        /\ zeroDlyResumed \in Seq(Coro)
    BY DEF Base, TypeOK, Entry
  <2> QED
    BY <2>1, LenProperties
<1> DEFINE U(s) == PlaceIn("uncommitted", s, Positions(uncommitted[s], c))
           Y(s) == PlaceIn("ready", s, Positions(ready[s], c))
<1>1. \A s \in Sched : p \in U(s) <=> \E i : At(<<"uncommitted", s>>, c, i) /\ p = <<"uncommitted", s, i>>
  BY <1>t DEF Positions, At, PlaceIn
<1>2. \A s \in Sched : p \in Y(s) <=> \E i : At(<<"ready", s>>, c, i) /\ p = <<"ready", s, i>>
  BY <1>t DEF Positions, At, PlaceIn
<1>3. p \in PlaceIn("resumeQueue", 0, Positions(resumeQueue, c))
        <=> \E i : At(<<"resumeQueue", 0>>, c, i) /\ p = <<"resumeQueue", 0, i>>
  BY <1>t DEF Positions, At, PlaceIn
<1>4. p \in PlaceIn("queue", 0, DelayedAt(c))
        <=> \E i : At(<<"queue", 0>>, c, i) /\ p = <<"queue", 0, i>>
  BY <1>t DEF DelayedAt, At, PlaceIn
<1>5. p \in PlaceIn("zeroDelayed", 0, Positions(zeroDelayed, c))
        <=> \E i : At(<<"zeroDelayed", 0>>, c, i) /\ p = <<"zeroDelayed", 0, i>>
  BY <1>t DEF Positions, At, PlaceIn
<1>6. p \in PlaceIn("zeroDlyResumed", 0, Positions(zeroDlyResumed, c))
        <=> \E i : At(<<"zeroDlyResumed", 0>>, c, i) /\ p = <<"zeroDlyResumed", 0, i>>
  BY <1>t DEF Positions, At, PlaceIn
<1>7. p \in Places(c) <=> \/ \E s \in Sched : p \in U(s)
                          \/ \E s \in Sched : p \in Y(s)
                          \/ p \in PlaceIn("resumeQueue", 0, Positions(resumeQueue, c))
                          \/ p \in PlaceIn("queue", 0, DelayedAt(c))
                          \/ p \in PlaceIn("zeroDelayed", 0, Positions(zeroDelayed, c))
                          \/ p \in PlaceIn("zeroDlyResumed", 0, Positions(zeroDlyResumed, c))
  BY InScheds DEF Places
<1> HIDE DEF U, Y
<1>8. ASSUME p \in Places(c) PROVE \E k \in Key : \E i : At(k, c, i) /\ p = <<k[1], k[2], i>>
  <2> DEFINE G(k) == \E i : At(k, c, i) /\ p = <<k[1], k[2], i>>
  <2>1. ASSUME NEW s \in Sched, p \in U(s) PROVE G(<<"uncommitted", s>>)
    BY <1>1, <2>1
  <2>2. ASSUME NEW s \in Sched, p \in Y(s) PROVE G(<<"ready", s>>)
    BY <1>2, <2>2
  <2>3. ASSUME p \in PlaceIn("resumeQueue", 0, Positions(resumeQueue, c)) PROVE G(<<"resumeQueue", 0>>)
    BY <1>3, <2>3
  <2>4. ASSUME p \in PlaceIn("queue", 0, DelayedAt(c)) PROVE G(<<"queue", 0>>)
    BY <1>4, <2>4
  <2>5. ASSUME p \in PlaceIn("zeroDelayed", 0, Positions(zeroDelayed, c)) PROVE G(<<"zeroDelayed", 0>>)
    BY <1>5, <2>5
  <2>6. ASSUME p \in PlaceIn("zeroDlyResumed", 0, Positions(zeroDlyResumed, c)) PROVE G(<<"zeroDlyResumed", 0>>)
    BY <1>6, <2>6
  <2> HIDE DEF G
  <2>7. \E k \in Key : G(k)
    BY <1>7, <1>8, <2>1, <2>2, <2>3, <2>4, <2>5, <2>6, KeyMembers
  <2> QED
    BY <2>7 DEF G
<1>9. ASSUME NEW k \in Key, NEW i, At(k, c, i), p = <<k[1], k[2], i>> PROVE p \in Places(c)
  <2>1. CASE \E s \in Sched : k = <<"uncommitted", s>>
    <3>1. PICK s \in Sched : k = <<"uncommitted", s>>
      BY <2>1
    <3>2. At(<<"uncommitted", s>>, c, i) /\ p = <<"uncommitted", s, i>>
      BY <1>9, <3>1
    <3>3. p \in U(s)
      BY <1>1, <3>2
    <3> QED
      BY <1>7, <3>3
  <2>2. CASE \E s \in Sched : k = <<"ready", s>>
    <3>1. PICK s \in Sched : k = <<"ready", s>>
      BY <2>2
    <3>2. At(<<"ready", s>>, c, i) /\ p = <<"ready", s, i>>
      BY <1>9, <3>1
    <3>3. p \in Y(s)
      BY <1>2, <3>2
    <3> QED
      BY <1>7, <3>3
  <2>3. CASE k = <<"resumeQueue", 0>>
    BY <1>3, <1>7, <1>9, <2>3
  <2>4. CASE k = <<"queue", 0>>
    BY <1>4, <1>7, <1>9, <2>4
  <2>5. CASE k = <<"zeroDelayed", 0>>
    BY <1>5, <1>7, <1>9, <2>5
  <2>6. CASE k = <<"zeroDlyResumed", 0>>
    BY <1>6, <1>7, <1>9, <2>6
  <2> QED
    BY <2>1, <2>2, <2>3, <2>4, <2>5, <2>6, KeyCases
<1> QED
  BY <1>8, <1>9

\* A suspended coroutine is held by exactly one scheduler, once, and one that has
\* ended or not yet started by none: committing, swapping m_ready into
\* m_resumeQueue, resuming from it while the resumed coroutines add to the same
\* schedulers, and moving the #0 delays lose no coroutine and duplicate none.
THEOREM CoroutinesHeldOnce == Spec => []HeldOnce
<1>1. Base /\ Held => HeldOnce
  <2> SUFFICES ASSUME Base, Held, NEW c \in Coro
               PROVE  Cardinality(Places(c)) =
                        IF runs[c] \in {0, Ended} THEN 0 ELSE 1
    BY DEF HeldOnce
  <2>1. CASE Suspended(c)
    <3>1. PICK k \in Key : Has(k, c)
      BY <2>1 DEF Held
    <3>2. PICK i : At(k, c, i)
      BY <3>1, AtFacts
    <3>3. ASSUME NEW p PROVE p \in Places(c) <=> p = <<k[1], k[2], i>>
      <4>1. ASSUME NEW l \in Key, NEW j, At(l, c, j) PROVE l = k /\ j = i
        <5>1. Has(l, c)
          BY <4>1, AtFacts
        <5>2. l = k
          BY <3>1, <5>1 DEF Held
        <5> QED
          BY <3>2, <4>1, <5>2, AtFacts
      <4> QED
        BY <3>2, <4>1, PlaceFacts
    <3>4. Places(c) = {<<k[1], k[2], i>>}
      BY <3>3
    <3>5. Cardinality(Places(c)) = 1
      BY <3>4, FS_Singleton
    <3> QED
      BY <2>1, <3>5 DEF Suspended
  <2>2. CASE ~Suspended(c)
    <3>1. \A k \in Key : ~Has(k, c)
      BY <2>2 DEF Held
    <3>2. ASSUME NEW p PROVE p \notin Places(c)
      BY <3>1, PlaceFacts, AtFacts
    <3>3. Places(c) = {}
      BY <3>2
    <3>4. Cardinality(Places(c)) = 0
      BY <3>3, FS_EmptySet
    <3> QED
      BY <2>2, <3>4 DEF Suspended
  <2> QED
    BY <2>1, <2>2
<1> QED
  BY BaseInit, BaseStep, HeldInit, HeldStep, <1>1, PTL DEF Spec

--------------------------------------------------------------------------------
(* Nothing is left to do when eval returns. *)

\* A coroutine that is about to run is not held by the scheduler of __VnbaEvent.
NotInNba(c) == ~Holds(uncommitted[NbaSched], c) /\ ~Holds(ready[NbaSched], c)

LEMMA ElsewhereHeld ==
  ASSUME Held, NEW c \in Coro, NEW K \in Key, Has(K, c), K[1] \notin {"uncommitted", "ready"}
  PROVE  NotInNba(c)
<1>1. /\ <<"uncommitted", NbaSched>> \in Key /\ <<"ready", NbaSched>> \in Key
      /\ <<"uncommitted", NbaSched>> # K /\ <<"ready", NbaSched>> # K
  BY Constants, KeyMembers
<1>2. ~Has(<<"uncommitted", NbaSched>>, c) /\ ~Has(<<"ready", NbaSched>>, c)
  BY <1>1 DEF Held
<1> QED
  BY <1>2, HasAt DEF NotInNba

LEMMA NowhereHeld ==
  ASSUME Held, NEW c \in Coro, runs[c] = 0
  PROVE  NotInNba(c)
<1>1. \A k \in Key : ~Has(k, c)
  BY DEF Held, Suspended
<1> QED
  BY <1>1, Constants, KeyMembers, HasAt DEF NotInNba

\* A run neither clears a flag nor leaves an awaited nonblocking assignment unannounced,
\* unless the nba logic does it.
LEMMA SettledRun ==
  ASSUME Base, Settled, NEW c \in Coro, NotInNba(c), NEW q, NEW z, Run(c, q, z),
         UNCHANGED <<act, trig, pc, cur>>, pc \notin {"commit", "latch"}, ~Idle
  PROVE  Settled'
<1>t. uncommitted \in [Sched -> Seq(Coro)] /\ ready \in [Sched -> Seq(Coro)]
      /\ NbaSched \in Sched /\ NbaSched \notin WaitScheds
  BY Constants DEF Base, TypeOK
<1>s. (Ahead' <=> Ahead) /\ (NbaLogic' <=> NbaLogic) /\ ~Idle'
  BY DEF Ahead, NbaLogic, Idle
<1>1. fired \subseteq fired'
  BY DEF Run, Fire
<1>2. nbaPending => nbaPending'
  BY RunCases
<1>l. \A b : b \in late /\ b # c => b \in late'
  BY DEF Run
<1>3. ASSUME NEW b, Holds(uncommitted'[NbaSched], b)
      PROVE  b \in late' \/ (nbaPending' /\ ~NbaLogic)
  <2>1. CASE uncommitted'[NbaSched] = uncommitted[NbaSched]
    <3>1. Holds(uncommitted[NbaSched], b) /\ b # c
      BY <1>3, <2>1 DEF NotInNba
    <3>2. b \in late \/ (nbaPending /\ ~NbaLogic)
      BY <3>1 DEF Settled
    <3> QED
      BY <1>2, <1>l, <3>1, <3>2
  <2>2. CASE /\ uncommitted' = [uncommitted EXCEPT ![NbaSched] = Append(@, c)]
             /\ nbaPending'
    <3> DEFINE u == uncommitted[NbaSched]
    <3>1. u \in Seq(Coro) /\ uncommitted'[NbaSched] = Append(u, c)
      BY <1>t, <2>2
    <3>2. Len(u) \in Nat /\ Len(Append(u, c)) = Len(u) + 1
          /\ (\A i \in 1 .. Len(u) : Append(u, c)[i] = u[i]) /\ Append(u, c)[Len(u) + 1] = c
      BY <3>1, AddLast
    <3>3. Append(u, c) # u
      BY <3>2
    <3>4. Holds(u, b) \/ b = c
      <4>1. PICK i \in 1 .. Len(Append(u, c)) : Append(u, c)[i] = b
        BY <1>3, <3>1 DEF Holds
      <4>2. i \in 1 .. Len(u) \/ i = Len(u) + 1
        BY <3>2
      <4> QED
        BY <3>2, <4>1, <4>2 DEF Holds
    <3>5. NbaLogic => c \in late'
      BY <3>1, <3>3 DEF Run
    <3>6. Holds(u, b) => b # c /\ (b \in late \/ (nbaPending /\ ~NbaLogic))
      BY DEF NotInNba, Settled
    <3> HIDE DEF u
    <3> QED
      BY <1>l, <2>2, <3>4, <3>5, <3>6
  <2>3. ASSUME NEW s \in Sched, uncommitted' = [uncommitted EXCEPT ![s] = Append(@, c)],
               nbaPending' = (nbaPending \/ s = NbaSched)
        PROVE  \/ uncommitted'[NbaSched] = uncommitted[NbaSched]
               \/ /\ uncommitted' = [uncommitted EXCEPT ![NbaSched] = Append(@, c)]
                  /\ nbaPending'
    BY <1>t, <2>3
  <2>4. \/ uncommitted' = uncommitted
        \/ \E s \in Sched : /\ uncommitted' = [uncommitted EXCEPT ![s] = Append(@, c)]
                            /\ nbaPending' = (nbaPending \/ s = NbaSched)
    BY RunCases
  <2> QED
    BY <2>1, <2>2, <2>3, <2>4
<1>4. ready'[NbaSched] = ready[NbaSched]
  <2>1. ready' = ready \/ \E s \in WaitScheds : ready' = [ready EXCEPT ![s] = Append(@, c)]
    BY RunCases
  <2> QED
    BY <1>t, <2>1
<1>5. ASSUME NEW b, Holds(ready'[NbaSched], b)
      PROVE  b \in late' \/ nbaPending' \/ NbaEvent \in fired' \/ (NbaEvent \in act /\ Ahead)
  <2>1. Holds(ready[NbaSched], b) /\ b # c
    BY <1>4, <1>5 DEF NotInNba
  <2>2. b \in late \/ nbaPending \/ NbaEvent \in fired \/ (NbaEvent \in act /\ Ahead)
    BY <2>1 DEF Settled
  <2> QED
    BY <1>1, <1>2, <1>l, <2>1, <2>2
<1>6. pc' \notin {"commit", "latch", "returned", "done"} /\ ~(pc' = "phase" /\ Idle')
  BY <1>s DEF Idle
<1> QED
  BY <1>s, <1>3, <1>5, <1>6 DEF Settled

\* What is held after commit(): by one queue appended to another.
LEMMA HeldByEither ==
  ASSUME NEW p \in Seq(Coro), NEW q \in Seq(Coro), NEW b, Holds(p \o q, b)
  PROVE  Holds(p, b) \/ Holds(q, b)
<1>1. /\ Len(p) \in Nat /\ Len(q) \in Nat /\ Len(p \o q) = Len(p) + Len(q)
      /\ \A i \in 1 .. Len(p) : (p \o q)[i] = p[i]
      /\ \A i \in 1 .. Len(q) : (p \o q)[Len(p) + i] = q[i]
  BY ConcatIndex
<1>2. PICK i \in 1 .. Len(p \o q) : (p \o q)[i] = b
  BY DEF Holds
<1>3. CASE i <= Len(p)
  <2>1. i \in 1 .. Len(p)
    BY <1>1, <1>3
  <2> QED
    BY <1>1, <1>2, <2>1 DEF Holds
<1>4. CASE ~(i <= Len(p))
  <2>1. i - Len(p) \in 1 .. Len(q) /\ Len(p) + (i - Len(p)) = i
    BY <1>1, <1>4
  <2>2. q[i - Len(p)] = b
    BY <1>1, <1>2, <2>1
  <2> QED
    BY <2>1, <2>2 DEF Holds
<1> QED
  BY <1>3, <1>4

LEMMA SettledStep == Base /\ Held /\ Settled /\ [Next]_vars => Settled'
<1> SUFFICES ASSUME Base, Held, Settled, [Next]_vars PROVE Settled'
  OBVIOUS
<1>t. TypeOK /\ Control
  BY DEF Base
<1>c. /\ NbaSched \in Sched /\ Len(Scheds) \in Nat /\ NbaSched \in Nat /\ NbaSched >= 1
      /\ NbaSched <= Len(Scheds)
  BY Constants DEF Sched
<1>q. /\ uncommitted \in [Sched -> Seq(Coro)] /\ ready \in [Sched -> Seq(Coro)]
      /\ nbaPending \in BOOLEAN /\ cur \in Nat /\ resumeQueue \in Seq(Coro)
      /\ queue \in Seq(Entry) /\ zeroDlyResumed \in Seq(Coro)
  BY <1>t DEF TypeOK, Entry
<1>e. \A b : ~Holds(<<>>, b)
  BY EmptyHolds
<1>u. \A b : Holds(uncommitted[NbaSched], b) => b \in late \/ (nbaPending /\ ~NbaLogic)
  BY DEF Settled
<1>r. \A b : Holds(ready[NbaSched], b) =>
             b \in late \/ nbaPending \/ NbaEvent \in fired \/ (NbaEvent \in act /\ Ahead)
  BY DEF Settled
<1>1. ASSUME NEW c \in Coro, Initial(c) \/ Fork(c) PROVE Settled'
  <2>1. /\ Run(c, queue, zeroDelayed) /\ UNCHANGED <<act, trig, pc, cur>> /\ runs[c] = 0
        /\ pc = "initial" \/ DesignRuns
    BY <1>1 DEF Initial, Fork, Begin, loopVars
  <2>2. pc \notin {"commit", "latch"} /\ ~Idle
    BY <2>1 DEF DesignRuns, Idle
  <2> QED
    BY <2>1, <2>2, NowhereHeld, SettledRun
<1>1a. CASE EndInitial
  <2>1. /\ pc = "initial" /\ pc' = "act" /\ UNCHANGED <<act, fired, nbaPending, uncommitted, ready, late>>
    BY <1>1a DEF EndInitial, designVars, schedVars
  <2> QED
    BY <2>1 DEF Settled, Ahead, Idle, NbaLogic
<1>2. CASE EvalTriggersAct
  <2>1. /\ pc' = "commit" /\ fired' = {} /\ fired \subseteq act'
        /\ UNCHANGED <<nbaPending, uncommitted, ready, late>> /\ pc = "act"
    BY <1>2 DEF EvalTriggersAct, schedVars
  <2> QED
    BY <2>1 DEF Settled, Ahead, Idle, NbaLogic
<1>3. CASE TimingCommit
  <2>1. /\ pc = "commit" /\ UNCHANGED <<act, fired, nbaPending, late>>
        /\ (pc' = "latch" /\ act # {}) \/ (pc' = "phase" /\ cur' = 1 /\ act = {})
    BY <1>3 DEF TimingCommit, loopVars, designVars
  <2>2. \A s \in Sched : uncommitted'[s] = <<>> \/ uncommitted'[s] = uncommitted[s]
    BY <1>3 DEF TimingCommit
  <2>3. ready'[NbaSched] = ready[NbaSched] \/ ready'[NbaSched] = ready[NbaSched] \o uncommitted[NbaSched]
    BY <1>3, <1>c DEF TimingCommit
  <2>4. \A b : Holds(ready'[NbaSched], b) => Holds(ready[NbaSched], b) \/ Holds(uncommitted[NbaSched], b)
    <3>1. ready[NbaSched] \in Seq(Coro) /\ uncommitted[NbaSched] \in Seq(Coro)
      BY <1>c, <1>q
    <3> QED
      BY <2>3, <3>1, HeldByEither
  <2>5. act = {} => \A s \in Sched : uncommitted'[s] = <<>>
    <3>1. act = {} => \A s \in Sched : CommitCond(s)
      BY DEF CommitCond
    <3> QED
      BY <1>3, <3>1 DEF TimingCommit
  <2>6. fired = {}
    BY <2>1 DEF Settled
  <2>7. \A b : Holds(ready'[NbaSched], b) => b \in late \/ nbaPending \/ NbaEvent \in act
    BY <1>u, <1>r, <2>4, <2>6
  <2>8. \A b : Holds(uncommitted'[NbaSched], b) => (b \in late \/ nbaPending) /\ act # {}
    BY <1>c, <1>e, <1>u, <2>2, <2>5
  <2> QED
    BY <2>1, <2>5, <2>6, <2>7, <2>8 DEF Settled, Ahead, Idle, NbaLogic
<1>4. CASE Latch
  <2>1. /\ pc = "latch" /\ pc' = "sched" /\ cur' = 1
        /\ UNCHANGED <<act, fired, nbaPending, uncommitted, ready, late>>
    BY <1>4 DEF Latch, designVars
  <2>2. Ahead'
    BY <1>c, <2>1 DEF Ahead
  <2> QED
    BY <1>u, <1>r, <2>1, <2>2 DEF Settled, Idle, NbaLogic
<1>5. CASE BeginResume
  <2>1. /\ pc = "sched" /\ pc' = "resume" /\ UNCHANGED <<cur, act, fired, nbaPending, uncommitted, late>>
        /\ ready' = [ready EXCEPT ![cur] = <<>>]
    BY <1>5 DEF BeginResume, loopVars, designVars
  <2>2. CASE cur = NbaSched
    <3>1. ready'[NbaSched] = <<>>
      BY <1>c, <1>q, <2>1, <2>2
    <3> QED
      BY <1>e, <1>u, <2>1, <3>1 DEF Settled, Idle, NbaLogic
  <2>3. CASE cur # NbaSched
    <3>1. ready'[NbaSched] = ready[NbaSched]
      BY <1>c, <1>q, <2>1, <2>3
    <3>2. Ahead => Ahead'
      BY <1>c, <1>q, <2>1, <2>3 DEF Ahead
    <3> QED
      BY <1>u, <1>r, <2>1, <3>1, <3>2 DEF Settled, Idle, NbaLogic
  <2> QED
    BY <2>2, <2>3
<1>6. CASE SkipSched
  <2>1. /\ pc = "sched" /\ pc' = "sched" /\ UNCHANGED <<act, fired, nbaPending, uncommitted, ready, late>>
        /\ cur' = cur + 1 /\ ~Triggered(cur)
    BY <1>6 DEF SkipSched, loopVars, designVars
  <2>2. NbaEvent \in act /\ Ahead => Ahead'
    <3>1. cur = NbaSched => NbaEvent \notin act
      <4>1. NbaEvent \in Triggers(NbaSched)
        <5>1. 1 \in DOMAIN Scheds[NbaSched]
          BY <1>c, Constants, LenProperties
        <5> QED
          BY <5>1 DEF Triggers, NbaEvent
      <4> QED
        BY <2>1, <4>1 DEF Triggered
    <3> QED
      BY <1>c, <1>q, <2>1, <3>1 DEF Ahead
  <2> QED
    BY <1>u, <1>r, <2>1, <2>2 DEF Settled, Idle, NbaLogic
<1>7. CASE ResumeCoro
  <2> DEFINE c == Head(resumeQueue)
  <2>1. c \in Coro /\ Holds(resumeQueue, c)
    BY <1>q, <1>7, TakeHead DEF ResumeCoro, Holds
  <2>2. /\ Run(c, queue, zeroDelayed) /\ UNCHANGED <<act, trig, pc, cur>> /\ pc = "resume"
    BY <1>7 DEF ResumeCoro, loopVars
  <2> HIDE DEF c
  <2>3. NotInNba(c)
    <3> DEFINE K == <<"resumeQueue", 0>>
    <3>1. K \in Key /\ Has(K, c) /\ K[1] \notin {"uncommitted", "ready"}
      BY <2>1, KeyMembers, HasAt
    <3> HIDE DEF K
    <3> QED
      BY <2>1, <3>1, ElsewhereHeld
  <2>4. pc \notin {"commit", "latch"} /\ ~Idle
    BY <2>2 DEF Idle
  <2> QED
    BY <2>1, <2>2, <2>3, <2>4, SettledRun
<1>8. CASE EndResume
  <2>1. /\ pc = "resume" /\ pc' = "sched" /\ UNCHANGED <<act, fired, nbaPending, late>> /\ cur' = cur + 1
        /\ ready' = [ready EXCEPT ![cur] = @ \o uncommitted[cur]]
        /\ uncommitted' = [uncommitted EXCEPT ![cur] = <<>>]
    BY <1>8 DEF EndResume, loopVars, designVars
  <2>2. \A b : Holds(uncommitted'[NbaSched], b) => Holds(uncommitted[NbaSched], b)
    BY <1>c, <1>e, <1>q, <2>1
  <2>3. CASE cur = NbaSched
    <3>1. ready'[NbaSched] = ready[NbaSched] \o uncommitted[NbaSched]
          /\ ready[NbaSched] \in Seq(Coro) /\ uncommitted[NbaSched] \in Seq(Coro)
      BY <1>c, <1>q, <2>1, <2>3
    <3>2. \A b : Holds(ready'[NbaSched], b) => Holds(ready[NbaSched], b) \/ Holds(uncommitted[NbaSched], b)
      BY <3>1, HeldByEither
    <3>3. ~Ahead
      BY <1>c, <2>1, <2>3 DEF Ahead
    <3> QED
      BY <1>u, <1>r, <2>1, <2>2, <3>2, <3>3 DEF Settled, Idle, NbaLogic
  <2>4. CASE cur # NbaSched
    <3>1. ready'[NbaSched] = ready[NbaSched]
      BY <1>c, <1>q, <2>1, <2>4
    <3>2. Ahead => Ahead'
      BY <1>c, <1>q, <2>1, <2>4 DEF Ahead
    <3> QED
      BY <1>u, <1>r, <2>1, <2>2, <3>1, <3>2 DEF Settled, Idle, NbaLogic
  <2> QED
    BY <2>3, <2>4
<1>9. CASE BeginDelay
  <2>1. /\ pc = "sched" /\ cur = Len(Scheds) + 1 /\ pc' \in {"delay", "evalAct"}
        /\ UNCHANGED <<act, fired, nbaPending, uncommitted, ready, late>>
    BY <1>9 DEF BeginDelay, loopVars, designVars, schedVars
  <2>2. ~Ahead
    BY <1>c, <2>1 DEF Ahead
  <2> QED
    BY <1>u, <1>r, <2>1, <2>2 DEF Settled, Idle, NbaLogic
<1>10. CASE ResumeDelayed
  <2> DEFINE c == queue[1][2]
  <2>1. c \in Coro
    BY <1>q, <1>10, TailFacts DEF ResumeDelayed, Base, TypeOK
  <2>2. /\ Run(c, Tail(queue), zeroDelayed) /\ UNCHANGED <<act, trig, pc, cur>>
        /\ pc = "delay" /\ queue # <<>>
    BY <1>10 DEF ResumeDelayed, loopVars
  <2>3. HoldsLate(queue, c)
    <3>1. 1 \in 1 .. Len(queue)
      BY <1>q, <2>2, TakeHead
    <3> QED
      BY <3>1 DEF HoldsLate
  <2> HIDE DEF c
  <2>4. NotInNba(c)
    <3> DEFINE K == <<"queue", 0>>
    <3>1. K \in Key /\ Has(K, c) /\ K[1] \notin {"uncommitted", "ready"}
      BY <2>3, KeyMembers, HasAt
    <3> HIDE DEF K
    <3> QED
      BY <2>1, <3>1, ElsewhereHeld
  <2>5. pc \notin {"commit", "latch"} /\ ~Idle
    BY <2>2 DEF Idle
  <2> QED
    BY <2>1, <2>2, <2>4, <2>5, SettledRun
<1>11. CASE BeginZero
  <2>1. pc = "delay" /\ pc' = "zero" /\ UNCHANGED <<act, fired, nbaPending, uncommitted, ready, late>>
    BY <1>11 DEF BeginZero, loopVars, designVars, schedVars
  <2> QED
    BY <2>1 DEF Settled, Ahead, Idle, NbaLogic
<1>12. CASE ResumeZero
  <2> DEFINE c == Head(zeroDlyResumed)
  <2>1. c \in Coro /\ Holds(zeroDlyResumed, c)
    BY <1>q, <1>12, TakeHead DEF ResumeZero, Holds
  <2>2. /\ Run(c, queue, zeroDelayed) /\ UNCHANGED <<act, trig, pc, cur>> /\ pc = "zero"
    BY <1>12 DEF ResumeZero, loopVars
  <2> HIDE DEF c
  <2>3. NotInNba(c)
    <3> DEFINE K == <<"zeroDlyResumed", 0>>
    <3>1. K \in Key /\ Has(K, c) /\ K[1] \notin {"uncommitted", "ready"}
      BY <2>1, KeyMembers, HasAt
    <3> HIDE DEF K
    <3> QED
      BY <2>1, <3>1, ElsewhereHeld
  <2>4. pc \notin {"commit", "latch"} /\ ~Idle
    BY <2>2 DEF Idle
  <2> QED
    BY <2>1, <2>2, <2>3, <2>4, SettledRun
<1>13. CASE EndDelay
  <2>1. /\ pc = "zero" /\ pc' \in {"evalAct", "missed"}
        /\ UNCHANGED <<act, fired, nbaPending, uncommitted, ready, late>>
    BY <1>13 DEF EndDelay, loopVars, designVars, schedVars
  <2> QED
    BY <2>1 DEF Settled, Ahead, Idle, NbaLogic
<1>14. CASE EvalAct
  <2>1. /\ pc = "evalAct" /\ pc' \in {"act", "fatal"} /\ fired \subseteq fired'
        /\ UNCHANGED <<act, nbaPending, uncommitted, ready, late>>
    BY <1>14 DEF EvalAct, RunLogic, Fire, LoopAgain, schedVars
  <2> QED
    BY <2>1 DEF Settled, Ahead, Idle, NbaLogic
<1>15. ASSUME NEW r \in Region, RegionWork(r) PROVE Settled'
  <2>1. /\ pc = "phase" /\ cur = r /\ pc' \in {"act", "fatal"}
        /\ UNCHANGED <<act, uncommitted, ready, late>>
        /\ nbaPending' = (nbaPending /\ r # 1) /\ fired \cup Extra(r) \subseteq fired'
    BY <1>15 DEF RegionWork, Fire, LoopAgain, schedVars
  <2>2. nbaPending => nbaPending' \/ NbaEvent \in fired'
    BY <2>1 DEF Extra
  <2>3. nbaPending /\ ~NbaLogic => nbaPending'
    BY <2>1 DEF NbaLogic
  <2>4. ~Ahead
    BY <2>1 DEF Ahead
  <2> QED
    BY <1>u, <1>r, <2>1, <2>2, <2>3, <2>4 DEF Settled, Idle, NbaLogic
<1>16. ASSUME NEW r \in Region, RegionDone(r) PROVE Settled'
  <2>1. /\ pc = "phase" /\ cur = r /\ Extra(r) = {} /\ Idle
        /\ UNCHANGED <<act, fired, nbaPending, uncommitted, ready, late>>
        /\ pc' \in {"phase", "returned"}
    BY <1>16 DEF RegionDone, Idle, loopVars, designVars
  <2>2. ~nbaPending
    <3>1. r = 1 \/ r > 1
      BY Constants DEF Region
    <3> QED
      BY <2>1, <3>1 DEF Extra, Settled
  <2>3. fired = {} /\ \A s \in Sched : uncommitted[s] = <<>>
    BY <2>1 DEF Settled
  <2>4. ~Ahead /\ \A b : ~Holds(uncommitted[NbaSched], b)
    BY <1>c, <1>e, <2>1, <2>3 DEF Ahead
  <2> QED
    BY <1>r, <2>1, <2>2, <2>3, <2>4 DEF Settled
<1>17. CASE NbaExtra
  <2>1. /\ Idle /\ pc' \in {"act", "fatal"} /\ UNCHANGED <<act, uncommitted, ready, late>>
        /\ NbaEvent \in fired'
    BY <1>17 DEF NbaExtra, Idle, Fire, Extra, LoopAgain, schedVars
  <2>2. uncommitted[NbaSched] = <<>>
    BY <1>c, <2>1 DEF Settled
  <2> QED
    BY <1>e, <2>1, <2>2 DEF Settled, Idle
<1>18. CASE AdvanceTime \/ Finish
  <2>1. /\ pc = "returned" /\ pc' \in {"act", "done"}
        /\ UNCHANGED <<act, fired, nbaPending, uncommitted, ready, late>>
    BY <1>18 DEF AdvanceTime, Finish, loopVars, designVars, schedVars
  <2> QED
    BY <2>1 DEF Settled, Ahead, Idle, NbaLogic
<1>19. CASE UNCHANGED vars
  <2>1. UNCHANGED <<pc, cur, act, trig, fired, nbaPending, uncommitted, ready, late>>
    BY <1>19 DEF vars, loopVars, designVars, schedVars
  <2> QED
    BY <2>1 DEF Settled, Ahead, Idle, NbaLogic
<1> QED
  BY <1>1, <1>1a, <1>2, <1>3, <1>4, <1>5, <1>6, <1>7, <1>8, <1>9, <1>10, <1>11, <1>12, <1>13, <1>14,
     <1>15, <1>16, <1>17, <1>18, <1>19 DEF Next, Step, Stopped

LEMMA SettledInit == Init => Settled
<1> SUFFICES ASSUME Init PROVE Settled
  OBVIOUS
<1>1. uncommitted[NbaSched] = <<>> /\ ready[NbaSched] = <<>> /\ pc = "initial"
  BY Constants DEF Init
<1> QED
  BY <1>1, EmptyHolds DEF Settled, Idle

\* eval returns only when nothing is left to do at this time, for every design:
\* no trigger in any region, nothing due in the delay scheduler, every coroutine that
\* awaits a trigger committed, and no dynamic nonblocking assignment still waiting for
\* __VnbaEvent, but those that _eval_nba began itself.
THEOREM ReturnsQuiescent == Spec => []EvalQuiescent
<1>1. Base /\ Regions /\ Due /\ Settled => EvalQuiescent
  <2> SUFFICES ASSUME Base, Regions, Due, Settled, pc \in {"returned", "done"}
               PROVE  /\ fired = {} /\ ~nbaPending
                      /\ \A r \in Region : trig[r] = {}
                      /\ \A s \in Sched : uncommitted[s] = <<>>
                      /\ \A i \in DOMAIN ready[NbaSched] : ready[NbaSched][i] \in late
                      /\ ~AwaitingCurrentTime
    BY DEF EvalQuiescent
  <2>1. ~Ahead /\ Idle
    BY DEF Ahead, Idle
  <2>2. fired = {} /\ ~nbaPending /\ \A s \in Sched : uncommitted[s] = <<>>
    BY <2>1 DEF Settled
  <2>3. \A b : Holds(ready[NbaSched], b) => b \in late
    BY <2>1, <2>2 DEF Settled
  <2>4. DOMAIN ready[NbaSched] = 1 .. Len(ready[NbaSched])
    <3>1. ready[NbaSched] \in Seq(Coro)
      BY Constants DEF Base, TypeOK
    <3> QED
      BY <3>1, LenProperties
  <2>5. \A i \in DOMAIN ready[NbaSched] : ready[NbaSched][i] \in late
    BY <2>3, <2>4 DEF Holds
  <2> QED
    BY <2>1, <2>2, <2>5 DEF Regions, Due
<1> QED
  BY BaseInit, BaseStep, RegionsInit, RegionsStep, DueInit, DueStep, HeldInit, HeldStep,
     SettledInit, SettledStep, <1>1, PTL DEF Spec

================================================================================
