---------------------------- MODULE VlProcessProofs ----------------------------
(***************************************************************************)
(* Proofs about processes, for any number of processes, forks, events and  *)
(* statements: types, that a process is on the call stack or held by one   *)
(* queue or join, that an event reaches all who wait for it, that a join   *)
(* ends exactly when its branches have, and that no queue changes under an *)
(* iteration.                                                              *)
(***************************************************************************)
EXTENDS VlProcess, SequenceTheorems, FiniteSetTheorems, TLAPS

--------------------------------------------------------------------------------
(* Queues of distinct elements. *)

Holds(q, b) == \E i \in 1 .. Len(q) : q[i] = b
Distinct(q) == \A i, j \in 1 .. Len(q) : q[i] = q[j] => i = j

\* Taking the head of a queue.
LEMMA TakeHead ==
  ASSUME NEW S, NEW q \in Seq(S), q # <<>>
  PROVE  /\ Head(q) \in S /\ Tail(q) \in Seq(S)
         /\ Len(q) \in Nat \ {0} /\ Len(Tail(q)) = Len(q) - 1
         /\ Head(q) = q[1]
         /\ \A i \in 1 .. Len(q) - 1 : Tail(q)[i] = q[i + 1]
BY HeadTailProperties, EmptySeq, LenProperties

LEMMA TakeHeadHolds ==
  ASSUME NEW S, NEW q \in Seq(S), q # <<>>, Distinct(q)
  PROVE  /\ Distinct(Tail(q))
         /\ ~Holds(Tail(q), Head(q))
         /\ \A b : Holds(q, b) <=> b = Head(q) \/ Holds(Tail(q), b)
<1> DEFINE n == Len(q)
           t == Tail(q)
<1>1. n \in Nat \ {0} /\ Len(t) = n - 1 /\ Head(q) = q[1]
      /\ \A i \in 1 .. n - 1 : t[i] = q[i + 1]
  BY TakeHead
<1>2. \A i, j \in 1 .. n : q[i] = q[j] => i = j
  BY DEF Distinct
<1>h. HIDE DEF t, n
<1>3. \A i, j \in 1 .. n - 1 : t[i] = t[j] => i = j
  <2> SUFFICES ASSUME NEW i \in 1 .. n - 1, NEW j \in 1 .. n - 1, t[i] = t[j] PROVE i = j
    OBVIOUS
  <2>1. i + 1 \in 1 .. n /\ j + 1 \in 1 .. n
    BY <1>1
  <2>2. q[i + 1] = q[j + 1]
    BY <1>1
  <2>3. i + 1 = j + 1
    BY <1>2, <2>1, <2>2
  <2> QED
    BY <2>3
<1>4. \A i \in 1 .. n - 1 : t[i] # q[1]
  <2> SUFFICES ASSUME NEW i \in 1 .. n - 1, t[i] = q[1] PROVE FALSE
    OBVIOUS
  <2>1. i + 1 \in 1 .. n /\ 1 \in 1 .. n /\ i + 1 # 1
    BY <1>1
  <2> QED
    BY <1>1, <1>2, <2>1
<1>5. ASSUME NEW b
      PROVE  (\E i \in 1 .. n : q[i] = b) <=> b = q[1] \/ \E i \in 1 .. n - 1 : t[i] = b
  <2>1. ASSUME NEW i \in 1 .. n, q[i] = b, i # 1 PROVE \E k \in 1 .. n - 1 : t[k] = b
    <3>1. i - 1 \in 1 .. n - 1 /\ (i - 1) + 1 = i
      BY <1>1, <2>1
    <3> QED
      BY <1>1, <2>1, <3>1
  <2>2. ASSUME NEW i \in 1 .. n - 1, t[i] = b PROVE \E k \in 1 .. n : q[k] = b
    <3>1. i + 1 \in 1 .. n
      BY <1>1
    <3> QED
      BY <1>1, <2>2, <3>1
  <2>3. 1 \in 1 .. n
    BY <1>1
  <2> QED
    BY <2>1, <2>2, <2>3
<1> QED
  BY <1>1, <1>3, <1>4, <1>5 DEF Distinct, Holds, t, n

\* Adding to the end of a queue.
LEMMA AddLast ==
  ASSUME NEW S, NEW q \in Seq(S), NEW x \in S
  PROVE  /\ Append(q, x) \in Seq(S) /\ Append(q, x) # <<>>
         /\ Len(q) \in Nat /\ Len(Append(q, x)) = Len(q) + 1
         /\ \A i \in 1 .. Len(q) : Append(q, x)[i] = q[i]
         /\ Append(q, x)[Len(q) + 1] = x
BY AppendProperties, LenProperties

LEMMA AddLastHolds ==
  ASSUME NEW S, NEW q \in Seq(S), NEW x \in S, Distinct(q), ~Holds(q, x)
  PROVE  /\ Distinct(Append(q, x))
         /\ \A b : Holds(Append(q, x), b) <=> Holds(q, b) \/ b = x
<1> DEFINE n == Len(q)
           a == Append(q, x)
<1>1. n \in Nat /\ Len(a) = n + 1 /\ (\A i \in 1 .. n : a[i] = q[i]) /\ a[n + 1] = x
  BY AddLast
<1>2. (\A i, j \in 1 .. n : q[i] = q[j] => i = j) /\ (\A i \in 1 .. n : q[i] # x)
  BY DEF Distinct, Holds
<1>h. HIDE DEF a, n
<1>3. \A i \in 1 .. n + 1 : i \in 1 .. n \/ i = n + 1
  BY <1>1
<1>4. n + 1 \in 1 .. n + 1 /\ \A i \in 1 .. n : i \in 1 .. n + 1
  BY <1>1
<1> QED
  BY <1>1, <1>2, <1>3, <1>4 DEF Distinct, Holds, a, n

\* Putting back at the front of a queue.
LEMMA AddFirst ==
  ASSUME NEW S, NEW q \in Seq(S), NEW x \in S
  PROVE  /\ <<x>> \o q \in Seq(S)
         /\ Len(q) \in Nat /\ Len(<<x>> \o q) = Len(q) + 1
         /\ (<<x>> \o q)[1] = x
         /\ \A i \in 2 .. Len(q) + 1 : (<<x>> \o q)[i] = q[i - 1]
<1>1. <<x>> \in Seq(S) /\ Len(<<x>>) = 1 /\ <<x>>[1] = x /\ Len(q) \in Nat
  BY LenProperties
<1> QED
  BY <1>1, ConcatProperties

\* The empty queue.
LEMMA EmptyHolds ==
  ASSUME NEW S
  PROVE  <<>> \in Seq(S) /\ Distinct(<<>>) /\ (\A b : ~Holds(<<>>, b)) /\ Len(<<>>) = 0
BY EmptySeq DEF Distinct, Holds

--------------------------------------------------------------------------------

(***************************************************************************)
(* The inductive invariant                                                 *)
(***************************************************************************)

\* The calls in progress, counted from the outermost one.
Depth == Len(stack)
Fr(d) == stack[Len(stack) + 1 - d]

\* Which queues are in use where in the loop.
Phases ==
    /\ phase # "evaluate" => evaluated = <<>>
    /\ phase \notin {"evaluate", "post"} => post = <<>>
    /\ phase \in {"evaluate", "post"} => stack = <<>>

Base == TypeOK /\ Phases

\* Processes are created in order, and branches of a fork after the process that forks.
Creation ==
    /\ \A p \in Created : \A q \in Proc : q < p => q \in Created
    /\ \A p \in Proc : forkOf[p] # None => p \in Created
    /\ \A p \in Proc : \A s \in Sync : p \in branches[s] <=> forkOf[p] = s
    /\ \A s \in Sync : branches[s] = {} => sync[s].susp = None
    /\ \A p \in Proc : \A s \in Sync :
          forkOf[p] = s /\ sync[s].susp # None => sync[s].susp < p

\* What a call in progress knows of its fork.
Frames ==
    \A d \in 1 .. Depth :
        /\ Fr(d).at = "body" => d = Depth
        /\ Fr(d).at = "done" => Fr(d).sync = forkOf[Fr(d).p] /\ Fr(d).sync # None
        /\ Fr(d).at = "fork" /\ Fr(d).sync # None =>
              /\ sync[Fr(d).sync].susp = None
              /\ branches[Fr(d).sync] = {} => d = Depth /\ Fr(d).left > 0
              /\ \A p \in Proc : forkOf[p] = Fr(d).sync => Fr(d).p < p
              /\ \A e \in 1 .. Depth : Fr(e).at = "fork" /\ Fr(e).sync = Fr(d).sync => e = d

\* How calls nest: inside a fork runs one of its branches, inside done() the process
\* that joined.  A process is never resumed from inside a fork, so the calls of done()
\* are the outermost ones, each by a process forked later than the one it resumed.
Nesting ==
    \A d \in 1 .. Depth : d < Depth =>
        /\ Fr(d).at = "fork" => forkOf[Fr(d + 1).p] = Fr(d).sync
        /\ Fr(d).at = "done" =>
              /\ sync[Fr(d).sync].susp = Fr(d + 1).p
              /\ \A e \in 1 .. Depth : e <= d => Fr(e).at = "done" /\ Fr(d + 1).p < Fr(e).p

Calls == Creation /\ Frames /\ Nesting

\* The places where a process can be.
InCall == <<"call", 0>>
InHeld == <<"held", 0>>
InSuspended == <<"suspended", 0>>
InEvaluated == <<"evaluated", 0>>
InPost == <<"post", 0>>
InTriggered == <<"triggered", 0>>
InJoin(s) == <<"join", s>>
Nowhere == <<"nowhere", 0>>

OnStack(p) == \E d \in 1 .. Depth : Fr(d).p = p
LeftFrom(q, n, p) == \E i \in 1 .. Len(q) : q[i] = p /\ i >= n
PostFrom == IF phase = "post" THEN pos ELSE 1
TriggeredFrom == IF phase = "dynamic" THEN pos ELSE 1
DoneOn(s) == \E d \in 1 .. Depth : Fr(d).at = "done" /\ Fr(d).sync = s
Joins(p, s) == sync[s].susp = p /\ ~(sync[s].count = 0 /\ DoneOn(s))
Alive(p) == p \in Created /\ p \notin gone

\* Process p is there, and nowhere else.
IsAt(p, k) ==
    /\ OnStack(p) <=> k = InCall
    /\ p \in held <=> k = InHeld
    /\ Holds(suspended, p) <=> k = InSuspended
    /\ Holds(evaluated, p) <=> k = InEvaluated
    /\ LeftFrom(post, PostFrom, p) <=> k = InPost
    /\ LeftFrom(triggered, TriggeredFrom, p) <=> k = InTriggered
    /\ \A s \in Sync : Joins(p, s) <=> k = InJoin(s)
    /\ ~Alive(p) <=> k = Nowhere

AllDistinct ==
    /\ \A d, e \in 1 .. Depth : Fr(d).p = Fr(e).p => d = e
    /\ Distinct(suspended) /\ Distinct(evaluated) /\ Distinct(post) /\ Distinct(triggered)

Key == {InCall, InHeld, InSuspended, InEvaluated, InPost, InTriggered, Nowhere}
           \cup {InJoin(s) : s \in Sync}

Held ==
    /\ AllDistinct
    /\ \A p \in Proc : \E k \in Key : IsAt(p, k)
    /\ gone \subseteq Created
    /\ \A p \in Proc : waitFor[p] = "forever" => p \in gone

\* Who names an event in his wait clears it in the post update step.
Named == \A p \in Proc : waitFor[p] \in Event \ MemberEvent => destructive[p]

\* Until it is resumed, a process that an event is owed to has seen the event, or will
\* be asked to evaluate it before anybody clears it, if all who wait for it name it.
Owed ==
    /\ \A p \in owed : waitFor[p] \in Event /\ ~OnStack(p) /\ p \in Created
    /\ \A p \in Proc : Holds(suspended, p) \/ Holds(evaluated, p) => ~trigger[p]
    /\ \A p \in owed : waitFor[p] \in MemberEvent \/ trigger[p] \/ (waitFor[p] \in fired /\
          \/ phase = "evaluate" /\ Holds(evaluated, p)
          \/ phase \notin {"evaluate", "post"} /\ Holds(suspended, p))

\* The calls in progress, as a set: no process is in two of them.
InProgress == {Fr(d) : d \in 1 .. Depth}
InFork(s) == \E f \in InProgress : f.at = "fork" /\ f.sync = s
Returning(p) == \E f \in InProgress : f.at = "done" /\ f.p = p

\* The counter of a fork is what its branches still have to count down, n of which
\* were not called yet.
Missing(s, n) ==
    IF s \in anyJoin THEN IF branches[s] \cap doneBy = {} THEN 1 ELSE 0
                     ELSE n + Cardinality(branches[s] \ doneBy)

Counts ==
    /\ \A p \in doneBy : p \in gone \/ Returning(p)
    /\ \A s \in anyJoin : branches[s] # {} \/ InFork(s)
    /\ \A f \in InProgress : f.at = "fork" /\ f.sync # None =>
          sync[f.sync].count = Missing(f.sync, f.left)
    /\ \A s \in Sync : branches[s] # {} /\ ~InFork(s) =>
          /\ sync[s].count = Missing(s, 0)
          /\ sync[s].count > 0 => sync[s].susp # None
          /\ sync[s].count = 0 => sync[s].susp = None \/ DoneOn(s)

--------------------------------------------------------------------------------
(* The call stack. *)

Above(q, d) == q[Len(q) + 1 - d]
Enter(x, q) == <<x>> \o q

\* Adding a call in front of others.
LEMMA Entered ==
  ASSUME NEW S, NEW q \in Seq(S), NEW x \in S
  PROVE  /\ Enter(x, q) \in Seq(S) /\ Len(Enter(x, q)) = Len(q) + 1 /\ Len(q) \in Nat
         /\ \A d \in 1 .. Len(q) : Above(Enter(x, q), d) = Above(q, d)
         /\ Above(Enter(x, q), Len(q) + 1) = x
<1> DEFINE n == Len(q)
           a == Enter(x, q)
<1>1. /\ a \in Seq(S) /\ n \in Nat /\ Len(a) = n + 1 /\ a[1] = x
      /\ \A i \in 2 .. n + 1 : a[i] = q[i - 1]
  BY AddFirst DEF Enter
<1> HIDE DEF n, a
<1>2. ASSUME NEW d \in 1 .. n PROVE a[(n + 1) + 1 - d] = q[n + 1 - d]
  <2>1. (n + 1) + 1 - d \in 2 .. n + 1 /\ ((n + 1) + 1 - d) - 1 = n + 1 - d
    BY <1>1
  <2>2. a[(n + 1) + 1 - d] = q[((n + 1) + 1 - d) - 1]
    BY <1>1, <2>1
  <2> QED
    BY <2>1, <2>2
<1>3. a[(n + 1) + 1 - (n + 1)] = x
  <2>1. (n + 1) + 1 - (n + 1) = 1
    BY <1>1
  <2> QED
    BY <1>1, <2>1
<1> QED
  BY <1>1, <1>2, <1>3 DEF Above, n, a

\* Returning from the innermost call.
LEMMA Left ==
  ASSUME NEW S, NEW q \in Seq(S), q # <<>>
  PROVE  /\ Tail(q) \in Seq(S) /\ Len(q) \in Nat \ {0} /\ Len(Tail(q)) = Len(q) - 1
         /\ Head(q) \in S /\ Above(q, Len(q)) = Head(q)
         /\ \A d \in 1 .. Len(q) - 1 : Above(Tail(q), d) = Above(q, d)
<1> DEFINE n == Len(q)
           t == Tail(q)
<1>1. /\ Head(q) \in S /\ t \in Seq(S) /\ n \in Nat \ {0} /\ Len(t) = n - 1
      /\ Head(q) = q[1]
      /\ \A i \in 1 .. n - 1 : t[i] = q[i + 1]
  BY TakeHead
<1> HIDE DEF n, t
<1>2. ASSUME NEW d \in 1 .. n - 1 PROVE t[(n - 1) + 1 - d] = q[n + 1 - d]
  <2>1. (n - 1) + 1 - d \in 1 .. n - 1 /\ ((n - 1) + 1 - d) + 1 = n + 1 - d
    BY <1>1
  <2>2. t[(n - 1) + 1 - d] = q[((n - 1) + 1 - d) + 1]
    BY <1>1, <2>1
  <2> QED
    BY <2>1, <2>2
<1>3. q[n + 1 - n] = Head(q)
  <2>1. n + 1 - n = 1
    BY <1>1
  <2> QED
    BY <1>1, <2>1
<1> QED
  BY <1>1, <1>2, <1>3 DEF Above, n, t

\* The ways in which a step changes the stack, of n calls.
Pops(n) == /\ n \in Nat \ {0} /\ Depth = n /\ Depth' = n - 1
           /\ \A d \in 1 .. n - 1 : Fr(d)' = Fr(d)
Replaces(n, f) == /\ n \in Nat \ {0} /\ Depth = n /\ Depth' = n
                  /\ \A d \in 1 .. n - 1 : Fr(d)' = Fr(d)
                  /\ Fr(n)' = f
Pushes(n, f, g) == /\ n \in Nat \ {0} /\ Depth = n /\ Depth' = n + 1
                   /\ \A d \in 1 .. n - 1 : Fr(d)' = Fr(d)
                   /\ Fr(n)' = f /\ Fr(n + 1)' = g
Enters(f) == Depth = 0 /\ Depth' = 1 /\ Fr(1)' = f
Keeps == Depth' = Depth /\ \A d : Fr(d)' = Fr(d)

\* The frame on top.
LEMMA TopFrame ==
  ASSUME stack \in Seq(Frame), stack # <<>>
  PROVE  Depth \in Nat \ {0} /\ Top = Fr(Depth) /\ Top \in Frame
<1>1. Len(stack) \in Nat \ {0} /\ Head(stack) \in Frame /\ Above(stack, Len(stack)) = Head(stack)
  BY Left
<1> QED
  BY <1>1 DEF Depth, Fr, Above, Top

LEMMA FrAbove == \A d : Fr(d) = Above(stack, d) /\ Fr(d)' = Above(stack', d)
BY DEF Fr, Above

LEMMA StackKeeps ==
  ASSUME stack' = stack
  PROVE  Keeps
BY DEF Keeps, Depth, Fr

LEMMA StackPops ==
  ASSUME stack \in Seq(Frame), stack # <<>>, stack' = Tail(stack), NEW n, n = Depth
  PROVE  Pops(n) /\ stack' \in Seq(Frame)
<1>1. /\ Tail(stack) \in Seq(Frame) /\ Len(stack) \in Nat \ {0}
      /\ Len(Tail(stack)) = Len(stack) - 1
      /\ \A d \in 1 .. Len(stack) - 1 : Above(Tail(stack), d) = Above(stack, d)
  BY Left
<1> QED
  BY <1>1, FrAbove DEF Pops, Depth

LEMMA StackReplaces ==
  ASSUME stack \in Seq(Frame), stack # <<>>, NEW f \in Frame, stack' = <<f>> \o Tail(stack),
         NEW n, n = Depth
  PROVE  Replaces(n, f) /\ stack' \in Seq(Frame)
<1> DEFINE t == Tail(stack)
<1>1. /\ t \in Seq(Frame) /\ n \in Nat \ {0} /\ Len(t) = n - 1
      /\ \A d \in 1 .. n - 1 : Above(t, d) = Above(stack, d)
  BY Left DEF Depth
<1>0. stack' = Enter(f, t)
  BY DEF Enter
<1>2. /\ stack' \in Seq(Frame) /\ Len(stack') = Len(t) + 1
      /\ \A d \in 1 .. Len(t) : Above(stack', d) = Above(t, d)
      /\ Above(stack', Len(t) + 1) = f
  <2> HIDE DEF t
  <2>1. Enter(f, t) \in Seq(Frame) /\ Len(Enter(f, t)) = Len(t) + 1
    BY <1>1, Entered
  <2>2. \A d \in 1 .. Len(t) : Above(Enter(f, t), d) = Above(t, d)
    BY <1>1, Entered
  <2>3. Above(Enter(f, t), Len(t) + 1) = f
    BY <1>1, Entered
  <2> QED
    BY <1>0, <2>1, <2>2, <2>3
<1>3. Depth' = Len(stack') /\ Len(t) + 1 = n
  BY <1>1 DEF Depth
<1> HIDE DEF t
<1> QED
  BY <1>1, <1>2, <1>3, FrAbove DEF Replaces

LEMMA StackPushes ==
  ASSUME stack \in Seq(Frame), stack # <<>>, NEW f \in Frame, NEW g \in Frame,
         stack' = <<g>> \o (<<f>> \o Tail(stack)), NEW n, n = Depth
  PROVE  Pushes(n, f, g) /\ stack' \in Seq(Frame)
<1> DEFINE t == Tail(stack)
           m == Enter(f, t)
<1>0. stack' = Enter(g, m)
  BY DEF Enter
<1>1. /\ t \in Seq(Frame) /\ n \in Nat \ {0} /\ Len(t) = n - 1
      /\ \A d \in 1 .. n - 1 : Above(t, d) = Above(stack, d)
  BY Left DEF Depth
<1>2. /\ m \in Seq(Frame) /\ Len(m) = Len(t) + 1
      /\ \A d \in 1 .. Len(t) : Above(m, d) = Above(t, d)
      /\ Above(m, Len(t) + 1) = f
  <2> HIDE DEF t
  <2>1. m \in Seq(Frame) /\ Len(m) = Len(t) + 1
    BY <1>1, Entered
  <2>2. \A d \in 1 .. Len(t) : Above(m, d) = Above(t, d)
    BY <1>1, Entered
  <2>3. Above(m, Len(t) + 1) = f
    BY <1>1, Entered
  <2> QED
    BY <2>1, <2>2, <2>3
<1>3. /\ stack' \in Seq(Frame) /\ Len(stack') = Len(m) + 1
      /\ \A d \in 1 .. Len(m) : Above(stack', d) = Above(m, d)
      /\ Above(stack', Len(m) + 1) = g
  <2> HIDE DEF m
  <2>1. Enter(g, m) \in Seq(Frame) /\ Len(Enter(g, m)) = Len(m) + 1
    BY <1>2, Entered
  <2>2. \A d \in 1 .. Len(m) : Above(Enter(g, m), d) = Above(m, d)
    BY <1>2, Entered
  <2>3. Above(Enter(g, m), Len(m) + 1) = g
    BY <1>2, Entered
  <2> QED
    BY <1>0, <2>1, <2>2, <2>3
<1>4. Depth' = Len(stack') /\ Len(t) + 1 = n /\ Len(m) = n
  BY <1>1, <1>2 DEF Depth
<1> HIDE DEF t, m
<1>6. \A d \in 1 .. n - 1 : Above(stack', d) = Above(stack, d)
  BY <1>1, <1>2, <1>3, <1>4
<1>7. Above(stack', n) = f /\ Above(stack', n + 1) = g /\ Len(stack') = n + 1
  <2>1. Above(m, n) = f /\ Above(stack', n + 1) = g /\ Len(stack') = n + 1
    BY <1>2, <1>3, <1>4
  <2>2. n \in 1 .. Len(m)
    BY <1>1, <1>4
  <2> QED
    BY <1>3, <2>1, <2>2
<1>8. Fr(n)' = f /\ Fr(n + 1)' = g /\ \A d \in 1 .. n - 1 : Fr(d)' = Fr(d)
  BY <1>6, <1>7, FrAbove
<1> QED
  BY <1>1, <1>3, <1>4, <1>7, <1>8 DEF Pushes

LEMMA StackEnters ==
  ASSUME stack = <<>>, NEW f \in Frame, stack' = <<f>> \o <<>>
  PROVE  Enters(f) /\ stack' \in Seq(Frame)
<1>0. stack' = Enter(f, stack)
  BY DEF Enter
<1>1. stack \in Seq(Frame) /\ Len(stack) = 0
  BY EmptySeq
<1>2. /\ stack' \in Seq(Frame) /\ Len(stack') = Len(stack) + 1
      /\ Above(stack', Len(stack) + 1) = f
  <2>1. Enter(f, stack) \in Seq(Frame) /\ Len(Enter(f, stack)) = Len(stack) + 1
    BY <1>1, Entered
  <2>2. Above(Enter(f, stack), Len(stack) + 1) = f
    BY <1>1, Entered
  <2> QED
    BY <1>0, <2>1, <2>2
<1> QED
  BY <1>1, <1>2, FrAbove DEF Enters, Depth

\* A frame has its fields.
LEMMA FrameFields ==
  /\ \A f \in Frame : /\ f.p \in Proc /\ f.at \in {"body", "fork", "done"} /\ f.left \in Nat
                      /\ f.sync \in Sync \cup {None}
  /\ \A p \in Proc : /\ Body(p) \in Frame /\ Body(p).p = p /\ Body(p).at = "body"
                     /\ Body(p).left = 0 /\ Body(p).sync = None
BY DEF Frame, Body

\* Every frame of the stack.
LEMMA StackFrames ==
  ASSUME stack \in Seq(Frame)
  PROVE  Depth \in Nat /\ \A d \in 1 .. Depth : Fr(d) \in Frame
<1>1. Len(stack) \in Nat
  BY LenProperties
<1>2. ASSUME NEW d \in 1 .. Len(stack) PROVE stack[Len(stack) + 1 - d] \in Frame
  <2>1. Len(stack) + 1 - d \in 1 .. Len(stack)
    BY <1>1
  <2> QED
    BY <2>1, ElementOfSeq
<1> QED
  BY <1>1, <1>2 DEF Depth, Fr

LEMMA Numbers ==
  /\ NProc \in Nat \ {0} /\ NSync \in Nat /\ None \notin Proc /\ None \notin Sync
  /\ \A p \in Proc : p \in Nat
  /\ "fork" \notin Event /\ "forever" \notin Event
BY ProcessAssumption DEF ProcessAssumption, None, Proc, Sync

\* Changes of one join.
JoinRecord == [count : Nat, susp : Proc \cup {None}]

LEMMA JoinChange ==
  ASSUME NEW S \in [Sync -> JoinRecord], NEW s \in Sync, NEW c \in Nat, NEW r \in Proc \cup {None},
         NEW T, \/ T = [S EXCEPT ![s] = [count |-> c, susp |-> r]]
                \/ T = [S EXCEPT ![s].count = c] /\ r = S[s].susp
                \/ T = [S EXCEPT ![s].susp = r] /\ c = S[s].count
  PROVE  /\ T \in [Sync -> JoinRecord] /\ T[s].count = c /\ T[s].susp = r
         /\ \A t \in Sync : t # s => T[t] = S[t]
<1>1. \A t \in Sync : S[t] \in JoinRecord
  OBVIOUS
<1>2. S[s].count \in Nat /\ S[s].susp \in Proc \cup {None}
  BY <1>1 DEF JoinRecord
<1>3. CASE T = [S EXCEPT ![s] = [count |-> c, susp |-> r]]
  BY <1>1, <1>3 DEF JoinRecord
<1>4. CASE T = [S EXCEPT ![s].count = c] /\ r = S[s].susp
  BY <1>1, <1>2, <1>4 DEF JoinRecord
<1>5. CASE T = [S EXCEPT ![s].susp = r] /\ c = S[s].count
  BY <1>1, <1>2, <1>5 DEF JoinRecord
<1> QED
  BY <1>3, <1>4, <1>5

\* Every join has its fields.
LEMMA JoinFields ==
  ASSUME TypeOK
  PROVE  /\ sync \in [Sync -> JoinRecord]
         /\ \A s \in Sync : sync[s].count \in Nat /\ sync[s].susp \in Proc \cup {None}
<1>1. sync \in [Sync -> JoinRecord]
  BY DEF TypeOK, JoinRecord
<1>2. \A s \in Sync : sync[s] \in JoinRecord
  BY <1>1
<1> QED
  BY <1>1, <1>2 DEF JoinRecord

(***************************************************************************)
(* Iterations                                                              *)
(***************************************************************************)

\* doPostUpdates() and resume() iterate over queues that no resumed process adds to:
\* whatever runs meanwhile only adds to m_suspended.
THEOREM IterationsSafe == Spec => IteratedUnchanged
<1>1. [Next]_vars => /\ phase = "post" /\ phase' = "post" => post' = post
                     /\ phase = "dynamic" /\ phase' = "dynamic" => triggered' = triggered
  <2> SUFFICES ASSUME [Next]_vars
               PROVE  /\ phase = "post" /\ phase' = "post" => post' = post
                      /\ phase = "dynamic" /\ phase' = "dynamic" => triggered' = triggered
    OBVIOUS
  <2>1. CASE UNCHANGED vars
    BY <2>1 DEF vars, dynVars
  <2>2. CASE Evaluate
    BY <2>2 DEF Evaluate
  <2>3. CASE PostUpdate
    BY <2>3 DEF PostUpdate
  <2>4. CASE EndPost \/ EndDynamic
    BY <2>4 DEF EndPost, EndDynamic
  <2>5. CASE BeginEvaluate \/ BeginPost \/ BeginDynamic \/ ResumeTriggered
    BY <2>5 DEF BeginEvaluate, BeginPost, BeginDynamic, ResumeTriggered
  <2>6. CASE StartBranch \/ Join \/ EndBranch
    BY <2>6 DEF StartBranch, Join, EndBranch, Cleared, dynVars
  <2>7. ASSUME NEW p \in Proc, End(p) \/ Done(p) \/ ResumeHeld(p)
        PROVE  post' = post /\ triggered' = triggered
    BY <2>7 DEF End, Done, ResumeHeld, dynVars
  <2>8. ASSUME NEW p \in Proc, Statement(p) PROVE post' = post /\ triggered' = triggered
    BY <2>8 DEF Statement, AwaitHeld, AwaitForever, DisableFork, AwaitDynamic, FireEvent,
                SetStatus, Fork, dynVars
  <2> QED
    BY <2>1, <2>2, <2>3, <2>4, <2>5, <2>6, <2>7, <2>8 DEF Next
<1> QED
  BY <1>1, PTL DEF Spec, IteratedUnchanged

(***************************************************************************)
(* Types                                                                   *)
(***************************************************************************)

\* What is known of a process that runs a statement.
LEMMA RunningFacts ==
  ASSUME Base, NEW p \in Proc, Running(p)
  PROVE  /\ stack \in Seq(Frame) /\ stack # <<>> /\ phase \notin {"evaluate", "post"}
         /\ Depth \in Nat \ {0} /\ Fr(Depth) \in Frame /\ Fr(Depth).p = p /\ Fr(Depth).at = "body"
         /\ ops' \in [Proc -> Nat] /\ Tail(stack) \in Seq(Frame)
<1>1. /\ stack \in Seq(Frame) /\ stack # <<>> /\ phase \notin {"evaluate", "post"}
      /\ Top.p = p /\ Top.at = "body"
  BY DEF Base, TypeOK, Phases, Running
<1>2. ops' \in [Proc -> Nat]
  BY DEF Base, TypeOK, Running
<1>3. Depth \in Nat \ {0} /\ Top = Fr(Depth) /\ Top \in Frame /\ Tail(stack) \in Seq(Frame)
  BY <1>1, TopFrame, Left
<1> QED
  BY <1>1, <1>2, <1>3

\* The statements that suspend or end a process, or change no call.
LEMMA BaseStatement ==
  ASSUME Base, NEW p \in Proc,
         AwaitHeld(p) \/ AwaitForever(p) \/ DisableFork(p)
         \/ (\E e \in Event : FireEvent(p, e))
         \/ (\E q \in Proc, s \in {"KILLED", "RUNNING"} : SetStatus(p, q, s))
  PROVE  Base'
<1>0. Running(p)
  BY DEF AwaitHeld, AwaitForever, DisableFork, FireEvent, SetStatus
<1> HIDE DEF Running
<1>1. /\ stack \in Seq(Frame) /\ stack # <<>> /\ phase \notin {"evaluate", "post"}
      /\ ops' \in [Proc -> Nat] /\ Tail(stack) \in Seq(Frame)
  BY <1>0, RunningFacts
<1>2. CASE AwaitHeld(p)
  BY <1>1, <1>2 DEF Base, TypeOK, Phases, AwaitHeld, Suspend, syncVars, dynVars
<1>3. CASE AwaitForever(p)
  BY <1>1, <1>3 DEF Base, TypeOK, Phases, AwaitForever, syncVars
<1>4. CASE DisableFork(p)
  BY <1>1, <1>4 DEF Base, TypeOK, Phases, DisableFork, syncVars, dynVars
<1>5. ASSUME NEW e \in Event, FireEvent(p, e) PROVE Base'
  BY <1>1, <1>5 DEF Base, TypeOK, Phases, FireEvent, syncVars, dynVars
<1>6. ASSUME NEW q \in Proc, NEW s \in {"KILLED", "RUNNING"}, SetStatus(p, q, s) PROVE Base'
  BY <1>1, <1>6 DEF Base, TypeOK, Phases, SetStatus, syncVars, dynVars
<1> QED
  BY <1>2, <1>3, <1>4, <1>5, <1>6

LEMMA BaseAwaitDynamic ==
  ASSUME Base, NEW p \in Proc, NEW w \in Waitable, AwaitDynamic(p, w)
  PROVE  Base'
<1>0. Running(p)
  BY DEF AwaitDynamic
<1>1. /\ stack \in Seq(Frame) /\ stack # <<>> /\ phase \notin {"evaluate", "post"}
      /\ ops' \in [Proc -> Nat] /\ Tail(stack) \in Seq(Frame)
  BY <1>0, RunningFacts
<1>2. suspended' \in Seq(Proc)
  BY AddLast DEF Base, TypeOK, AwaitDynamic
<1>3. destructive' \in [Proc -> BOOLEAN]
  <2>1. DestructivePostUpdate(w) \subseteq BOOLEAN
    BY DEF DestructivePostUpdate
  <2>2. PICK d \in BOOLEAN : destructive' = [destructive EXCEPT ![p] = d]
    BY <2>1 DEF AwaitDynamic
  <2>3. destructive \in [Proc -> BOOLEAN]
    BY DEF Base, TypeOK
  <2> QED
    BY <2>2, <2>3
<1> QED
  BY <1>1, <1>2, <1>3 DEF Base, TypeOK, Phases, AwaitDynamic, Suspend, syncVars

LEMMA BaseFork ==
  ASSUME Base, NEW p \in Proc, NEW kind \in {"join", "any", "none"}, NEW n \in 1 .. 2,
         Fork(p, kind, n)
  PROVE  Base'
<1>0. Running(p)
  BY DEF Fork
<1>1. /\ stack \in Seq(Frame) /\ stack # <<>> /\ phase \notin {"evaluate", "post"}
      /\ ops' \in [Proc -> Nat]
  BY <1>0, RunningFacts
<1>2. ASSUME NEW s \in Sync \cup {None},
             stack' = <<[p |-> p, at |-> "fork", left |-> n, sync |-> s]>> \o Tail(stack)
      PROVE  stack' \in Seq(Frame)
  <2>1. [p |-> p, at |-> "fork", left |-> n, sync |-> s] \in Frame
    BY DEF Frame
  <2>2. PICK f \in Frame : f = [p |-> p, at |-> "fork", left |-> n, sync |-> s]
    BY <2>1
  <2> QED
    BY <1>1, <1>2, <2>2, StackReplaces
<1>3. JoinCount(kind, n) \in Nat
  BY DEF JoinCount
<1>4. stack' \in Seq(Frame)
  BY <1>2 DEF Fork
<1>5. /\ status' \in [Proc -> {"none", "RUNNING", "WAITING", "FINISHED", "KILLED"}]
      /\ anyJoin' \subseteq Sync
  <2>1. \/ UNCHANGED <<status, anyJoin>>
        \/ /\ status' = [status EXCEPT ![p] = "WAITING"]
           /\ \E s \in Sync : anyJoin' = anyJoin \cup {s} \/ anyJoin' = anyJoin
    BY DEF Fork
  <2> QED
    BY <2>1 DEF Base, TypeOK
<1>6. sync' \in [Sync -> JoinRecord]
  <2>1. sync \in [Sync -> JoinRecord] /\ None \in Proc \cup {None}
    BY JoinFields DEF Base
  <2>2. \/ sync' = sync
        \/ \E s \in Sync : sync' = [sync EXCEPT ![s] = [count |-> JoinCount(kind, n), susp |-> None]]
    BY DEF Fork
  <2> QED
    BY <1>3, <2>1, <2>2, JoinChange
<1> QED
  BY <1>1, <1>4, <1>5, <1>6 DEF Base, TypeOK, Phases, Fork, dynVars, JoinRecord

LEMMA BaseStartBranch ==
  ASSUME Base, StartBranch
  PROVE  Base'
<1>1. /\ stack \in Seq(Frame) /\ stack # <<>> /\ phase \notin {"evaluate", "post"}
  BY DEF Base, TypeOK, Phases, StartBranch
<1>2. PICK f \in Frame : f = Top
  BY <1>1, TopFrame
<1>3. PICK g : g = [f EXCEPT !.left = @ - 1]
  OBVIOUS
<1>4. g \in Frame /\ f.p \in Proc /\ f.sync \in Sync \cup {None}
  <2>1. f.left > 0
    BY <1>2 DEF StartBranch
  <2>2. f.p \in Proc /\ f.sync \in Sync \cup {None} /\ f.left - 1 \in Nat
    BY <2>1, FrameFields
  <2> QED
    BY <1>3, <2>2 DEF Frame
<1>5. PICK q \in Proc :
        /\ status' = [status EXCEPT ![q] = "RUNNING"]
        /\ parent' = [parent EXCEPT ![q] = f.p]
        /\ forkOf' = [forkOf EXCEPT ![q] = f.sync]
        /\ branches' = IF f.sync = None THEN branches
                       ELSE [branches EXCEPT ![f.sync] = @ \cup {q}]
        /\ stack' = <<Body(q)>> \o (<<g>> \o Tail(stack))
  BY <1>2, <1>3 DEF StartBranch
<1>6. stack' \in Seq(Frame)
  BY <1>1, <1>4, <1>5, FrameFields, StackPushes
<1>7. /\ status' \in [Proc -> {"none", "RUNNING", "WAITING", "FINISHED", "KILLED"}]
      /\ parent' \in [Proc -> Proc \cup {None}] /\ forkOf' \in [Proc -> Sync \cup {None}]
  BY <1>4, <1>5 DEF Base, TypeOK
<1>8. branches' \in [Sync -> SUBSET Proc]
  <2>1. branches \in [Sync -> SUBSET Proc]
    BY DEF Base, TypeOK
  <2>2. CASE f.sync = None
    BY <1>5, <2>1, <2>2
  <2>3. CASE f.sync # None
    <3>1. f.sync \in Sync /\ branches[f.sync] \cup {q} \in SUBSET Proc
      BY <1>4, <2>1, <2>3
    <3> QED
      BY <1>5, <2>1, <2>3, <3>1
  <2> QED
    BY <2>2, <2>3
<1> QED
  BY <1>1, <1>6, <1>7, <1>8 DEF Base, TypeOK, Phases, StartBranch, dynVars

LEMMA BaseJoin ==
  ASSUME Base, Join
  PROVE  Base'
<1>1. /\ stack \in Seq(Frame) /\ stack # <<>> /\ phase \notin {"evaluate", "post"}
  BY DEF Base, TypeOK, Phases, Join
<1>2. PICK f \in Frame : f = Top
  BY <1>1, TopFrame
<1>3. Tail(stack) \in Seq(Frame) /\ f.p \in Proc
  BY <1>1, <1>2, Left, FrameFields
<1>4. CASE f.sync = None \/ sync[f.sync].count = 0
  <2>1. stack' = <<Body(f.p)>> \o Tail(stack) /\ UNCHANGED <<status, sync>>
    BY <1>2, <1>4 DEF Join
  <2>2. stack' \in Seq(Frame)
    BY <1>1, <1>3, <2>1, FrameFields, StackReplaces
  <2> QED
    BY <1>1, <2>1, <2>2 DEF Base, TypeOK, Phases, Join, dynVars
<1>5. CASE ~(f.sync = None \/ sync[f.sync].count = 0)
  <2>1. /\ sync' = [sync EXCEPT ![f.sync].susp = f.p]
        /\ status' = [status EXCEPT ![f.p] = "WAITING"]
        /\ stack' = Tail(stack)
    BY <1>2, <1>5 DEF Join
  <2>2. f.sync \in Sync
    BY <1>5, FrameFields
  <2>3. sync' \in [Sync -> JoinRecord]
    <3>1. PICK t \in Sync, c \in Nat, r \in Proc :
            t = f.sync /\ c = sync[f.sync].count /\ r = f.p
      BY <1>3, <2>2, JoinFields DEF Base
    <3>2. sync \in [Sync -> JoinRecord] /\ sync' = [sync EXCEPT ![t].susp = r] /\ c = sync[t].count
      BY <2>1, <3>1, JoinFields DEF Base
    <3> QED
      BY <3>2, JoinChange
  <2> QED
    BY <1>1, <1>3, <2>1, <2>3 DEF Base, TypeOK, Phases, Join, dynVars, JoinRecord
<1> QED
  BY <1>4, <1>5

LEMMA BaseEnds ==
  ASSUME Base, EndBranch \/ \E p \in Proc : End(p)
  PROVE  Base'
<1>1. /\ stack \in Seq(Frame) /\ stack # <<>> /\ phase \notin {"evaluate", "post"}
  BY DEF Base, TypeOK, Phases, EndBranch, Cleared, End
<1>2. PICK f \in Frame : f = Top
  BY <1>1, TopFrame
<1>3. Tail(stack) \in Seq(Frame) /\ f.p \in Proc
  BY <1>1, <1>2, Left, FrameFields
<1>4. CASE EndBranch
  <2>1. sync' \in [Sync -> [count : Nat, susp : Proc \cup {None}]]
    <3>1. sync \in [Sync -> [count : Nat, susp : Proc \cup {None}]]
      BY DEF Base, TypeOK
    <3>2. \/ sync' = [sync EXCEPT ![f.sync] = [sync[f.sync] EXCEPT !.susp = None]]
          \/ sync' = sync
      BY <1>2, <1>4 DEF EndBranch, Cleared
    <3>3. ASSUME f.sync \in Sync
          PROVE  [sync[f.sync] EXCEPT !.susp = None] \in [count : Nat, susp : Proc \cup {None}]
      BY <3>1, <3>3
    <3> QED
      BY <3>1, <3>2, <3>3
  <2>2. /\ status' = [status EXCEPT ![f.p] = "FINISHED"] /\ gone' = gone \cup {f.p}
        /\ stack' = Tail(stack)
        /\ UNCHANGED <<parent, dropped, ops, forkOf, doneBy, branches, anyJoin, dynVars, held,
                       fired, owed>>
    BY <1>2, <1>4 DEF EndBranch, Cleared
  <2> QED
    BY <1>1, <1>3, <2>1, <2>2 DEF Base, TypeOK, Phases, dynVars
<1>5. ASSUME NEW p \in Proc, End(p) PROVE Base'
  BY <1>1, <1>3, <1>5 DEF Base, TypeOK, Phases, End, syncVars, dynVars
<1> QED
  BY <1>4, <1>5

\* What resume() of process r does to the types, once the stack is known.
LEMMA ResumeTypes ==
  ASSUME Base, NEW r \in Proc, NEW below, Resume(r, below)
  PROVE  /\ status' \in [Proc -> {"none", "RUNNING", "WAITING", "FINISHED", "KILLED"}]
         /\ gone' \subseteq Proc /\ gone \subseteq gone' /\ owed' \subseteq Proc
         /\ stack' = below \/ stack' = <<Body(r)>> \o below
BY DEF Base, TypeOK, Resume

LEMMA BaseDone ==
  ASSUME Base, NEW p \in Proc, Done(p)
  PROVE  Base'
<1>1. /\ stack \in Seq(Frame) /\ stack # <<>> /\ phase \notin {"evaluate", "post"}
  BY DEF Base, TypeOK, Phases, Done
<1>2. PICK s \in Sync : s = forkOf[p]
  BY DEF Base, TypeOK, Done
<1>3. PICK f : f = [Body(p) EXCEPT !.at = "done", !.sync = s]
  OBVIOUS
<1>4. f \in Frame
  BY <1>3 DEF Body, Frame
<1>5. PICK r : r = sync[s].susp
  OBVIOUS
<1>6. /\ sync' = [sync EXCEPT ![s].count = CountDown(sync[s].count)]
      /\ \/ r # None /\ Resume(r, <<f>> \o Tail(stack))
         \/ stack' = <<f>> \o Tail(stack) /\ UNCHANGED <<status, gone, owed>>
  BY <1>2, <1>3, <1>5 DEF Done
<1>7. r \in Proc \cup {None} /\ sync' \in [Sync -> [count : Nat, susp : Proc \cup {None}]]
  <2>1. CountDown(sync[s].count) \in Nat /\ r \in Proc \cup {None}
    BY <1>5, JoinFields DEF Base, CountDown
  <2> QED
    BY <1>6, <2>1, JoinFields, JoinChange DEF Base, JoinRecord
<1>8. /\ stack' \in Seq(Frame) /\ gone' \subseteq Proc /\ gone \subseteq gone' /\ owed' \subseteq Proc
      /\ status' \in [Proc -> {"none", "RUNNING", "WAITING", "FINISHED", "KILLED"}]
  <2>1. CASE stack' = <<f>> \o Tail(stack) /\ UNCHANGED <<status, gone, owed>>
    BY <1>1, <1>4, <2>1, StackReplaces DEF Base, TypeOK
  <2>2. CASE r # None /\ Resume(r, <<f>> \o Tail(stack))
    <3>1. r \in Proc /\ Body(r) \in Frame
      BY <1>7, <2>2, FrameFields
    <3>2. /\ status' \in [Proc -> {"none", "RUNNING", "WAITING", "FINISHED", "KILLED"}]
          /\ gone' \subseteq Proc /\ gone \subseteq gone' /\ owed' \subseteq Proc
      BY <2>2, <3>1, ResumeTypes
    <3>3. stack' = <<f>> \o Tail(stack) \/ stack' = <<Body(r)>> \o (<<f>> \o Tail(stack))
      BY <2>2 DEF Resume
    <3>4. stack' \in Seq(Frame)
      BY <1>1, <1>4, <3>1, <3>3, StackReplaces, StackPushes
    <3> QED
      BY <3>2, <3>4
  <2> QED
    BY <1>6, <2>1, <2>2
<1> QED
  BY <1>1, <1>7, <1>8 DEF Base, TypeOK, Phases, Done, dynVars

LEMMA BaseResume ==
  ASSUME Base, ResumeTriggered \/ \E p \in Proc : ResumeHeld(p)
  PROVE  Base'
<1>1. stack = <<>> /\ phase \notin {"evaluate", "post"} /\ <<>> \in Seq(Frame)
  BY EmptySeq DEF ResumeTriggered, ResumeHeld
<1>2. ASSUME NEW r \in Proc, Resume(r, <<>>)
      PROVE  /\ stack' \in Seq(Frame) /\ gone' \subseteq Proc /\ gone \subseteq gone' /\ owed' \subseteq Proc
             /\ status' \in [Proc -> {"none", "RUNNING", "WAITING", "FINISHED", "KILLED"}]
  <2>1. /\ status' \in [Proc -> {"none", "RUNNING", "WAITING", "FINISHED", "KILLED"}]
        /\ gone' \subseteq Proc /\ gone \subseteq gone' /\ owed' \subseteq Proc
        /\ stack' = <<>> \/ stack' = <<Body(r)>> \o <<>>
    BY <1>2, ResumeTypes
  <2>2. stack' \in Seq(Frame)
    BY <1>1, <2>1, FrameFields, StackEnters
  <2> QED
    BY <2>1, <2>2
<1>3. CASE ResumeTriggered
  <2>1. pos \in 1 .. Len(triggered) /\ triggered \in Seq(Proc)
    BY <1>3, LenProperties DEF ResumeTriggered, Base, TypeOK
  <2>2. PICK r \in Proc : r = triggered[pos]
    BY <2>1, ElementOfSeq
  <2>3. Resume(r, <<>>)
    BY <1>3, <2>2 DEF ResumeTriggered
  <2> HIDE DEF Resume
  <2> QED
    BY <1>1, <1>2, <1>3, <2>3 DEF Base, TypeOK, Phases, ResumeTriggered, syncVars
<1>4. ASSUME NEW p \in Proc, ResumeHeld(p) PROVE Base'
  <2>1. Resume(p, <<>>)
    BY <1>4 DEF ResumeHeld
  <2> QED
    BY <1>1, <1>2, <1>4, <2>1 DEF Base, TypeOK, Phases, ResumeHeld, syncVars, dynVars
<1> QED
  BY <1>3, <1>4

LEMMA BaseEvaluate ==
  ASSUME Base, Evaluate
  PROVE  Base'
<1>1. /\ evaluated \in Seq(Proc) /\ evaluated # <<>> /\ suspended \in Seq(Proc)
      /\ post \in Seq(Proc) /\ triggered \in Seq(Proc)
      /\ phase = "evaluate" /\ stack = <<>>
  BY DEF Base, TypeOK, Phases, Evaluate
<1>2. PICK p \in Proc : p = Head(evaluated)
  BY <1>1, TakeHead
<1>3. Tail(evaluated) \in Seq(Proc) /\ Append(suspended, p) \in Seq(Proc)
      /\ Append(post, p) \in Seq(Proc) /\ Append(triggered, p) \in Seq(Proc)
  BY <1>1, TakeHead, AddLast
<1>4. PICK b \in BOOLEAN : b = Eval(p)
  <2>1. CompletedFork(p) \in BOOLEAN /\ (waitFor[p] \in fired) \in BOOLEAN
    BY DEF CompletedFork
  <2>2. Eval(p) \in BOOLEAN
    BY <2>1 DEF Eval
  <2> QED
    BY <2>2
<1>5. /\ status' \in [Proc -> {"none", "RUNNING", "WAITING", "FINISHED", "KILLED"}]
      /\ gone' \subseteq Proc /\ gone \subseteq gone' /\ owed' \subseteq Proc
      /\ trigger' \in [Proc -> BOOLEAN]
  BY <1>2, <1>4 DEF Evaluate, Base, TypeOK
<1>6. /\ suspended' \in Seq(Proc) /\ post' \in Seq(Proc) /\ triggered' \in Seq(Proc)
      /\ evaluated' \in Seq(Proc)
  BY <1>1, <1>2, <1>3 DEF Evaluate
<1>7. anyTriggered' \in BOOLEAN
  BY <1>2, <1>4 DEF Evaluate, Base, TypeOK
<1> QED
  BY <1>1, <1>5, <1>6, <1>7 DEF Base, TypeOK, Phases, Evaluate, syncVars

LEMMA BasePostUpdate ==
  ASSUME Base, PostUpdate
  PROVE  Base'
<1>1. /\ suspended \in Seq(Proc) /\ post \in Seq(Proc) /\ triggered \in Seq(Proc)
      /\ phase = "post" /\ stack = <<>> /\ evaluated = <<>> /\ pos \in 1 .. Len(post)
  BY LenProperties DEF Base, TypeOK, Phases, PostUpdate
<1>2. PICK p \in Proc : p = post[pos]
  BY <1>1, ElementOfSeq
<1>3. Append(suspended, p) \in Seq(Proc) /\ Append(triggered, p) \in Seq(Proc)
  BY <1>1, AddLast
<1>4. suspended' \in Seq(Proc) /\ triggered' \in Seq(Proc)
  BY <1>1, <1>2, <1>3 DEF PostUpdate
<1>5. fired' \subseteq Event
  BY DEF PostUpdate, Base, TypeOK
<1> QED
  BY <1>1, <1>4, <1>5 DEF Base, TypeOK, Phases, PostUpdate, procVars, syncVars

LEMMA BaseLoop ==
  ASSUME Base, BeginEvaluate \/ BeginPost \/ EndPost \/ BeginDynamic \/ EndDynamic
  PROVE  Base'
<1> USE EmptySeq
<1>1. CASE BeginEvaluate
  BY <1>1 DEF Base, TypeOK, Phases, BeginEvaluate, procVars, syncVars
<1>2. CASE BeginPost
  BY <1>2 DEF Base, TypeOK, Phases, BeginPost, procVars, syncVars
<1>3. CASE EndPost
  BY <1>3 DEF Base, TypeOK, Phases, EndPost, procVars, syncVars
<1>4. CASE BeginDynamic
  <2>0. anyTriggered' \in BOOLEAN
    BY <1>4, Zenon DEF BeginDynamic
  <2>1. TypeOK'
    BY <1>4, <2>0 DEF Base, TypeOK, BeginDynamic, procVars, syncVars
  <2>2. Phases'
    BY <1>4 DEF Base, Phases, BeginDynamic, procVars
  <2> QED
    BY <2>1, <2>2 DEF Base
<1>5. CASE EndDynamic
  BY <1>5 DEF Base, TypeOK, Phases, EndDynamic, procVars, syncVars
<1> QED
  BY <1>1, <1>2, <1>3, <1>4, <1>5

LEMMA BaseStutter ==
  ASSUME Base, UNCHANGED vars
  PROVE  Base'
BY DEF Base, TypeOK, Phases, vars, procVars, syncVars, dynVars

LEMMA BaseStep ==
  ASSUME Base, [Next]_vars
  PROVE  Base'
<1>1. ASSUME NEW p \in Proc, Statement(p) PROVE Base'
  BY <1>1, BaseStatement, BaseAwaitDynamic, BaseFork DEF Statement
<1> QED
  BY <1>1, BaseDone, BaseEnds, BaseStartBranch, BaseJoin, BaseLoop, BaseEvaluate,
     BasePostUpdate, BaseResume, BaseStutter DEF Next

LEMMA BaseInit ==
  ASSUME Init
  PROVE  Base
<1>1. 1 \in Proc /\ Body(1) \in Frame
  BY Numbers, FrameFields DEF Proc
<1>2. stack \in Seq(Frame)
  <2>1. PICK f \in Frame : f = Body(1)
    BY <1>1
  <2>2. <<f>> \in Seq(Frame)
    BY <2>1
  <2> QED
    BY <2>1, <2>2 DEF Init
<1>3. suspended \in Seq(Proc) /\ evaluated \in Seq(Proc) /\ post \in Seq(Proc) /\ triggered \in Seq(Proc)
  BY EmptySeq DEF Init
<1>4. sync \in [Sync -> [count : Nat, susp : Proc \cup {None}]]
  BY DEF Init
<1>5. /\ status \in [Proc -> {"none", "RUNNING", "WAITING", "FINISHED", "KILLED"}]
      /\ parent \in [Proc -> Proc \cup {None}] /\ forkOf \in [Proc -> Sync \cup {None}]
      /\ branches \in [Sync -> SUBSET Proc]
      /\ trigger \in [Proc -> BOOLEAN] /\ waitFor \in [Proc -> Waitable \cup {"forever"}]
      /\ destructive \in [Proc -> BOOLEAN] /\ ops \in [Proc -> Nat]
  BY DEF Init, Waitable
<1>7. anyTriggered \in BOOLEAN
  BY Zenon DEF Init
<1>8. /\ gone \subseteq Proc /\ dropped \subseteq gone /\ held \subseteq Proc
      /\ owed \subseteq Proc /\ doneBy \subseteq Proc /\ anyJoin \subseteq Sync /\ fired \subseteq Event
  BY DEF Init
<1>6. TypeOK
  <2>1. pos = 1 /\ phase = "initial"
    BY DEF Init
  <2> QED
    BY <1>2, <1>3, <1>4, <1>5, <1>7, <1>8, <2>1 DEF TypeOK
<1> QED
  BY <1>6 DEF Init, Base, Phases

\* Every variable keeps its type, and the queues of a phase of the loop are empty
\* outside it.
THEOREM TypeCorrect == Spec => []TypeOK
<1>1. Base => TypeOK
  BY DEF Base
<1> QED
  BY <1>1, BaseInit, BaseStep, PTL DEF Spec

(***************************************************************************)
(* How calls nest                                                          *)
(***************************************************************************)

\* Every call in progress belongs to a process.
LEMMA CallFields ==
  ASSUME Base
  PROVE  /\ Depth \in Nat
         /\ \A d \in 1 .. Depth : /\ Fr(d).p \in Proc /\ Fr(d).at \in {"body", "fork", "done"}
                                  /\ Fr(d).left \in Nat /\ Fr(d).sync \in Sync \cup {None}
<1>1. Depth \in Nat /\ \A d \in 1 .. Depth : Fr(d) \in Frame
  BY StackFrames DEF Base, TypeOK
<1> QED
  BY <1>1, FrameFields

\* What a step leaves alone that the nesting of calls depends on.
SameJoins ==
    /\ UNCHANGED <<forkOf, branches>>
    /\ \A s \in Sync : sync'[s].susp = sync[s].susp
SameCreated == Created' = Created

LEMMA CreationKeeps ==
  ASSUME Creation, SameJoins, SameCreated
  PROVE  Creation'
BY DEF Creation, SameJoins, SameCreated

LEMMA CallsKeeps ==
  ASSUME Base, Calls, SameJoins, SameCreated, Keeps
  PROVE  Calls'
<1>1. Creation'
  BY CreationKeeps DEF Calls
<1>2. Frames'
  BY CallFields DEF Calls, Frames, SameJoins, Keeps
<1>3. Nesting'
  <2> SUFFICES ASSUME NEW d \in 1 .. Depth', d < Depth'
               PROVE  /\ Fr(d)'.at = "fork" => forkOf'[Fr(d + 1)'.p] = Fr(d)'.sync
                      /\ Fr(d)'.at = "done" =>
                           /\ sync'[Fr(d)'.sync].susp = Fr(d + 1)'.p
                           /\ \A e \in 1 .. Depth' : e <= d =>
                                 Fr(e)'.at = "done" /\ Fr(d + 1)'.p < Fr(e)'.p
    BY DEF Nesting
  <2>1. d \in 1 .. Depth /\ d < Depth /\ Fr(d)' = Fr(d) /\ Fr(d + 1)' = Fr(d + 1)
    BY DEF Keeps
  <2> QED
    BY <2>1, CallFields DEF Calls, Frames, Nesting, SameJoins, Keeps
<1> QED
  BY <1>1, <1>2, <1>3 DEF Calls

LEMMA CallsPops ==
  ASSUME Base, Calls, SameJoins, SameCreated, NEW n, Pops(n)
  PROVE  Calls'
<1>1. Creation'
  BY CreationKeeps DEF Calls
<1>0. /\ n \in Nat \ {0} /\ Depth = n /\ Depth' = n - 1
      /\ \A d \in 1 .. n - 1 : Fr(d)' = Fr(d) /\ d \in 1 .. n /\ d # n
  BY DEF Pops
<1>2. Frames'
  BY <1>0, CallFields DEF Calls, Frames, SameJoins
<1>3. Nesting'
  <2> SUFFICES ASSUME NEW d \in 1 .. n - 1, d < n - 1
               PROVE  /\ Fr(d)'.at = "fork" => forkOf'[Fr(d + 1)'.p] = Fr(d)'.sync
                      /\ Fr(d)'.at = "done" =>
                           /\ sync'[Fr(d)'.sync].susp = Fr(d + 1)'.p
                           /\ \A e \in 1 .. n - 1 : e <= d =>
                                 Fr(e)'.at = "done" /\ Fr(d + 1)'.p < Fr(e)'.p
    BY <1>0 DEF Nesting
  <2>1. d \in 1 .. Depth /\ d < Depth /\ Fr(d)' = Fr(d) /\ Fr(d + 1)' = Fr(d + 1)
    BY <1>0
  <2>2. Fr(d).at = "done" => Fr(d).sync \in Sync
    BY <2>1, CallFields DEF Calls, Frames
  <2> QED
    BY <1>0, <2>1, <2>2 DEF Calls, Nesting, SameJoins
<1> QED
  BY <1>1, <1>2, <1>3 DEF Calls

\* A process is resumed by the loop, with no call in progress.
LEMMA CallsEnters ==
  ASSUME Base, Calls, SameJoins, SameCreated, NEW f, f.at = "body", Enters(f)
  PROVE  Calls'
<1>1. Creation'
  BY CreationKeeps DEF Calls
<1>2. Frames' /\ Nesting'
  BY DEF Frames, Nesting, Enters
<1> QED
  BY <1>1, <1>2 DEF Calls

\* The frame of a call that goes on elsewhere in its process.
LEMMA CallsReplaces ==
  ASSUME Base, Calls, SameJoins, SameCreated, NEW n, NEW f, Replaces(n, f), f.p = Fr(n).p,
         f.at = "done" => f.sync = forkOf[f.p] /\ f.sync # None,
         f.at = "fork" /\ f.sync # None =>
             f.sync \in Sync /\ branches[f.sync] = {} /\ f.left > 0
  PROVE  Calls'
<1>1. Creation'
  BY CreationKeeps DEF Calls
<1>0. /\ n \in Nat \ {0} /\ Depth = n /\ Depth' = n /\ Fr(n)' = f
      /\ \A d \in 1 .. n - 1 : Fr(d)' = Fr(d) /\ d \in 1 .. n /\ d # n
      /\ n \in 1 .. n /\ \A d \in 1 .. n : d = n \/ d \in 1 .. n - 1
  BY DEF Replaces
<1>2. Frames'
  <2> SUFFICES ASSUME NEW d \in 1 .. n
               PROVE /\ Fr(d)'.at = "body" => d = n
                     /\ Fr(d)'.at = "done" => Fr(d)'.sync = forkOf'[Fr(d)'.p] /\ Fr(d)'.sync # None
                     /\ Fr(d)'.at = "fork" /\ Fr(d)'.sync # None =>
                        /\ sync'[Fr(d)'.sync].susp = None
                        /\ branches'[Fr(d)'.sync] = {} => d = n /\ Fr(d)'.left > 0
                        /\ \A p \in Proc : forkOf'[p] = Fr(d)'.sync => Fr(d)'.p < p
                        /\ \A e \in 1 .. n : Fr(e)'.at = "fork" /\ Fr(e)'.sync = Fr(d)'.sync => e = d
    BY <1>0 DEF Frames
  <2>1. ASSUME NEW e \in 1 .. n - 1, Fr(e).at = "fork", Fr(e).sync # None
        PROVE  Fr(e).sync \in Sync /\ branches[Fr(e).sync] # {}
    BY <1>0, <2>1, CallFields DEF Calls, Frames
  <2>2. CASE d = n
    BY <1>0, <2>1, <2>2 DEF Calls, Frames, Creation, SameJoins
  <2>3. CASE d \in 1 .. n - 1
    BY <1>0, <2>1, <2>3, CallFields DEF Calls, Frames, SameJoins
  <2> QED
    BY <1>0, <2>2, <2>3
<1>3. Nesting'
  <2> SUFFICES ASSUME NEW d \in 1 .. n, d < n
               PROVE  /\ Fr(d)'.at = "fork" => forkOf'[Fr(d + 1)'.p] = Fr(d)'.sync
                      /\ Fr(d)'.at = "done" =>
                           /\ sync'[Fr(d)'.sync].susp = Fr(d + 1)'.p
                           /\ \A e \in 1 .. n : e <= d =>
                                 Fr(e)'.at = "done" /\ Fr(d + 1)'.p < Fr(e)'.p
    BY <1>0 DEF Nesting
  <2>1. d \in 1 .. Depth /\ d < Depth /\ Fr(d)' = Fr(d) /\ Fr(d + 1)'.p = Fr(d + 1).p
        /\ \A e \in 1 .. n : e <= d => Fr(e)' = Fr(e)
    BY <1>0
  <2>2. Fr(d).at = "done" => Fr(d).sync \in Sync
    BY <2>1, CallFields DEF Calls, Frames
  <2> QED
    BY <1>0, <2>1, <2>2 DEF Calls, Nesting, SameJoins
<1> QED
  BY <1>1, <1>2, <1>3 DEF Calls

\* A branch is called inside the fork.
LEMMA CallsBranch ==
  ASSUME Base, Calls, NEW n, NEW f, NEW q \in Proc, Pushes(n, f, Body(q)),
         Fr(n).at = "fork", f.p = Fr(n).p, f.at = "fork", f.sync = Fr(n).sync, f.left \in Nat,
         \A d \in 1 .. n : Fr(d).p \in Created,
         IsNewProc(q), Created' = Created \cup {q},
         forkOf' = [forkOf EXCEPT ![q] = f.sync],
         branches' = IF f.sync = None THEN branches ELSE [branches EXCEPT ![f.sync] = @ \cup {q}],
         sync' = sync
  PROVE  Calls'
<1>0. /\ n \in Nat \ {0} /\ Depth = n /\ Depth' = n + 1 /\ Fr(n)' = f /\ Fr(n + 1)' = Body(q)
      /\ \A d \in 1 .. n - 1 : Fr(d)' = Fr(d) /\ d \in 1 .. n /\ d # n
      /\ n \in 1 .. n /\ \A d \in 1 .. n + 1 : d = n + 1 \/ d = n \/ d \in 1 .. n - 1
  BY DEF Pushes
<1>1. /\ Body(q).p = q /\ Body(q).at = "body"
      /\ \A d \in 1 .. n : /\ Fr(d).p \in Proc /\ Fr(d).at \in {"body", "fork", "done"}
                           /\ Fr(d).left \in Nat /\ Fr(d).sync \in Sync \cup {None}
      /\ f.sync \in Sync \cup {None}
  BY <1>0, CallFields, FrameFields
<1>2. /\ q \notin Created /\ forkOf[q] = None
      /\ \A p \in Created : p \in Proc /\ p < q
  BY Numbers DEF IsNewProc, Calls, Creation, Created
<1>3. /\ forkOf \in [Proc -> Sync \cup {None}] /\ branches \in [Sync -> SUBSET Proc]
      /\ forkOf'[q] = f.sync /\ \A p \in Proc : p # q => forkOf'[p] = forkOf[p]
  BY DEF Base, TypeOK
<1>4. /\ \A p \in Proc : \A s \in Sync : p \in branches'[s] <=> (p \in branches[s] \/ (p = q /\ s = f.sync))
      /\ \A s \in Sync : branches[s] # {} => branches'[s] # {}
      /\ f.sync \in Sync => branches'[f.sync] # {}
  <2>1. CASE f.sync = None
    BY <1>1, <1>3, <2>1, Numbers
  <2>2. CASE f.sync # None
    <3>1. f.sync \in Sync /\ branches'[f.sync] = branches[f.sync] \cup {q}
          /\ \A s \in Sync : s # f.sync => branches'[s] = branches[s]
      BY <1>1, <1>3, <2>2
    <3> QED
      BY <3>1
  <2> QED
    BY <2>1, <2>2
<1>5. f.sync # None => sync[f.sync].susp = None
  BY <1>0 DEF Calls, Frames
<1>6. Creation'
  <2>1. \A p \in Created' : \A r \in Proc : r < p => r \in Created'
    BY <1>2, Numbers DEF IsNewProc, Calls, Creation
  <2>2. \A p \in Proc : forkOf'[p] # None => p \in Created'
    BY <1>3 DEF Calls, Creation
  <2>3. \A p \in Proc : \A s \in Sync : p \in branches'[s] <=> forkOf'[p] = s
    BY <1>2, <1>3, <1>4, Numbers DEF Calls, Creation
  <2>4. \A s \in Sync : branches'[s] = {} => sync'[s].susp = None
    BY <1>4 DEF Calls, Creation
  <2>5. \A p \in Proc : \A s \in Sync : forkOf'[p] = s /\ sync'[s].susp # None => sync'[s].susp < p
    BY <1>3, <1>5, Numbers DEF Calls, Creation
  <2> QED
    BY <2>1, <2>2, <2>3, <2>4, <2>5 DEF Creation
<1>7. Frames'
  <2> SUFFICES ASSUME NEW d \in 1 .. n + 1
               PROVE /\ Fr(d)'.at = "body" => d = n + 1
                     /\ Fr(d)'.at = "done" => Fr(d)'.sync = forkOf'[Fr(d)'.p] /\ Fr(d)'.sync # None
                     /\ Fr(d)'.at = "fork" /\ Fr(d)'.sync # None =>
                        /\ sync'[Fr(d)'.sync].susp = None
                        /\ branches'[Fr(d)'.sync] = {} => d = n + 1 /\ Fr(d)'.left > 0
                        /\ \A p \in Proc : forkOf'[p] = Fr(d)'.sync => Fr(d)'.p < p
                        /\ \A e \in 1 .. n + 1 : Fr(e)'.at = "fork" /\ Fr(e)'.sync = Fr(d)'.sync => e = d
    BY <1>0 DEF Frames
  <2>1. \A e \in 1 .. n + 1 : Fr(e)'.at = "fork" =>
            e \in 1 .. n /\ Fr(e).at = "fork" /\ Fr(e)'.sync = Fr(e).sync /\ Fr(e)'.p = Fr(e).p
    BY <1>0, <1>1
  <2>2. CASE d = n + 1
    BY <1>0, <1>1, <2>2
  <2>3. CASE d \in 1 .. n - 1 /\ Fr(d)'.at # "fork"
    BY <1>0, <1>1, <1>2, <1>3, <2>3 DEF Calls, Frames
  <2>4. CASE Fr(d)'.at = "fork" /\ Fr(d)'.sync # None
    <3>1. d \in 1 .. n /\ Fr(d).at = "fork" /\ Fr(d)'.sync = Fr(d).sync /\ Fr(d)'.p = Fr(d).p
          /\ Fr(d).sync \in Sync /\ Fr(d).p < q
      BY <1>1, <1>2, <2>1, <2>4
    <3>2. sync'[Fr(d)'.sync].susp = None
      BY <1>0, <3>1, <2>4 DEF Calls, Frames
    <3>3. branches'[Fr(d)'.sync] # {}
      BY <1>0, <1>4, <3>1, <2>4 DEF Calls, Frames
    <3>4. \A p \in Proc : forkOf'[p] = Fr(d)'.sync => Fr(d)'.p < p
      BY <1>0, <1>3, <3>1, <2>4 DEF Calls, Frames
    <3>5. \A e \in 1 .. n + 1 : Fr(e)'.at = "fork" /\ Fr(e)'.sync = Fr(d)'.sync => e = d
      BY <1>0, <2>1, <3>1, <2>4 DEF Calls, Frames
    <3> QED
      BY <2>4, <3>2, <3>3, <3>4, <3>5
  <2> QED
    BY <1>0, <2>2, <2>3, <2>4
<1>8. Nesting'
  <2> SUFFICES ASSUME NEW d \in 1 .. n + 1, d < n + 1
               PROVE  /\ Fr(d)'.at = "fork" => forkOf'[Fr(d + 1)'.p] = Fr(d)'.sync
                      /\ Fr(d)'.at = "done" =>
                           /\ sync'[Fr(d)'.sync].susp = Fr(d + 1)'.p
                           /\ \A e \in 1 .. n + 1 : e <= d =>
                                 Fr(e)'.at = "done" /\ Fr(d + 1)'.p < Fr(e)'.p
    BY <1>0 DEF Nesting
  <2>1. CASE d = n
    BY <1>0, <1>1, <1>3, <2>1
  <2>2. CASE d < n
    <3>1. d \in 1 .. n - 1 /\ d + 1 \in 1 .. n /\ Fr(d)' = Fr(d) /\ Fr(d + 1)'.p = Fr(d + 1).p
          /\ \A e \in 1 .. n + 1 : e <= d => e \in 1 .. n /\ Fr(e)' = Fr(e)
      BY <1>0, <2>2
    <3>2. Fr(d + 1).p \in Proc /\ Fr(d + 1).p # q
      BY <1>1, <1>2, <3>1
    <3> QED
      BY <1>0, <1>3, <3>1, <3>2 DEF Calls, Nesting
  <2> QED
    BY <1>0, <2>1, <2>2
<1> QED
  BY <1>6, <1>7, <1>8 DEF Calls

\* What a join of fork s is changed to.
JoinSet(s, r) == sync'[s].susp = r /\ \A t \in Sync : t # s => sync'[t].susp = sync[t].susp

\* The fork ends and its process waits in the join.
LEMMA CallsJoin ==
  ASSUME Base, Calls, NEW n, Pops(n), NEW s \in Sync, NEW r \in Proc,
         Fr(n).at = "fork", Fr(n).sync = s, Fr(n).left = 0, Fr(n).p = r, JoinSet(s, r),
         SameCreated, UNCHANGED <<forkOf, branches>>
  PROVE  Calls'
<1>0. /\ n \in Nat \ {0} /\ Depth = n /\ Depth' = n - 1
      /\ \A d \in 1 .. n - 1 : Fr(d)' = Fr(d) /\ d \in 1 .. n /\ d # n
      /\ n \in 1 .. n
  BY DEF Pops
<1>1. /\ sync[s].susp = None /\ branches[s] # {} /\ s # None
      /\ \A p \in Proc : forkOf[p] = s => r < p
      /\ \A e \in 1 .. n - 1 : Fr(e).at = "fork" => Fr(e).sync # s
  BY <1>0, Numbers DEF Calls, Frames
<1>2. Creation'
  BY <1>1 DEF Calls, Creation, SameCreated, JoinSet
<1>3. Frames'
  BY <1>0, <1>1, CallFields DEF Calls, Frames, JoinSet
<1>4. Nesting'
  <2> SUFFICES ASSUME NEW d \in 1 .. n - 1, d < n - 1
               PROVE  /\ Fr(d)'.at = "fork" => forkOf'[Fr(d + 1)'.p] = Fr(d)'.sync
                      /\ Fr(d)'.at = "done" =>
                           /\ sync'[Fr(d)'.sync].susp = Fr(d + 1)'.p
                           /\ \A e \in 1 .. n - 1 : e <= d =>
                                 Fr(e)'.at = "done" /\ Fr(d + 1)'.p < Fr(e)'.p
    BY <1>0 DEF Nesting
  <2>1. d \in 1 .. Depth /\ d < Depth /\ Fr(d)' = Fr(d) /\ Fr(d + 1)' = Fr(d + 1)
        /\ d + 1 \in 1 .. Depth
    BY <1>0
  <2>2. Fr(d).at = "done" => Fr(d).sync \in Sync /\ sync[Fr(d).sync].susp # None
    BY <2>1, CallFields, Numbers DEF Calls, Frames, Nesting
  <2> QED
    BY <1>0, <1>1, <2>1, <2>2 DEF Calls, Nesting, JoinSet
<1> QED
  BY <1>2, <1>3, <1>4 DEF Calls

\* The calls around a branch of a joined fork that has left the fork: if a process
\* waits in the join, they are all calls of done(), by processes forked later.
LEMMA AroundDone ==
  ASSUME Base, Calls, NEW n, n = Depth, n \in Nat \ {0}, NEW s \in Sync, forkOf[Fr(n).p] = s,
         sync[s].susp # None
  PROVE  \A e \in 1 .. n : e < n => Fr(e).at = "done" /\ Fr(n).p < Fr(e).p
<1>1. CASE n = 1
  BY <1>1
<1>2. CASE n > 1
  <2>1. n - 1 \in 1 .. Depth /\ n - 1 < Depth /\ (n - 1) + 1 = n
    BY <1>2
  <2>2. PICK m : m = n - 1
    OBVIOUS
  <2>3. m \in 1 .. Depth /\ m < Depth /\ m + 1 = n
    BY <2>1, <2>2
  <2>4. Fr(m).at # "body"
    BY <2>3 DEF Calls, Frames
  <2>5. Fr(m).at # "fork"
    BY <2>3, Numbers DEF Calls, Frames, Nesting
  <2>6. Fr(m).at = "done"
    BY <2>3, <2>4, <2>5, CallFields
  <2>7. \A e \in 1 .. Depth : e <= m => Fr(e).at = "done" /\ Fr(n).p < Fr(e).p
    BY <2>3, <2>6 DEF Calls, Nesting
  <2> QED
    BY <2>3, <2>7
<1> QED
  BY <1>1, <1>2

\* done() resumes the process that joined.
LEMMA CallsDone ==
  ASSUME Base, Calls, SameJoins, SameCreated, NEW n, NEW f, NEW r \in Proc, NEW s \in Sync,
         Pushes(n, f, Body(r)), f.p = Fr(n).p, f.at = "done", f.sync = s, forkOf[f.p] = s,
         sync[s].susp = r
  PROVE  Calls'
<1>0. /\ n \in Nat \ {0} /\ Depth = n /\ Depth' = n + 1 /\ Fr(n)' = f /\ Fr(n + 1)' = Body(r)
      /\ \A d \in 1 .. n - 1 : Fr(d)' = Fr(d) /\ d \in 1 .. n /\ d # n
      /\ n \in 1 .. n /\ \A d \in 1 .. n + 1 : d = n + 1 \/ d = n \/ d \in 1 .. n - 1
  BY DEF Pushes
<1>1. /\ Body(r).p = r /\ Body(r).at = "body" /\ r # None /\ s # None
      /\ \A d \in 1 .. n : /\ Fr(d).p \in Proc /\ Fr(d).at \in {"body", "fork", "done"}
                           /\ Fr(d).left \in Nat /\ Fr(d).sync \in Sync \cup {None}
  BY <1>0, CallFields, FrameFields, Numbers
<1>2. r < f.p
  BY <1>0, <1>1 DEF Calls, Creation
<1>3. \A e \in 1 .. n : e < n => Fr(e).at = "done" /\ f.p < Fr(e).p
  BY <1>0, <1>1, AroundDone
<1>4. Creation'
  BY CreationKeeps DEF Calls
<1>5. Frames'
  <2> SUFFICES ASSUME NEW d \in 1 .. n + 1
               PROVE /\ Fr(d)'.at = "body" => d = n + 1
                     /\ Fr(d)'.at = "done" => Fr(d)'.sync = forkOf'[Fr(d)'.p] /\ Fr(d)'.sync # None
                     /\ Fr(d)'.at # "fork"
    BY <1>0 DEF Frames
  <2>1. CASE d = n + 1
    BY <1>0, <1>1, <2>1
  <2>2. CASE d = n
    BY <1>0, <1>1, <2>2 DEF SameJoins
  <2>3. CASE d \in 1 .. n - 1
    BY <1>0, <1>3, <2>3 DEF Calls, Frames, SameJoins
  <2> QED
    BY <1>0, <2>1, <2>2, <2>3
<1>6. Nesting'
  <2> SUFFICES ASSUME NEW d \in 1 .. n + 1, d < n + 1
               PROVE  /\ Fr(d)'.at = "fork" => forkOf'[Fr(d + 1)'.p] = Fr(d)'.sync
                      /\ Fr(d)'.at = "done" =>
                           /\ sync'[Fr(d)'.sync].susp = Fr(d + 1)'.p
                           /\ \A e \in 1 .. n + 1 : e <= d =>
                                 Fr(e)'.at = "done" /\ Fr(d + 1)'.p < Fr(e)'.p
    BY <1>0 DEF Nesting
  <2>1. CASE d = n
    <3>1. \A e \in 1 .. n + 1 : e <= n => Fr(e)'.at = "done" /\ r < Fr(e)'.p
      BY <1>0, <1>1, <1>2, <1>3, Numbers
    <3> QED
      BY <1>0, <1>1, <2>1, <3>1 DEF SameJoins
  <2>2. CASE d < n
    <3>1. d \in 1 .. n - 1 /\ d + 1 \in 1 .. n /\ Fr(d)' = Fr(d) /\ Fr(d + 1)'.p = Fr(d + 1).p
          /\ \A e \in 1 .. n + 1 : e <= d => e \in 1 .. n /\ Fr(e)' = Fr(e)
      BY <1>0, <2>2
    <3>2. Fr(d).at = "done" => Fr(d).sync \in Sync
      BY <1>0, <1>1, <3>1 DEF Calls, Frames
    <3> QED
      BY <1>0, <3>1, <3>2 DEF Calls, Nesting, SameJoins
  <2> QED
    BY <1>0, <2>1, <2>2
<1> QED
  BY <1>4, <1>5, <1>6 DEF Calls

\* done() returns: nobody else is in done() of the fork on behalf of the process that
\* joined, so that clearing the handle loses nothing.
LEMMA CallsReturn ==
  ASSUME Base, Calls, SameCreated, UNCHANGED <<forkOf, branches>>, NEW n, Pops(n),
         NEW s \in Sync, Fr(n).at = "done", Fr(n).sync = s, JoinSet(s, None)
  PROVE  Calls'
<1>0. /\ n \in Nat \ {0} /\ Depth = n /\ Depth' = n - 1
      /\ \A d \in 1 .. n - 1 : Fr(d)' = Fr(d) /\ d \in 1 .. n /\ d # n /\ d < n
      /\ n \in 1 .. n
  BY DEF Pops
<1>1. forkOf[Fr(n).p] = s /\ Fr(n).p \in Proc
  BY <1>0, CallFields DEF Calls, Frames
<1>2. Creation'
  BY DEF Calls, Creation, SameCreated, JoinSet
<1>3. Frames'
  BY <1>0, CallFields DEF Calls, Frames, JoinSet
<1>4. Nesting'
  <2> SUFFICES ASSUME NEW d \in 1 .. n - 1, d < n - 1
               PROVE  /\ Fr(d)'.at = "fork" => forkOf'[Fr(d + 1)'.p] = Fr(d)'.sync
                      /\ Fr(d)'.at = "done" =>
                           /\ sync'[Fr(d)'.sync].susp = Fr(d + 1)'.p
                           /\ \A e \in 1 .. n - 1 : e <= d =>
                                 Fr(e)'.at = "done" /\ Fr(d + 1)'.p < Fr(e)'.p
    BY <1>0 DEF Nesting
  <2>1. d \in 1 .. Depth /\ d < Depth /\ Fr(d)' = Fr(d) /\ Fr(d + 1)' = Fr(d + 1)
        /\ d + 1 \in 1 .. n - 1
    BY <1>0
  <2>2. CASE Fr(d).at # "done"
    BY <2>1, <2>2 DEF Calls, Nesting
  <2>3. CASE Fr(d).at = "done"
    <3>1. Fr(d).sync \in Sync /\ sync[Fr(d).sync].susp = Fr(d + 1).p /\ Fr(d + 1).p \in Proc
      BY <1>0, <2>1, <2>3, CallFields DEF Calls, Frames, Nesting
    <3>2. ASSUME Fr(d).sync = s PROVE FALSE
      <4>1. sync[s].susp # None /\ sync[s].susp < Fr(n).p
        BY <1>1, <3>1, <3>2, Numbers DEF Calls, Creation
      <4>2. Fr(n).p < Fr(d + 1).p
        <5>1. \A e \in 1 .. n : e < n => Fr(n).p < Fr(e).p
          BY <1>0, <1>1, <4>1, AroundDone
        <5> QED
          BY <1>0, <2>1, <5>1
      <4> QED
        BY <1>1, <3>1, <3>2, <4>1, <4>2, Numbers
    <3> QED
      BY <1>0, <2>1, <3>1, <3>2 DEF Calls, Nesting, JoinSet
  <2> QED
    BY <2>2, <2>3
<1> QED
  BY <1>2, <1>3, <1>4 DEF Calls

(***************************************************************************)
(* Where processes are                                                     *)
(***************************************************************************)

LEMMA KeysDiffer ==
  /\ InCall # InHeld /\ InCall # InSuspended /\ InCall # InEvaluated /\ InCall # InPost
  /\ InCall # InTriggered /\ InCall # Nowhere /\ InHeld # InSuspended /\ InHeld # InEvaluated
  /\ InHeld # InPost /\ InHeld # InTriggered /\ InHeld # Nowhere /\ InSuspended # InEvaluated
  /\ InSuspended # InPost /\ InSuspended # InTriggered /\ InSuspended # Nowhere
  /\ InEvaluated # InPost /\ InEvaluated # InTriggered /\ InEvaluated # Nowhere
  /\ InPost # InTriggered /\ InPost # Nowhere /\ InTriggered # Nowhere
  /\ \A s \in Sync : /\ InJoin(s) \notin {InCall, InHeld, InSuspended, InEvaluated, InPost,
                                           InTriggered, Nowhere}
                     /\ \A t \in Sync : InJoin(s) = InJoin(t) => s = t
  /\ \A s \in Sync : InJoin(s) \in Key
  /\ {InCall, InHeld, InSuspended, InEvaluated, InPost, InTriggered, Nowhere} \subseteq Key
BY DEF InCall, InHeld, InSuspended, InEvaluated, InPost, InTriggered, InJoin, Nowhere, Key

\* A step leaves process q where it is.
Same(q) ==
    /\ OnStack(q)' <=> OnStack(q)
    /\ q \in held' <=> q \in held
    /\ Holds(suspended, q)' <=> Holds(suspended, q)
    /\ Holds(evaluated, q)' <=> Holds(evaluated, q)
    /\ LeftFrom(post, PostFrom, q)' <=> LeftFrom(post, PostFrom, q)
    /\ LeftFrom(triggered, TriggeredFrom, q)' <=> LeftFrom(triggered, TriggeredFrom, q)
    /\ \A s \in Sync : Joins(q, s)' <=> Joins(q, s)
    /\ Alive(q)' <=> Alive(q)

KeepsForever ==
    \A p \in Proc : waitFor'[p] = "forever" => p \in gone' \/ waitFor[p] = "forever"

LEMMA SameIsAt ==
  ASSUME NEW q \in Proc, Same(q), NEW k, IsAt(q, k)
  PROVE  IsAt(q, k)'
BY DEF Same, IsAt

\* One process moves.
LEMMA HeldMoves ==
  ASSUME Held, AllDistinct', NEW p \in Proc, NEW k \in Key, IsAt(p, k)',
         \A q \in Proc : q # p => Same(q),
         KeepsForever, gone \subseteq gone', gone' \subseteq gone \cup Created,
         Created \subseteq Created'
  PROVE  Held'
<1>1. \A q \in Proc : \E l \in Key : IsAt(q, l)'
  <2> TAKE q \in Proc
  <2>1. CASE q = p
    BY <2>1
  <2>2. CASE q # p
    <3>1. PICK l \in Key : IsAt(q, l)
      BY DEF Held
    <3>2. IsAt(q, l)'
      BY <2>2, <3>1, SameIsAt
    <3> QED
      BY <3>2
  <2> QED
    BY <2>1, <2>2
<1> QED
  BY <1>1 DEF Held, KeepsForever

LEMMA HeldStays ==
  ASSUME Held, AllDistinct', \A q \in Proc : Same(q), KeepsForever, gone' = gone, SameCreated
  PROVE  Held'
<1>1. \A q \in Proc : \E l \in Key : IsAt(q, l)'
  <2> TAKE q \in Proc
  <2>1. PICK l \in Key : IsAt(q, l)
    BY DEF Held
  <2>2. IsAt(q, l)'
    BY <2>1, SameIsAt
  <2> QED
    BY <2>2
<1> QED
  BY <1>1 DEF Held, KeepsForever, SameCreated

\* A process is nowhere but at the place it is known to be at.
LEMMA HeldAt ==
  ASSUME Held, NEW p \in Proc
  PROVE  /\ OnStack(p) => IsAt(p, InCall)
         /\ p \in held => IsAt(p, InHeld)
         /\ Holds(suspended, p) => IsAt(p, InSuspended)
         /\ Holds(evaluated, p) => IsAt(p, InEvaluated)
         /\ LeftFrom(post, PostFrom, p) => IsAt(p, InPost)
         /\ LeftFrom(triggered, TriggeredFrom, p) => IsAt(p, InTriggered)
         /\ \A s \in Sync : Joins(p, s) => IsAt(p, InJoin(s))
         /\ ~Alive(p) => IsAt(p, Nowhere)
<1>1. PICK k \in Key : IsAt(p, k)
  BY DEF Held
<1> QED
  BY <1>1 DEF IsAt

\* The processes on the stack, after each kind of step.
StackDistinct == \A d, e \in 1 .. Depth : Fr(d).p = Fr(e).p => d = e

LEMMA WhoKeeps ==
  ASSUME StackDistinct, Keeps
  PROVE  StackDistinct' /\ (\A q : OnStack(q)' <=> OnStack(q)) /\ (\A s : DoneOn(s)' <=> DoneOn(s))
BY DEF Keeps, StackDistinct, OnStack, DoneOn

LEMMA WhoPops ==
  ASSUME StackDistinct, NEW n, Pops(n)
  PROVE  /\ StackDistinct' /\ OnStack(Fr(n).p)
         /\ \A q : OnStack(q)' <=> OnStack(q) /\ q # Fr(n).p
         /\ Fr(n).at # "done" => \A s : DoneOn(s)' <=> DoneOn(s)
         /\ \A s : Fr(n).sync # s => (DoneOn(s)' <=> DoneOn(s))
<1>0. /\ n \in Nat \ {0} /\ Depth = n /\ Depth' = n - 1
      /\ \A d \in 1 .. n - 1 : Fr(d)' = Fr(d) /\ d \in 1 .. n /\ d # n
      /\ n \in 1 .. n /\ \A d \in 1 .. n : d = n \/ d \in 1 .. n - 1
  BY DEF Pops
<1>1. StackDistinct' /\ OnStack(Fr(n).p)
  BY <1>0 DEF StackDistinct, OnStack
<1>2. \A q : OnStack(q)' <=> OnStack(q) /\ q # Fr(n).p
  BY <1>0 DEF StackDistinct, OnStack
<1>3. ASSUME NEW s, Fr(n).at # "done" \/ Fr(n).sync # s PROVE DoneOn(s)' <=> DoneOn(s)
  BY <1>0, <1>3 DEF DoneOn
<1> QED
  BY <1>1, <1>2, <1>3

LEMMA WhoReplaces ==
  ASSUME StackDistinct, NEW n, NEW f, Replaces(n, f), f.p = Fr(n).p, Fr(n).at # "done"
  PROVE  /\ StackDistinct' /\ \A q : OnStack(q)' <=> OnStack(q)
         /\ \A s : DoneOn(s)' <=> (DoneOn(s) \/ (f.at = "done" /\ f.sync = s))
<1>0. /\ n \in Nat \ {0} /\ Depth = n /\ Depth' = n /\ Fr(n)' = f
      /\ \A d \in 1 .. n - 1 : Fr(d)' = Fr(d) /\ d \in 1 .. n /\ d # n
      /\ n \in 1 .. n /\ \A d \in 1 .. n : d = n \/ d \in 1 .. n - 1
  BY DEF Replaces
<1>1. \A d \in 1 .. n : Fr(d)'.p = Fr(d).p
  BY <1>0
<1>2. StackDistinct' /\ \A q : OnStack(q)' <=> OnStack(q)
  BY <1>0, <1>1 DEF StackDistinct, OnStack
<1>3. \A s : DoneOn(s)' <=> (DoneOn(s) \/ (f.at = "done" /\ f.sync = s))
  BY <1>0 DEF DoneOn
<1> QED
  BY <1>2, <1>3

LEMMA WhoPushes ==
  ASSUME StackDistinct, NEW n, NEW f, NEW g, Pushes(n, f, g), f.p = Fr(n).p, Fr(n).at # "done",
         g.at # "done", ~OnStack(g.p)
  PROVE  /\ StackDistinct' /\ \A q : OnStack(q)' <=> (OnStack(q) \/ q = g.p)
         /\ \A s : DoneOn(s)' <=> (DoneOn(s) \/ (f.at = "done" /\ f.sync = s))
<1>0. /\ n \in Nat \ {0} /\ Depth = n /\ Depth' = n + 1 /\ Fr(n)' = f /\ Fr(n + 1)' = g
      /\ \A d \in 1 .. n - 1 : Fr(d)' = Fr(d) /\ d \in 1 .. n + 1 /\ d \in 1 .. n /\ d # n
      /\ n \in 1 .. n /\ n \in 1 .. n + 1 /\ n + 1 \in 1 .. n + 1
      /\ \A d \in 1 .. n + 1 : d = n + 1 \/ d = n \/ d \in 1 .. n - 1
      /\ \A d \in 1 .. n : d = n \/ d \in 1 .. n - 1
  BY DEF Pushes
<1>1. \A d \in 1 .. n : Fr(d)'.p = Fr(d).p /\ Fr(d).p # g.p /\ d \in 1 .. n + 1
  BY <1>0 DEF OnStack
<1>2. StackDistinct'
  BY <1>0, <1>1 DEF StackDistinct
<1>3. \A q : OnStack(q)' <=> (OnStack(q) \/ q = g.p)
  BY <1>0, <1>1 DEF OnStack
<1>4. \A s : DoneOn(s)' <=> (DoneOn(s) \/ (f.at = "done" /\ f.sync = s))
  BY <1>0 DEF DoneOn
<1> QED
  BY <1>2, <1>3, <1>4

LEMMA WhoEnters ==
  ASSUME NEW f, Enters(f), f.at # "done"
  PROVE  /\ StackDistinct' /\ \A q : OnStack(q)' <=> q = f.p
         /\ \A q : ~OnStack(q)
         /\ \A s : DoneOn(s)' <=> DoneOn(s)
<1>1. Depth = 0 /\ Depth' = 1 /\ Fr(1)' = f /\ 1 \in 1 .. 1 /\ \A d \in 1 .. 1 : d = 1
  BY DEF Enters
<1>2. StackDistinct' /\ \A q : OnStack(q)' <=> q = f.p
  BY <1>1 DEF StackDistinct, OnStack
<1>3. (\A q : ~OnStack(q)) /\ \A s : DoneOn(s)' <=> DoneOn(s)
  BY <1>1 DEF OnStack, DoneOn
<1> QED
  BY <1>2, <1>3

\* What is left of a queue that is iterated over.
LEMMA LeftAll ==
  ASSUME NEW S, NEW q \in Seq(S)
  PROVE  \A p : LeftFrom(q, 1, p) <=> Holds(q, p)
<1>1. Len(q) \in Nat /\ \A i \in 1 .. Len(q) : i >= 1
  BY LenProperties
<1> QED
  BY <1>1 DEF LeftFrom, Holds

LEMMA LeftNext ==
  ASSUME NEW S, NEW q \in Seq(S), Distinct(q), NEW n \in 1 .. Len(q)
  PROVE  /\ LeftFrom(q, n, q[n])
         /\ \A p : LeftFrom(q, n + 1, p) <=> LeftFrom(q, n, p) /\ p # q[n]
<1>1. Len(q) \in Nat /\ \A i \in 1 .. Len(q) : (i >= n <=> (i >= n + 1 \/ i = n))
      /\ n >= n /\ ~(n >= n + 1)
  BY LenProperties
<1>2. LeftFrom(q, n, q[n])
  BY <1>1 DEF LeftFrom
<1>3. ASSUME NEW p PROVE LeftFrom(q, n + 1, p) <=> LeftFrom(q, n, p) /\ p # q[n]
  BY <1>1 DEF LeftFrom, Distinct
<1> QED
  BY <1>2, <1>3

LEMMA LeftNone ==
  ASSUME NEW S, NEW q \in Seq(S), NEW n \in Nat, n > Len(q)
  PROVE  \A p : ~LeftFrom(q, n, p)
<1>1. Len(q) \in Nat /\ \A i \in 1 .. Len(q) : ~(i >= n)
  BY LenProperties
<1> QED
  BY <1>1 DEF LeftFrom

(***************************************************************************)
(* Steps                                                                   *)
(***************************************************************************)

Inv == Base /\ Calls /\ Held

SameQueues ==
    \A q : /\ Holds(suspended, q)' <=> Holds(suspended, q)
           /\ Holds(evaluated, q)' <=> Holds(evaluated, q)
           /\ LeftFrom(post, PostFrom, q)' <=> LeftFrom(post, PostFrom, q)
           /\ LeftFrom(triggered, TriggeredFrom, q)' <=> LeftFrom(triggered, TriggeredFrom, q)

QueuesDistinct ==
    Distinct(suspended) /\ Distinct(evaluated) /\ Distinct(post) /\ Distinct(triggered)

LEMMA QueuesKeep ==
  ASSUME UNCHANGED <<suspended, evaluated, post, triggered, pos, phase>>, QueuesDistinct
  PROVE  SameQueues /\ QueuesDistinct'
BY DEF SameQueues, QueuesDistinct, Holds, LeftFrom, PostFrom, TriggeredFrom, Distinct

SameWaits == \A q, s : s \in Sync => (Joins(q, s)' <=> Joins(q, s))

LEMMA WaitsKeep ==
  ASSUME \A s \in Sync : sync'[s] = sync[s], \A s : DoneOn(s)' <=> DoneOn(s)
  PROVE  SameWaits
BY DEF SameWaits, Joins

\* A process on the stack is alive.
LEMMA OnStackAlive ==
  ASSUME Held, NEW p \in Proc, OnStack(p)
  PROVE  IsAt(p, InCall) /\ p \in Created /\ p \notin gone
<1>1. IsAt(p, InCall)
  BY HeldAt
<1> QED
  BY <1>1, KeysDiffer DEF IsAt, Alive

\* The innermost call.
LEMMA Innermost ==
  ASSUME Inv, stack # <<>>
  PROVE  \E n \in Nat \ {0} : \E p \in Proc :
             /\ n = Depth /\ Top = Fr(n) /\ Fr(n).p = p /\ Fr(n) \in Frame
             /\ IsAt(p, InCall) /\ OnStack(p) /\ p \in Created /\ p \notin gone
             /\ \A d \in 1 .. n : Fr(d).p \in Created
<1>1. stack \in Seq(Frame) /\ Held
  BY DEF Inv, Base, TypeOK
<1>2. PICK n \in Nat \ {0} : n = Depth /\ Top = Fr(n) /\ Fr(n) \in Frame
  BY <1>1, TopFrame
<1>3. PICK p \in Proc : p = Fr(n).p
  BY <1>2, FrameFields
<1>4. n \in 1 .. n
  BY <1>2
<1>5. OnStack(p)
  BY <1>2, <1>3, <1>4 DEF OnStack
<1>6. \A d \in 1 .. n : Fr(d).p \in Proc /\ OnStack(Fr(d).p)
  <2>1. \A d \in 1 .. n : Fr(d).p \in Proc
    BY <1>2, CallFields DEF Inv
  <2> QED
    BY <1>2, <2>1 DEF OnStack
<1>7. \A d \in 1 .. n : Fr(d).p \in Created
  BY <1>1, <1>6, OnStackAlive
<1> QED
  BY <1>1, <1>2, <1>3, <1>5, <1>7, OnStackAlive

\* A process that is alive keeps being created, whatever its state is set to.
LEMMA StatusSet ==
  ASSUME Base, NEW p \in Created, NEW v, v # "none", status' = [status EXCEPT ![p] = v]
  PROVE  SameCreated
BY DEF Base, TypeOK, SameCreated, Created

LEMMA StatusSame ==
  ASSUME status' = status
  PROVE  SameCreated
BY DEF SameCreated, Created

LEMMA JoinsSame ==
  ASSUME UNCHANGED <<sync, forkOf, branches>>
  PROVE  SameJoins
BY DEF SameJoins

LEMMA InvParts ==
  ASSUME Inv
  PROVE  /\ Base /\ Calls /\ Held /\ TypeOK /\ StackDistinct /\ QueuesDistinct
         /\ stack \in Seq(Frame) /\ suspended \in Seq(Proc) /\ evaluated \in Seq(Proc)
         /\ post \in Seq(Proc) /\ triggered \in Seq(Proc)
BY DEF Inv, Base, TypeOK, Held, AllDistinct, StackDistinct, QueuesDistinct

LEMMA AllDistinctParts ==
  /\ AllDistinct <=> StackDistinct /\ QueuesDistinct
  /\ AllDistinct' <=> StackDistinct' /\ QueuesDistinct'
BY DEF AllDistinct, StackDistinct, QueuesDistinct

\* The process that runs leaves the stack: it is on its way to place k.
LEMMA Leaves ==
  ASSUME Inv, stack # <<>>, Top.at = "body", stack' = Tail(stack), SameCreated, SameJoins
  PROVE  /\ Calls' /\ StackDistinct'
         /\ \A s : DoneOn(s)' <=> DoneOn(s)
         /\ \A q : OnStack(q)' <=> OnStack(q) /\ q # Top.p
<1>1. PICK n \in Nat \ {0} : n = Depth /\ Top = Fr(n)
  BY Innermost
<1>2. Pops(n)
  BY <1>1, InvParts, StackPops
<1>3. Calls'
  BY <1>2, InvParts, CallsPops
<1> QED
  BY <1>1, <1>2, <1>3, InvParts, WhoPops

LEMMA StepAwaitHeld ==
  ASSUME Inv, NEW p \in Proc, AwaitHeld(p)
  PROVE  Calls' /\ Held'
<1>1. /\ stack # <<>> /\ Top.p = p /\ Top.at = "body" /\ stack' = Tail(stack)
      /\ status' = [status EXCEPT ![p] = "WAITING"] /\ UNCHANGED <<gone, sync, forkOf, branches>>
      /\ held' = held \cup {p} /\ UNCHANGED <<suspended, evaluated, post, triggered, pos, phase>>
      /\ waitFor' = waitFor
  BY DEF AwaitHeld, Running, Suspend, syncVars, dynVars
<1>2. IsAt(p, InCall) /\ p \in Created /\ p \notin gone
  BY <1>1, Innermost
<1>3. SameCreated /\ SameJoins
  BY <1>1, <1>2, StatusSet, JoinsSame, InvParts
<1>4. /\ Calls' /\ StackDistinct' /\ (\A s : DoneOn(s)' <=> DoneOn(s))
      /\ \A q : OnStack(q)' <=> OnStack(q) /\ q # p
  BY <1>1, <1>3, Leaves
<1>5. SameQueues /\ QueuesDistinct' /\ SameWaits
  BY <1>1, <1>4, InvParts, QueuesKeep, WaitsKeep
<1>6. \A q \in Proc : q # p => Same(q)
  BY <1>1, <1>3, <1>4, <1>5 DEF Same, SameQueues, SameWaits, Alive, SameCreated
<1>7. IsAt(p, InHeld)'
  BY <1>1, <1>2, <1>3, <1>4, <1>5, KeysDiffer DEF IsAt, SameQueues, SameWaits, Alive, SameCreated
<1>8. Held'
  BY <1>1, <1>3, <1>4, <1>5, <1>6, <1>7, KeysDiffer, InvParts, AllDistinctParts, HeldMoves
     DEF KeepsForever, SameCreated
<1> QED
  BY <1>4, <1>8

LEMMA StepAwaitForever ==
  ASSUME Inv, NEW p \in Proc, AwaitForever(p)
  PROVE  Calls' /\ Held'
<1>1. /\ stack # <<>> /\ Top.p = p /\ Top.at = "body" /\ stack' = Tail(stack)
      /\ gone' = gone \cup {p} /\ UNCHANGED <<status, sync, forkOf, branches>>
      /\ UNCHANGED <<held, suspended, evaluated, post, triggered, pos, phase>>
      /\ waitFor' = [waitFor EXCEPT ![p] = "forever"]
  BY DEF AwaitForever, Running, syncVars
<1>2. IsAt(p, InCall) /\ p \in Created /\ p \notin gone
  BY <1>1, Innermost
<1>3. SameCreated /\ SameJoins
  BY <1>1, StatusSame, JoinsSame
<1>4. /\ Calls' /\ StackDistinct' /\ (\A s : DoneOn(s)' <=> DoneOn(s))
      /\ \A q : OnStack(q)' <=> OnStack(q) /\ q # p
  BY <1>1, <1>3, Leaves
<1>5. SameQueues /\ QueuesDistinct' /\ SameWaits
  BY <1>1, <1>4, InvParts, QueuesKeep, WaitsKeep
<1>6. \A q \in Proc : q # p => Same(q)
  BY <1>1, <1>3, <1>4, <1>5 DEF Same, SameQueues, SameWaits, Alive, SameCreated
<1>7. IsAt(p, Nowhere)'
  BY <1>1, <1>2, <1>3, <1>4, <1>5, KeysDiffer DEF IsAt, SameQueues, SameWaits, Alive, SameCreated
<1>8. KeepsForever
  BY <1>1 DEF KeepsForever, Inv, Base, TypeOK
<1>9. Held'
  BY <1>1, <1>2, <1>3, <1>4, <1>5, <1>6, <1>7, <1>8, KeysDiffer, InvParts, AllDistinctParts, HeldMoves
     DEF SameCreated
<1> QED
  BY <1>4, <1>9

LEMMA StepEnd ==
  ASSUME Inv, NEW p \in Proc, End(p)
  PROVE  Calls' /\ Held'
<1>1. /\ stack # <<>> /\ Top.p = p /\ Top.at = "body" /\ stack' = Tail(stack)
      /\ status' = [status EXCEPT ![p] = "FINISHED"] /\ gone' = gone \cup {p}
      /\ UNCHANGED <<sync, forkOf, branches>>
      /\ UNCHANGED <<held, suspended, evaluated, post, triggered, pos, phase, waitFor>>
  BY FrameFields DEF End, syncVars, dynVars
<1>2. IsAt(p, InCall) /\ p \in Created /\ p \notin gone
  BY <1>1, Innermost
<1>3. SameCreated /\ SameJoins
  BY <1>1, <1>2, StatusSet, JoinsSame, InvParts
<1>4. /\ Calls' /\ StackDistinct' /\ (\A s : DoneOn(s)' <=> DoneOn(s))
      /\ \A q : OnStack(q)' <=> OnStack(q) /\ q # p
  BY <1>1, <1>3, Leaves
<1>5. SameQueues /\ QueuesDistinct' /\ SameWaits
  BY <1>1, <1>4, InvParts, QueuesKeep, WaitsKeep
<1>6. \A q \in Proc : q # p => Same(q)
  BY <1>1, <1>3, <1>4, <1>5 DEF Same, SameQueues, SameWaits, Alive, SameCreated
<1>7. IsAt(p, Nowhere)'
  BY <1>1, <1>2, <1>3, <1>4, <1>5, KeysDiffer DEF IsAt, SameQueues, SameWaits, Alive, SameCreated
<1>9. Held'
  BY <1>1, <1>2, <1>3, <1>4, <1>5, <1>6, <1>7, KeysDiffer, InvParts, AllDistinctParts, HeldMoves
     DEF KeepsForever, SameCreated
<1> QED
  BY <1>4, <1>9

LEMMA StepAwaitDynamic ==
  ASSUME Inv, NEW p \in Proc, NEW w \in Waitable, AwaitDynamic(p, w)
  PROVE  Calls' /\ Held'
<1>1. /\ stack # <<>> /\ Top.p = p /\ Top.at = "body" /\ stack' = Tail(stack)
      /\ status' = [status EXCEPT ![p] = "WAITING"] /\ UNCHANGED <<gone, sync, forkOf, branches>>
      /\ UNCHANGED <<held, evaluated, post, triggered, pos, phase>>
      /\ suspended' = Append(suspended, p) /\ waitFor' = [waitFor EXCEPT ![p] = w]
  BY DEF AwaitDynamic, Running, Suspend, syncVars
<1>2. IsAt(p, InCall) /\ p \in Created /\ p \notin gone
  BY <1>1, Innermost
<1>3. SameCreated /\ SameJoins
  BY <1>1, <1>2, StatusSet, JoinsSame, InvParts
<1>4. /\ Calls' /\ StackDistinct' /\ (\A s : DoneOn(s)' <=> DoneOn(s))
      /\ \A q : OnStack(q)' <=> OnStack(q) /\ q # p
  BY <1>1, <1>3, Leaves
<1>5. ~Holds(suspended, p)
  BY <1>2, KeysDiffer DEF IsAt
<1>6. /\ Distinct(suspended') /\ \A q : Holds(suspended', q) <=> Holds(suspended, q) \/ q = p
  BY <1>1, <1>5, InvParts, AddLastHolds DEF QueuesDistinct
<1>7. /\ QueuesDistinct' /\ SameWaits
      /\ \A q : /\ Holds(evaluated, q)' <=> Holds(evaluated, q)
                /\ LeftFrom(post, PostFrom, q)' <=> LeftFrom(post, PostFrom, q)
                /\ LeftFrom(triggered, TriggeredFrom, q)' <=> LeftFrom(triggered, TriggeredFrom, q)
                /\ Holds(suspended, q)' <=> Holds(suspended, q) \/ q = p
  <2>1. SameWaits
    BY <1>1, <1>4, WaitsKeep
  <2>2. QueuesDistinct'
    BY <1>1, <1>6, InvParts DEF QueuesDistinct, Distinct
  <2> QED
    BY <1>1, <1>6, <2>1, <2>2 DEF Holds, LeftFrom, PostFrom, TriggeredFrom
<1>8. \A q \in Proc : q # p => Same(q)
  BY <1>1, <1>3, <1>4, <1>7 DEF Same, SameWaits, Alive, SameCreated
<1>9. IsAt(p, InSuspended)'
  BY <1>1, <1>2, <1>3, <1>4, <1>7, KeysDiffer DEF IsAt, SameWaits, Alive, SameCreated
<1>10. KeepsForever
  BY <1>1, Numbers DEF KeepsForever, Inv, Base, TypeOK, Waitable
<1>11. Held'
  BY <1>1, <1>3, <1>4, <1>7, <1>8, <1>9, <1>10, KeysDiffer, InvParts, AllDistinctParts, HeldMoves
     DEF SameCreated
<1> QED
  BY <1>4, <1>11

\* A step that neither moves a process nor creates one.
LEMMA StepSame ==
  ASSUME Inv, SameCreated,
         UNCHANGED <<stack, gone, sync, forkOf, branches, held, suspended, evaluated, post,
                     triggered, pos, phase, waitFor>>
  PROVE  Calls' /\ Held'
<1>1. Keeps /\ SameJoins
  BY StackKeeps, JoinsSame
<1>2. Calls'
  BY <1>1, InvParts, CallsKeeps
<1>3. StackDistinct' /\ (\A q : OnStack(q)' <=> OnStack(q)) /\ (\A s : DoneOn(s)' <=> DoneOn(s))
  BY <1>1, InvParts, WhoKeeps
<1>4. SameQueues /\ QueuesDistinct' /\ SameWaits
  BY <1>3, InvParts, QueuesKeep, WaitsKeep
<1>5. \A q \in Proc : Same(q)
  BY <1>3, <1>4 DEF Same, SameQueues, SameWaits, Alive, SameCreated
<1>6. Held'
  BY <1>3, <1>4, <1>5, InvParts, AllDistinctParts, HeldStays DEF KeepsForever
<1> QED
  BY <1>2, <1>6

LEMMA StepNoCall ==
  ASSUME Inv, NEW p \in Proc,
         DisableFork(p) \/ (\E e \in Event : FireEvent(p, e))
         \/ (\E q \in Proc, s \in {"KILLED", "RUNNING"} : SetStatus(p, q, s))
  PROVE  Calls' /\ Held'
<1>1. UNCHANGED <<stack, gone, sync, forkOf, branches, held, suspended, evaluated, post,
                  triggered, pos, phase, waitFor>>
  BY DEF DisableFork, FireEvent, SetStatus, syncVars, dynVars
<1>2. CASE DisableFork(p)
  <2>1. Below(p) \subseteq Created
    BY DEF Below
  <2>2. status' = [q \in Proc |-> IF q \in Below(p) THEN "KILLED" ELSE status[q]]
    BY <1>2 DEF DisableFork
  <2>3. \A q \in Proc : status'[q] = "none" <=> status[q] = "none"
    <3> HIDE DEF Below
    <3> QED
      BY <2>1, <2>2 DEF Created
  <2>4. SameCreated
    BY <2>3 DEF SameCreated, Created
  <2> QED
    BY <1>1, <2>4, StepSame
<1>3. CASE \E e \in Event : FireEvent(p, e)
  <2>1. status' = status
    BY <1>3 DEF FireEvent
  <2> QED
    BY <1>1, <2>1, StepSame, StatusSame
<1>4. ASSUME NEW q \in Proc, NEW s \in {"KILLED", "RUNNING"}, SetStatus(p, q, s) PROVE Calls' /\ Held'
  <2>1. q \in Created /\ status' = [status EXCEPT ![q] = s]
    BY <1>4 DEF SetStatus
  <2>2. SameCreated
    BY <2>1, InvParts, StatusSet
  <2> QED
    BY <1>1, <2>2, StepSame
<1> QED
  BY <1>2, <1>3, <1>4

LEMMA StepFork ==
  ASSUME Inv, NEW p \in Proc, NEW kind \in {"join", "any", "none"}, NEW m \in 1 .. 2,
         Fork(p, kind, m)
  PROVE  Calls' /\ Held'
<1>1. /\ stack # <<>> /\ Top.p = p /\ Top.at = "body"
      /\ UNCHANGED <<gone, forkOf, branches, held, suspended, evaluated, post, triggered, pos,
                     phase, waitFor>>
  BY DEF Fork, Running, dynVars
<1>2. PICK n \in Nat \ {0} : n = Depth /\ Top = Fr(n) /\ p \in Created
  BY <1>1, Innermost
<1>3. PICK s \in Sync \cup {None} :
        /\ stack' = <<[p |-> p, at |-> "fork", left |-> m, sync |-> s]>> \o Tail(stack)
        /\ s # None => /\ branches[s] = {}
                       /\ sync' = [sync EXCEPT ![s] = [count |-> JoinCount(kind, m), susp |-> None]]
        /\ s = None => sync' = sync
        /\ status' = status \/ status' = [status EXCEPT ![p] = "WAITING"]
  <2>1. CASE kind = "none"
    <3>1. /\ stack' = <<[p |-> p, at |-> "fork", left |-> m, sync |-> None]>> \o Tail(stack)
          /\ UNCHANGED <<status, sync>>
      BY <2>1 DEF Fork
    <3> QED
      BY <3>1
  <2>2. CASE kind # "none"
    <3>1. PICK s \in Sync :
            /\ branches[s] = {}
            /\ sync' = [sync EXCEPT ![s] = [count |-> JoinCount(kind, m), susp |-> None]]
            /\ stack' = <<[p |-> p, at |-> "fork", left |-> m, sync |-> s]>> \o Tail(stack)
      BY <2>2 DEF Fork
    <3>2. status' = [status EXCEPT ![p] = "WAITING"] /\ s # None
      BY <2>2, Numbers DEF Fork
    <3> QED
      BY <3>1, <3>2
  <2> QED
    BY <2>1, <2>2
<1>4. PICK f : f = [p |-> p, at |-> "fork", left |-> m, sync |-> s]
  OBVIOUS
<1>5. f \in Frame /\ f.p = p /\ f.at = "fork" /\ f.left = m /\ f.sync = s
  BY <1>4 DEF Frame
<1>6. Replaces(n, f)
  BY <1>1, <1>2, <1>3, <1>4, <1>5, InvParts, StackReplaces
<1>7. SameCreated
  BY <1>2, <1>3, InvParts, StatusSame, StatusSet
<1>8. /\ \A t \in Sync : t # s => sync'[t] = sync[t]
      /\ s \in Sync => sync[s].susp = None /\ sync'[s].susp = None
  <2>1. CASE s = None
    BY <1>3, <2>1, Numbers
  <2>2. CASE s # None
    <3>1. s \in Sync /\ sync \in [Sync -> JoinRecord] /\ JoinCount(kind, m) \in Nat
      BY <2>2, InvParts, JoinFields DEF JoinCount
    <3>2. /\ sync'[s].susp = None
          /\ \A t \in Sync : t # s => sync'[t] = sync[t]
      BY <1>3, <2>2, <3>1, JoinChange
    <3>3. sync[s].susp = None
      BY <1>3, <2>2, <3>1, InvParts DEF Calls, Creation
    <3> QED
      BY <3>2, <3>3
  <2> QED
    BY <2>1, <2>2
<1>9. SameJoins
  BY <1>1, <1>8 DEF SameJoins
<1>10. Calls'
  <2>1. /\ f.p = Fr(n).p /\ f.at # "done"
        /\ f.sync # None => f.sync \in Sync /\ branches[f.sync] = {} /\ f.left > 0
    BY <1>1, <1>2, <1>3, <1>5
  <2> QED
    BY <1>6, <1>7, <1>9, <2>1, InvParts, CallsReplaces
<1>11. StackDistinct' /\ (\A q : OnStack(q)' <=> OnStack(q)) /\ (\A t : DoneOn(t)' <=> DoneOn(t))
  BY <1>1, <1>2, <1>5, <1>6, InvParts, WhoReplaces
<1>12. \A q \in Proc : \A t \in Sync : Joins(q, t)' <=> Joins(q, t)
  <2> TAKE q \in Proc
  <2> TAKE t \in Sync
  <2>1. CASE t = s
    BY <1>8, <2>1, Numbers DEF Joins
  <2>2. CASE t # s
    BY <1>8, <1>11, <2>2 DEF Joins
  <2> QED
    BY <2>1, <2>2
<1>13. SameQueues /\ QueuesDistinct'
  BY <1>1, InvParts, QueuesKeep
<1>14. \A q \in Proc : Same(q)
  BY <1>1, <1>7, <1>11, <1>12, <1>13 DEF Same, SameQueues, Alive, SameCreated
<1>15. Held'
  BY <1>1, <1>7, <1>11, <1>13, <1>14, InvParts, AllDistinctParts, HeldStays DEF KeepsForever
<1> QED
  BY <1>10, <1>15

LEMMA StepStartBranch ==
  ASSUME Inv, StartBranch
  PROVE  Calls' /\ Held'
<1>1. /\ stack # <<>> /\ Top.at = "fork" /\ Top.left > 0 /\ UNCHANGED <<gone, sync>>
      /\ UNCHANGED <<held, suspended, evaluated, post, triggered, pos, phase, waitFor>>
  BY DEF StartBranch, dynVars
<1>2. PICK n \in Nat \ {0} : /\ n = Depth /\ Top = Fr(n) /\ Fr(n) \in Frame
                             /\ \A d \in 1 .. n : Fr(d).p \in Created
  BY <1>1, Innermost
<1>3. PICK f : f = [Top EXCEPT !.left = @ - 1]
  OBVIOUS
<1>4. /\ f \in Frame /\ f.p = Fr(n).p /\ f.at = "fork" /\ f.sync = Fr(n).sync
      /\ f.left \in Nat
  <2>1. Fr(n).left - 1 \in Nat /\ Fr(n).p \in Proc /\ Fr(n).sync \in Sync \cup {None}
    BY <1>1, <1>2, FrameFields
  <2> QED
    BY <1>1, <1>2, <1>3, <2>1 DEF Frame
<1>5. PICK q \in Proc :
        /\ IsNewProc(q)
        /\ status' = [status EXCEPT ![q] = "RUNNING"]
        /\ forkOf' = [forkOf EXCEPT ![q] = f.sync]
        /\ branches' = IF f.sync = None THEN branches
                       ELSE [branches EXCEPT ![f.sync] = @ \cup {q}]
        /\ stack' = <<Body(q)>> \o (<<f>> \o Tail(stack))
  BY <1>2, <1>3, <1>4 DEF StartBranch
<1>6. Created' = Created \cup {q} /\ q \notin Created
  BY <1>5, InvParts DEF Created, TypeOK, IsNewProc
<1>7. Body(q) \in Frame /\ Body(q).p = q /\ Body(q).at = "body"
  BY FrameFields
<1>8. Pushes(n, f, Body(q))
  BY <1>1, <1>2, <1>4, <1>5, <1>7, InvParts, StackPushes
<1>9. Calls'
  BY <1>1, <1>2, <1>4, <1>5, <1>6, <1>8, InvParts, CallsBranch
<1>10. IsAt(q, Nowhere) /\ ~OnStack(q)
  <2>1. IsAt(q, Nowhere)
    BY <1>6, InvParts, HeldAt DEF Alive
  <2> QED
    BY <2>1, KeysDiffer DEF IsAt
<1>11. /\ StackDistinct' /\ (\A r : OnStack(r)' <=> (OnStack(r) \/ r = q))
       /\ \A s : DoneOn(s)' <=> DoneOn(s)
  BY <1>1, <1>2, <1>4, <1>7, <1>8, <1>10, InvParts, WhoPushes
<1>12. SameQueues /\ QueuesDistinct' /\ SameWaits
  BY <1>1, <1>11, InvParts, QueuesKeep, WaitsKeep
<1>13. q \notin gone
  BY <1>5, <1>6 DEF Inv, Held
<1>14. \A r \in Proc : r # q => Same(r)
  BY <1>1, <1>6, <1>11, <1>12 DEF Same, SameQueues, SameWaits, Alive
<1>15. IsAt(q, InCall)'
  BY <1>1, <1>6, <1>10, <1>11, <1>12, <1>13, KeysDiffer DEF IsAt, SameQueues, SameWaits, Alive
<1>16. Held'
  BY <1>1, <1>6, <1>11, <1>12, <1>14, <1>15, KeysDiffer, InvParts, AllDistinctParts, HeldMoves DEF KeepsForever
<1> QED
  BY <1>9, <1>16

LEMMA StepJoin ==
  ASSUME Inv, Join
  PROVE  Calls' /\ Held'
<1>1. /\ stack # <<>> /\ Top.at = "fork" /\ Top.left = 0
      /\ UNCHANGED <<gone, forkOf, branches, held, suspended, evaluated, post, triggered, pos,
                     phase, waitFor>>
  BY DEF Join, dynVars
<1>2. PICK n \in Nat \ {0}, p \in Proc :
        /\ n = Depth /\ Top = Fr(n) /\ Fr(n).p = p /\ Fr(n) \in Frame
        /\ IsAt(p, InCall) /\ OnStack(p) /\ p \in Created /\ p \notin gone
  BY <1>1, Innermost
<1>3. PICK s \in Sync \cup {None} : s = Top.sync
  BY <1>2, FrameFields
<1>4. SameQueues /\ QueuesDistinct'
  BY <1>1, InvParts, QueuesKeep
<1>5. CASE s = None \/ sync[s].count = 0
  <2>1. stack' = <<Body(p)>> \o Tail(stack) /\ UNCHANGED <<status, sync>>
    BY <1>2, <1>3, <1>5 DEF Join
  <2>2. Body(p) \in Frame /\ Body(p).p = p /\ Body(p).at = "body"
    BY FrameFields
  <2>3. Replaces(n, Body(p)) /\ SameCreated /\ SameJoins
    BY <1>1, <1>2, <2>1, <2>2, InvParts, StackReplaces, StatusSame, JoinsSame
  <2>4. Calls'
    BY <1>2, <2>2, <2>3, InvParts, CallsReplaces
  <2>5. StackDistinct' /\ (\A q : OnStack(q)' <=> OnStack(q)) /\ (\A t : DoneOn(t)' <=> DoneOn(t))
    BY <1>1, <1>2, <2>2, <2>3, InvParts, WhoReplaces
  <2>6. SameWaits
    BY <2>1, <2>5, WaitsKeep
  <2>7. \A q \in Proc : Same(q)
    BY <1>1, <1>4, <2>3, <2>5, <2>6 DEF Same, SameQueues, SameWaits, Alive, SameCreated
  <2>8. Held'
    BY <1>1, <1>4, <2>3, <2>5, <2>7, InvParts, AllDistinctParts, HeldStays DEF KeepsForever
  <2> QED
    BY <2>4, <2>8
<1>6. CASE s # None /\ sync[s].count # 0
  <2>1. /\ s \in Sync /\ sync' = [sync EXCEPT ![s].susp = p]
        /\ status' = [status EXCEPT ![p] = "WAITING"] /\ stack' = Tail(stack)
    BY <1>2, <1>3, <1>6 DEF Join
  <2>2. Pops(n) /\ SameCreated
    BY <1>1, <1>2, <2>1, InvParts, StackPops, StatusSet
  <2>3. PICK c \in Nat : c = sync[s].count
    BY <2>1, InvParts, JoinFields
  <2>4. /\ sync'[s].count = c /\ sync'[s].susp = p
        /\ \A t \in Sync : t # s => sync'[t] = sync[t]
    BY <2>1, <2>3, InvParts, JoinFields, JoinChange
  <2>5. sync[s].susp = None
    <3>1. n \in 1 .. Depth
      BY <1>2
    <3> QED
      BY <1>1, <1>2, <1>3, <1>6, <3>1, InvParts DEF Calls, Frames
  <2>6. Calls'
    <3>1. JoinSet(s, p) /\ UNCHANGED <<forkOf, branches>>
      BY <1>1, <2>4 DEF JoinSet
    <3>2. Fr(n).at = "fork" /\ Fr(n).sync = s /\ Fr(n).left = 0
      BY <1>1, <1>2, <1>3
    <3> QED
      BY <1>2, <2>1, <2>2, <3>1, <3>2, InvParts, CallsJoin
  <2>7. /\ StackDistinct' /\ (\A q : OnStack(q)' <=> OnStack(q) /\ q # p)
        /\ \A t : DoneOn(t)' <=> DoneOn(t)
    BY <1>1, <1>2, <2>2, InvParts, WhoPops
  <2>8. /\ \A q \in Proc : q # p => \A t \in Sync : Joins(q, t)' <=> Joins(q, t)
        /\ \A t \in Sync : t # s => (Joins(p, t)' <=> Joins(p, t))
        /\ Joins(p, s)'
    BY <1>6, <2>3, <2>4, <2>5, <2>7, Numbers DEF Joins
  <2>9. \A q \in Proc : q # p => Same(q)
    BY <1>1, <1>4, <2>2, <2>7, <2>8 DEF Same, SameQueues, Alive, SameCreated
  <2>10. IsAt(p, InJoin(s))'
    <3>1. \A t \in Sync : Joins(p, t)' <=> InJoin(s) = InJoin(t)
      BY <1>2, <2>1, <2>8, KeysDiffer DEF IsAt
    <3> QED
      BY <1>1, <1>2, <1>4, <2>1, <2>2, <2>7, <3>1, KeysDiffer DEF IsAt, SameQueues, Alive, SameCreated
  <2>11. Held'
    <3>1. InJoin(s) \in Key
      BY <2>1, KeysDiffer
    <3> QED
      BY <1>1, <1>4, <2>2, <2>7, <2>9, <2>10, <3>1, InvParts, AllDistinctParts, HeldMoves
         DEF KeepsForever, SameCreated
  <2> QED
    BY <2>6, <2>11
<1> QED
  BY <1>5, <1>6

LEMMA StepEndBranch ==
  ASSUME Inv, EndBranch
  PROVE  Calls' /\ Held'
<1>1. /\ stack # <<>> /\ Top.at = "done" /\ stack' = Tail(stack)
      /\ status' = [status EXCEPT ![Top.p] = "FINISHED"] /\ gone' = gone \cup {Top.p}
      /\ UNCHANGED <<forkOf, branches, held, suspended, evaluated, post, triggered, pos,
                     phase, waitFor>>
  BY DEF EndBranch, Cleared, dynVars
<1>2. PICK n \in Nat \ {0}, p \in Proc :
        /\ n = Depth /\ Top = Fr(n) /\ Fr(n).p = p /\ Fr(n) \in Frame
        /\ IsAt(p, InCall) /\ OnStack(p) /\ p \in Created /\ p \notin gone
  BY <1>1, Innermost
<1>3. n \in 1 .. Depth
  BY <1>2
<1>4. PICK s \in Sync : s = Top.sync
  <2>1. Top.sync # None /\ Top.sync \in Sync \cup {None}
    BY <1>1, <1>2, <1>3, InvParts, FrameFields DEF Calls, Frames
  <2> QED
    BY <2>1
<1>5. SameQueues /\ QueuesDistinct'
  BY <1>1, InvParts, QueuesKeep
<1>6. Pops(n) /\ SameCreated
  BY <1>1, <1>2, InvParts, StackPops, StatusSet
<1>7. /\ StackDistinct' /\ (\A q : OnStack(q)' <=> OnStack(q) /\ q # p)
      /\ \A t : t # s => (DoneOn(t)' <=> DoneOn(t))
  BY <1>2, <1>4, <1>6, InvParts, WhoPops
<1>8. DoneOn(s)
  BY <1>1, <1>2, <1>3, <1>4 DEF DoneOn
<1>9. \A t \in Sync : t # s => sync'[t] = sync[t]
  BY <1>4, InvParts DEF EndBranch, Cleared, TypeOK
<1>10. /\ sync[s].count = 0 => sync'[s].susp = None
       /\ sync[s].count # 0 => sync'[s] = sync[s] /\ sync' = sync
  <2>1. sync' = IF sync[s].count = 0 THEN [sync EXCEPT ![s].susp = None] ELSE sync
    BY <1>4 DEF EndBranch, Cleared
  <2>2. PICK c \in Nat : c = sync[s].count
    BY InvParts, JoinFields
  <2>3. CASE sync[s].count = 0
    BY <2>1, <2>2, <2>3, InvParts, JoinFields, JoinChange
  <2> QED
    BY <2>1, <2>3
<1>11. Calls'
  <2>1. CASE sync[s].count = 0
    <3>1. JoinSet(s, None)
      BY <1>9, <1>10, <2>1 DEF JoinSet
    <3>2. Fr(n).at = "done" /\ Fr(n).sync = s /\ UNCHANGED <<forkOf, branches>>
      BY <1>1, <1>2, <1>4
    <3> QED
      BY <1>6, <3>1, <3>2, InvParts, CallsReturn
  <2>2. CASE sync[s].count # 0
    <3>1. SameJoins
      BY <1>1, <1>10, <2>2 DEF SameJoins
    <3> QED
      BY <1>6, <3>1, InvParts, CallsPops
  <2> QED
    BY <2>1, <2>2
<1>12. \A q \in Proc : \A t \in Sync : Joins(q, t)' <=> Joins(q, t)
  <2> TAKE q \in Proc
  <2> TAKE t \in Sync
  <2>1. CASE t # s
    BY <1>7, <1>9, <2>1 DEF Joins
  <2>2. CASE t = s
    BY <1>8, <1>10, <2>2, Numbers DEF Joins
  <2> QED
    BY <2>1, <2>2
<1>13. \A q \in Proc : q # p => Same(q)
  BY <1>1, <1>2, <1>5, <1>6, <1>7, <1>12 DEF Same, SameQueues, Alive, SameCreated
<1>14. IsAt(p, Nowhere)'
  BY <1>1, <1>2, <1>5, <1>6, <1>7, <1>12, KeysDiffer DEF IsAt, SameQueues, Alive, SameCreated
<1>15. Held'
  BY <1>1, <1>2, <1>5, <1>6, <1>7, <1>13, <1>14, KeysDiffer, InvParts, AllDistinctParts, HeldMoves
     DEF KeepsForever, SameCreated
<1> QED
  BY <1>11, <1>15

\* A process that waits in a join is not resumed by two calls of done().
LEMMA NoOtherDone ==
  ASSUME Inv, NEW n, n = Depth, n \in Nat \ {0}, Fr(n).at # "done", NEW s \in Sync,
         forkOf[Fr(n).p] = s, sync[s].susp # None
  PROVE  ~DoneOn(s)
<1> SUFFICES ASSUME NEW d \in 1 .. n, Fr(d).at = "done", Fr(d).sync = s PROVE FALSE
  BY DEF DoneOn
<1>1. d < n /\ d \in 1 .. Depth /\ d + 1 \in 1 .. n
  BY DEF DoneOn
<1>2. sync[s].susp = Fr(d + 1).p /\ Fr(d + 1).p \in Proc /\ Fr(n).p \in Proc
  <2>1. sync[s].susp = Fr(d + 1).p
    BY <1>1, InvParts DEF Calls, Nesting
  <2>2. Fr(d + 1).p \in Proc /\ Fr(n).p \in Proc
    <3>1. d + 1 \in 1 .. Depth /\ n \in 1 .. Depth
      BY <1>1
    <3> QED
      BY <3>1, InvParts, CallFields
  <2> QED
    BY <2>1, <2>2
<1>3. Fr(d + 1).p < Fr(n).p
  BY <1>2, InvParts DEF Calls, Creation
<1>4. \A e \in 1 .. n : e < n => Fr(n).p < Fr(e).p
  BY InvParts, AroundDone
<1>5. CASE d + 1 = n
  BY <1>2, <1>3, <1>5, Numbers
<1>6. CASE d + 1 < n
  <2>1. Fr(n).p < Fr(d + 1).p
    BY <1>1, <1>4, <1>6
  <2> QED
    BY <1>2, <1>3, <2>1, Numbers
<1> QED
  BY <1>1, <1>5, <1>6

\* What done() of process p, a branch of fork s, does: f is its call, e the count after
\* it and r the process that waits in the join.
Completes(p, n, s, f, c, e, r) ==
    /\ n = Depth /\ Fr(n) = Body(p) /\ stack # <<>> /\ OnStack(p)
    /\ p \in Created /\ p \notin gone /\ forkOf[p] = s
    /\ f.p = p /\ f.at = "done" /\ f.sync = s /\ f.left = 0
    /\ c = sync[s].count /\ r = sync[s].susp /\ e = CountDown(c)
    /\ sync'[s].count = e /\ sync'[s].susp = r
    /\ \A t \in Sync : t # s => sync'[t] = sync[t]
    /\ \/ /\ e = 0 /\ r # None /\ Resume(r, <<f>> \o Tail(stack))
       \/ /\ e # 0 \/ r = None
          /\ stack' = <<f>> \o Tail(stack) /\ UNCHANGED <<status, gone, owed>>

LEMMA DoneFacts ==
  ASSUME Inv, NEW p \in Proc, Done(p)
  PROVE  \E n \in Nat \ {0}, s \in Sync, f \in Frame, c \in Nat, e \in Nat, r \in Proc \cup {None} :
           Completes(p, n, s, f, c, e, r)
<1>1. stack # <<>> /\ Top = Body(p) /\ forkOf[p] # None
  BY DEF Done
<1>2. PICK n \in Nat \ {0} : n = Depth /\ Top = Fr(n) /\ OnStack(p) /\ p \in Created /\ p \notin gone
  BY <1>1, Innermost, FrameFields
<1>3. PICK s \in Sync : s = forkOf[p]
  BY <1>1, InvParts DEF TypeOK
<1>4. PICK f : f = [Body(p) EXCEPT !.at = "done", !.sync = s]
  OBVIOUS
<1>5. f \in Frame /\ f.p = p /\ f.at = "done" /\ f.sync = s /\ f.left = 0
  BY <1>4 DEF Body, Frame
<1>6. PICK c \in Nat, r \in Proc \cup {None} : c = sync[s].count /\ r = sync[s].susp
  BY InvParts, JoinFields
<1>7. PICK e \in Nat : e = CountDown(c)
  BY DEF CountDown
<1>8. /\ sync' = [sync EXCEPT ![s].count = e]
      /\ \/ /\ e = 0 /\ r # None /\ Resume(r, <<f>> \o Tail(stack))
         \/ /\ e # 0 \/ r = None
            /\ stack' = <<f>> \o Tail(stack) /\ UNCHANGED <<status, gone, owed>>
  BY <1>3, <1>4, <1>6, <1>7 DEF Done
<1>9. /\ sync'[s].count = e /\ sync'[s].susp = r
      /\ \A t \in Sync : t # s => sync'[t] = sync[t]
  BY <1>6, <1>8, InvParts, JoinFields, JoinChange
<1>10. Completes(p, n, s, f, c, e, r)
  BY <1>1, <1>2, <1>3, <1>5, <1>6, <1>7, <1>8, <1>9 DEF Completes
<1> QED
  BY <1>5, <1>10

LEMMA StepDone ==
  ASSUME Inv, NEW p \in Proc, Done(p)
  PROVE  Calls' /\ Held'
<1>0. PICK n \in Nat \ {0}, s \in Sync, f \in Frame, c \in Nat, e \in Nat, r \in Proc \cup {None} :
           Completes(p, n, s, f, c, e, r)
  BY DoneFacts
<1>1. /\ n = Depth /\ Fr(n) = Body(p) /\ stack # <<>> /\ OnStack(p)
      /\ p \in Created /\ p \notin gone /\ forkOf[p] = s
      /\ f.p = p /\ f.at = "done" /\ f.sync = s /\ f.left = 0
      /\ c = sync[s].count /\ r = sync[s].susp /\ e = CountDown(c)
      /\ sync'[s].count = e /\ sync'[s].susp = r
      /\ \A t \in Sync : t # s => sync'[t] = sync[t]
      /\ \/ /\ e = 0 /\ r # None /\ Resume(r, <<f>> \o Tail(stack))
         \/ /\ e # 0 \/ r = None
            /\ stack' = <<f>> \o Tail(stack) /\ UNCHANGED <<status, gone, owed>>
  BY <1>0 DEF Completes
<1>2. UNCHANGED <<forkOf, branches, held, suspended, evaluated, post, triggered, pos, phase, waitFor>>
  BY DEF Done, dynVars
<1>3. SameQueues /\ QueuesDistinct'
  BY <1>2, InvParts, QueuesKeep
<1>4. SameJoins
  BY <1>1, <1>2 DEF SameJoins
<1>5. Fr(n).p = p /\ Fr(n).at = "body" /\ s # None
  BY <1>1, FrameFields, Numbers
<1>6. ASSUME stack' = <<f>> \o Tail(stack), SameCreated
      PROVE  /\ Calls' /\ StackDistinct' /\ \A q : OnStack(q)' <=> OnStack(q)
             /\ \A t : DoneOn(t)' <=> (DoneOn(t) \/ t = s)
  <2>1. Replaces(n, f)
    BY <1>1, <1>6, InvParts, StackReplaces
  <2>2. Calls'
    BY <1>1, <1>4, <1>5, <1>6, <2>1, InvParts, CallsReplaces
  <2> QED
    BY <1>1, <1>5, <2>1, <2>2, InvParts, WhoReplaces
<1>7. CASE (e # 0 \/ r = None) /\ stack' = <<f>> \o Tail(stack) /\ UNCHANGED <<status, gone, owed>>
  <2>1. SameCreated
    BY <1>7, StatusSame
  <2>2. /\ Calls' /\ StackDistinct' /\ (\A q : OnStack(q)' <=> OnStack(q))
        /\ \A t : DoneOn(t)' <=> (DoneOn(t) \/ t = s)
    BY <1>6, <1>7, <2>1
  <2>3. e # 0 => c # 0
    BY <1>1 DEF CountDown
  <2>4. \A q \in Proc : \A t \in Sync : Joins(q, t)' <=> Joins(q, t)
    <3> TAKE q \in Proc
    <3> TAKE t \in Sync
    <3>1. CASE t # s
      BY <1>1, <2>2, <3>1 DEF Joins
    <3>2. CASE t = s
      BY <1>1, <1>7, <2>3, <3>2, Numbers DEF Joins
    <3> QED
      BY <3>1, <3>2
  <2>5. \A q \in Proc : Same(q)
    BY <1>2, <1>3, <1>7, <2>1, <2>2, <2>4 DEF Same, SameQueues, Alive, SameCreated
  <2>6. Held'
    BY <1>2, <1>3, <1>7, <2>1, <2>2, <2>5, InvParts, AllDistinctParts, HeldStays DEF KeepsForever
  <2> QED
    BY <2>2, <2>6
<1>8. CASE e = 0 /\ r # None /\ Resume(r, <<f>> \o Tail(stack))
  <2>1. r \in Proc /\ ~DoneOn(s)
    BY <1>1, <1>5, <1>8, NoOtherDone
  <2>2. Joins(r, s)
    BY <1>1, <2>1 DEF Joins
  <2>3. IsAt(r, InJoin(s))
    BY <2>1, <2>2, InvParts, HeldAt
  <2>4. r \in Created /\ r \notin gone /\ ~OnStack(r)
    BY <2>3, KeysDiffer DEF IsAt, Alive
  <2>5. ASSUME \A t : DoneOn(t)' <=> (DoneOn(t) \/ t = s)
        PROVE  /\ \A q \in Proc : q # r => \A t \in Sync : Joins(q, t)' <=> Joins(q, t)
               /\ \A t \in Sync : ~Joins(r, t)'
    <3>1. \A t \in Sync : t # s => ~Joins(r, t)
      BY <2>3, KeysDiffer DEF IsAt
    <3>2. ASSUME NEW q \in Proc, NEW t \in Sync, t # s PROVE Joins(q, t)' <=> Joins(q, t)
      BY <1>1, <2>5, <3>2 DEF Joins
    <3>3. ASSUME NEW q \in Proc PROVE ~Joins(q, s)' /\ (q # r => ~Joins(q, s))
      BY <1>1, <1>8, <2>5 DEF Joins
    <3> QED
      BY <2>1, <3>1, <3>2, <3>3
  <2>6. CASE status[r] = "KILLED"
    <3>1. gone' = gone \cup {r} /\ stack' = <<f>> \o Tail(stack) /\ status' = status
      BY <1>8, <2>6 DEF Resume
    <3>2. SameCreated
      BY <3>1, StatusSame
    <3>3. /\ Calls' /\ StackDistinct' /\ (\A q : OnStack(q)' <=> OnStack(q))
          /\ \A t : DoneOn(t)' <=> (DoneOn(t) \/ t = s)
      BY <1>6, <3>1, <3>2
    <3>4. \A q \in Proc : q # r => Same(q)
      BY <1>2, <1>3, <2>5, <3>1, <3>2, <3>3 DEF Same, SameQueues, Alive, SameCreated
    <3>5. IsAt(r, Nowhere)'
      BY <1>2, <1>3, <2>1, <2>3, <2>5, <3>1, <3>3, KeysDiffer DEF IsAt, SameQueues, Alive
    <3>6. Held'
      BY <1>2, <1>3, <2>1, <2>4, <3>1, <3>2, <3>3, <3>4, <3>5, KeysDiffer, InvParts, AllDistinctParts,
         HeldMoves DEF KeepsForever, SameCreated
    <3> QED
      BY <3>3, <3>6
  <2>7. CASE status[r] # "KILLED"
    <3>1. /\ gone' = gone /\ stack' = <<Body(r)>> \o (<<f>> \o Tail(stack))
          /\ status' = [status EXCEPT ![r] = "RUNNING"]
      BY <1>8, <2>7 DEF Resume
    <3>2. SameCreated
      BY <2>4, <3>1, InvParts, StatusSet
    <3>3. Body(r) \in Frame /\ Body(r).p = r /\ Body(r).at = "body"
      BY <2>1, FrameFields
    <3>4. Pushes(n, f, Body(r))
      BY <1>1, <3>1, <3>3, InvParts, StackPushes
    <3>5. Calls'
      BY <1>1, <1>4, <1>5, <2>1, <3>2, <3>4, InvParts, CallsDone
    <3>6. /\ StackDistinct' /\ (\A q : OnStack(q)' <=> (OnStack(q) \/ q = r))
          /\ \A t : DoneOn(t)' <=> (DoneOn(t) \/ t = s)
      <4>1. PICK g : g = Body(r)
        OBVIOUS
      <4>2. Pushes(n, f, g) /\ g.p = r /\ g.at # "done" /\ ~OnStack(g.p) /\ Fr(n).at # "done"
            /\ f.p = Fr(n).p /\ StackDistinct
        BY <1>1, <1>5, <2>4, <3>3, <3>4, <4>1, InvParts
      <4>3. /\ StackDistinct' /\ (\A q : OnStack(q)' <=> (OnStack(q) \/ q = g.p))
            /\ \A t : DoneOn(t)' <=> (DoneOn(t) \/ (f.at = "done" /\ f.sync = t))
        BY <4>2, WhoPushes
      <4> QED
        BY <1>1, <4>2, <4>3
    <3>7. \A q \in Proc : q # r => Same(q)
      BY <1>2, <1>3, <2>5, <3>1, <3>2, <3>6 DEF Same, SameQueues, Alive, SameCreated
    <3>8. IsAt(r, InCall)'
      BY <1>2, <1>3, <2>1, <2>3, <2>4, <2>5, <3>1, <3>2, <3>6, KeysDiffer
         DEF IsAt, SameQueues, Alive, SameCreated
    <3>9. Held'
      BY <1>2, <1>3, <2>1, <3>1, <3>2, <3>6, <3>7, <3>8, KeysDiffer, InvParts, AllDistinctParts,
         HeldMoves DEF KeepsForever, SameCreated
    <3> QED
      BY <3>5, <3>9
  <2> QED
    BY <2>6, <2>7
<1> QED
  BY <1>1, <1>7, <1>8

\* The loop resumes a process that was not on the stack.
LEMMA Resumes ==
  ASSUME Inv, NEW p \in Proc, stack = <<>>, Resume(p, <<>>), p \in Created, p \notin gone,
         ~OnStack(p), UNCHANGED <<sync, forkOf, branches, waitFor>>
  PROVE  /\ Calls' /\ StackDistinct' /\ SameWaits /\ SameCreated /\ KeepsForever
         /\ gone \subseteq gone' /\ gone' \subseteq gone \cup Created
         /\ \A q \in Proc : q # p => (OnStack(q)' <=> OnStack(q)) /\ (Alive(q)' <=> Alive(q))
         /\ \/ OnStack(p)' /\ Alive(p)'
            \/ ~OnStack(p)' /\ ~Alive(p)'
<1>1. SameJoins /\ KeepsForever
  BY JoinsSame DEF KeepsForever
<1>2. CASE status[p] = "KILLED"
  <2>1. gone' = gone \cup {p} /\ stack' = stack /\ status' = status
    BY <1>2 DEF Resume
  <2>2. SameCreated /\ Keeps
    BY <2>1, StatusSame, StackKeeps
  <2>3. Calls'
    BY <1>1, <2>2, InvParts, CallsKeeps
  <2>4. StackDistinct' /\ (\A q : OnStack(q)' <=> OnStack(q)) /\ (\A s : DoneOn(s)' <=> DoneOn(s))
    BY <2>2, InvParts, WhoKeeps
  <2>5. SameWaits
    BY <2>4, WaitsKeep
  <2> QED
    BY <1>1, <2>1, <2>2, <2>3, <2>4, <2>5 DEF Alive, SameCreated
<1>3. CASE status[p] # "KILLED"
  <2>1. /\ gone' = gone /\ stack' = <<Body(p)>> \o <<>>
        /\ status' = [status EXCEPT ![p] = "RUNNING"]
    BY <1>3 DEF Resume
  <2>2. SameCreated
    BY <2>1, InvParts, StatusSet
  <2>3. Body(p) \in Frame /\ Body(p).p = p /\ Body(p).at = "body"
    BY FrameFields
  <2>4. Enters(Body(p))
    BY <2>1, <2>3, StackEnters
  <2>5. Calls'
    BY <1>1, <2>2, <2>3, <2>4, InvParts, CallsEnters
  <2>6. /\ StackDistinct' /\ (\A q : OnStack(q)' <=> q = p) /\ (\A q : ~OnStack(q))
        /\ \A s : DoneOn(s)' <=> DoneOn(s)
    BY <2>3, <2>4, WhoEnters
  <2>7. SameWaits
    BY <2>6, WaitsKeep
  <2> QED
    BY <1>1, <2>1, <2>2, <2>5, <2>6, <2>7 DEF Alive, SameCreated
<1> QED
  BY <1>2, <1>3

LEMMA StepResumeHeld ==
  ASSUME Inv, NEW p \in Proc, ResumeHeld(p)
  PROVE  Calls' /\ Held'
<1>1. /\ stack = <<>> /\ p \in held /\ held' = held \ {p} /\ Resume(p, <<>>)
      /\ UNCHANGED <<sync, forkOf, branches, waitFor>>
      /\ UNCHANGED <<suspended, evaluated, post, triggered, pos, phase>>
  BY DEF ResumeHeld, syncVars, dynVars
<1>2. IsAt(p, InHeld)
  BY <1>1, InvParts, HeldAt
<1>3. p \in Created /\ p \notin gone /\ ~OnStack(p)
  BY <1>2, KeysDiffer DEF IsAt, Alive
<1>4. /\ Calls' /\ StackDistinct' /\ SameWaits /\ SameCreated /\ KeepsForever
      /\ gone \subseteq gone' /\ gone' \subseteq gone \cup Created
      /\ \A q \in Proc : q # p => (OnStack(q)' <=> OnStack(q)) /\ (Alive(q)' <=> Alive(q))
      /\ \/ OnStack(p)' /\ Alive(p)'
         \/ ~OnStack(p)' /\ ~Alive(p)'
  BY <1>1, <1>3, Resumes
<1>5. SameQueues /\ QueuesDistinct'
  BY <1>1, InvParts, QueuesKeep
<1>6. \A q \in Proc : q # p => Same(q)
  BY <1>1, <1>4, <1>5 DEF Same, SameQueues, SameWaits
<1>7. \E k \in Key : IsAt(p, k)'
  <2>1. CASE OnStack(p)' /\ Alive(p)'
    <3>1. IsAt(p, InCall)'
      BY <1>1, <1>2, <1>4, <1>5, <2>1, KeysDiffer DEF IsAt, SameQueues, SameWaits
    <3> QED
      BY <3>1, KeysDiffer
  <2>2. CASE ~OnStack(p)' /\ ~Alive(p)'
    <3>1. IsAt(p, Nowhere)'
      BY <1>1, <1>2, <1>4, <1>5, <2>2, KeysDiffer DEF IsAt, SameQueues, SameWaits
    <3> QED
      BY <3>1, KeysDiffer
  <2> QED
    BY <1>4, <2>1, <2>2
<1>8. Held'
  BY <1>4, <1>5, <1>6, <1>7, InvParts, AllDistinctParts, HeldMoves DEF SameCreated
<1> QED
  BY <1>4, <1>8

LEMMA StepResumeTriggered ==
  ASSUME Inv, ResumeTriggered
  PROVE  Calls' /\ Held'
<1>0. pos \in 1 .. Len(triggered) /\ triggered \in Seq(Proc) /\ Distinct(triggered)
  BY InvParts, LenProperties DEF ResumeTriggered, TypeOK, QueuesDistinct
<1>1. PICK p \in Proc, i \in 1 .. Len(triggered) : p = triggered[i] /\ i = pos
  BY <1>0, ElementOfSeq
<1>2. /\ stack = <<>> /\ Resume(p, <<>>) /\ phase = "dynamic" /\ pos' = i + 1
      /\ UNCHANGED <<sync, forkOf, branches, waitFor>>
      /\ UNCHANGED <<held, suspended, evaluated, post, triggered, phase>>
  BY <1>1 DEF ResumeTriggered, syncVars
<1>3. /\ LeftFrom(triggered, i, p)
      /\ \A q : LeftFrom(triggered, i + 1, q) <=> LeftFrom(triggered, i, q) /\ q # p
  BY <1>0, <1>1, LeftNext
<1>4. TriggeredFrom = i /\ TriggeredFrom' = i + 1 /\ PostFrom = 1 /\ PostFrom' = 1
  BY <1>1, <1>2 DEF TriggeredFrom, PostFrom
<1>5. IsAt(p, InTriggered)
  BY <1>3, <1>4, InvParts, HeldAt
<1>6. p \in Created /\ p \notin gone /\ ~OnStack(p)
  BY <1>5, KeysDiffer DEF IsAt, Alive
<1>7. /\ Calls' /\ StackDistinct' /\ SameWaits /\ SameCreated /\ KeepsForever
      /\ gone \subseteq gone' /\ gone' \subseteq gone \cup Created
      /\ \A q \in Proc : q # p => (OnStack(q)' <=> OnStack(q)) /\ (Alive(q)' <=> Alive(q))
      /\ \/ OnStack(p)' /\ Alive(p)'
         \/ ~OnStack(p)' /\ ~Alive(p)'
  BY <1>2, <1>6, Resumes
<1>8. QueuesDistinct'
  BY <1>2, InvParts DEF QueuesDistinct, Distinct
<1>9. \A q : /\ Holds(suspended, q)' <=> Holds(suspended, q)
             /\ Holds(evaluated, q)' <=> Holds(evaluated, q)
             /\ LeftFrom(post, PostFrom, q)' <=> LeftFrom(post, PostFrom, q)
             /\ LeftFrom(triggered, TriggeredFrom, q)' <=>
                    LeftFrom(triggered, TriggeredFrom, q) /\ q # p
  BY <1>2, <1>3, <1>4 DEF Holds, LeftFrom
<1>10. \A q \in Proc : q # p => Same(q)
  BY <1>2, <1>7, <1>9 DEF Same, SameWaits
<1>11. \E k \in Key : IsAt(p, k)'
  <2>1. CASE OnStack(p)' /\ Alive(p)'
    <3>1. IsAt(p, InCall)'
      BY <1>2, <1>5, <1>7, <1>9, <2>1, KeysDiffer DEF IsAt, SameWaits
    <3> QED
      BY <3>1, KeysDiffer
  <2>2. CASE ~OnStack(p)' /\ ~Alive(p)'
    <3>1. IsAt(p, Nowhere)'
      BY <1>2, <1>5, <1>7, <1>9, <2>2, KeysDiffer DEF IsAt, SameWaits
    <3> QED
      BY <3>1, KeysDiffer
  <2> QED
    BY <1>7, <2>1, <2>2
<1>12. Held'
  BY <1>7, <1>8, <1>10, <1>11, InvParts, AllDistinctParts, HeldMoves DEF SameCreated
<1> QED
  BY <1>7, <1>12

\* A step of the loop that runs no process.
LEMMA Quiet ==
  ASSUME Inv, UNCHANGED <<stack, sync, forkOf, branches>>, SameCreated
  PROVE  /\ Calls' /\ StackDistinct' /\ SameWaits
         /\ \A q : OnStack(q)' <=> OnStack(q)
<1>1. Keeps /\ SameJoins
  BY StackKeeps, JoinsSame
<1>2. Calls'
  BY <1>1, InvParts, CallsKeeps
<1>3. StackDistinct' /\ (\A q : OnStack(q)' <=> OnStack(q)) /\ (\A s : DoneOn(s)' <=> DoneOn(s))
  BY <1>1, InvParts, WhoKeeps
<1>4. SameWaits
  BY <1>3, WaitsKeep
<1> QED
  BY <1>2, <1>3, <1>4

LEMMA StepBeginEvaluate ==
  ASSUME Inv, BeginEvaluate
  PROVE  Calls' /\ Held'
<1>1. /\ phase \in {"initial", "resume"} /\ phase' = "evaluate"
      /\ evaluated' = suspended /\ suspended' = <<>>
      /\ UNCHANGED <<stack, sync, forkOf, branches, status, gone, held, post, triggered, waitFor>>
  BY DEF BeginEvaluate, procVars, syncVars
<1>2. evaluated = <<>>
  BY <1>1, InvParts DEF Base, Phases
<1>3. SameCreated
  BY <1>1, StatusSame
<1>4. Calls' /\ StackDistinct' /\ SameWaits /\ \A q : OnStack(q)' <=> OnStack(q)
  BY <1>1, <1>3, Quiet
<1>5. Distinct(<<>>) /\ \A q : ~Holds(<<>>, q)
  BY EmptyHolds
<1>6. QueuesDistinct'
  BY <1>1, <1>5, InvParts DEF QueuesDistinct, Distinct
<1>7. \A q : /\ ~Holds(suspended, q)' /\ ~Holds(evaluated, q)
             /\ Holds(evaluated, q)' <=> Holds(suspended, q)
             /\ LeftFrom(post, PostFrom, q)' <=> LeftFrom(post, PostFrom, q)
             /\ LeftFrom(triggered, TriggeredFrom, q)' <=> LeftFrom(triggered, TriggeredFrom, q)
  BY <1>1, <1>2, <1>5 DEF Holds, LeftFrom, PostFrom, TriggeredFrom
<1>8. \A q \in Proc : \E k \in Key : IsAt(q, k)'
  <2> TAKE q \in Proc
  <2>1. PICK k \in Key : IsAt(q, k)
    BY InvParts DEF Held
  <2>2. CASE k = InSuspended
    <3>1. IsAt(q, InEvaluated)'
      BY <1>1, <1>3, <1>4, <1>7, <2>1, <2>2, KeysDiffer DEF IsAt, SameWaits, Alive, SameCreated
    <3> QED
      BY <3>1, KeysDiffer
  <2>3. CASE k # InSuspended
    <3>1. IsAt(q, k)'
      BY <1>1, <1>3, <1>4, <1>7, <2>1, <2>3 DEF IsAt, SameWaits, Alive, SameCreated
    <3> QED
      BY <3>1
  <2> QED
    BY <2>2, <2>3
<1>9. Held'
  BY <1>1, <1>3, <1>4, <1>6, <1>8, InvParts, AllDistinctParts DEF Held, SameCreated
<1> QED
  BY <1>4, <1>9

LEMMA StepLoop ==
  ASSUME Inv, BeginPost \/ EndPost \/ BeginDynamic \/ EndDynamic
  PROVE  Calls' /\ Held'
<1>1. /\ UNCHANGED <<stack, sync, forkOf, branches, status, gone, held, suspended, evaluated, waitFor>>
      /\ SameCreated
  BY StatusSame DEF BeginPost, EndPost, BeginDynamic, EndDynamic, procVars, syncVars
<1>2. Calls' /\ StackDistinct' /\ SameWaits /\ \A q : OnStack(q)' <=> OnStack(q)
  BY <1>1, Quiet
<1>3. /\ QueuesDistinct'
      /\ \A q : /\ LeftFrom(post, PostFrom, q)' <=> LeftFrom(post, PostFrom, q)
                /\ LeftFrom(triggered, TriggeredFrom, q)' <=> LeftFrom(triggered, TriggeredFrom, q)
  <2>1. CASE BeginPost \/ BeginDynamic
    <3>1. PostFrom' = PostFrom /\ TriggeredFrom' = TriggeredFrom /\ UNCHANGED <<post, triggered>>
      BY <2>1 DEF BeginPost, BeginDynamic, PostFrom, TriggeredFrom
    <3> QED
      BY <1>1, <3>1, InvParts DEF QueuesDistinct, Distinct, LeftFrom
  <2>2. CASE EndPost
    <3>1. /\ PostFrom = pos /\ TriggeredFrom' = TriggeredFrom /\ post' = <<>> /\ triggered' = triggered
          /\ pos \in Nat /\ pos > Len(post)
      BY <2>2, InvParts DEF EndPost, PostFrom, TriggeredFrom, TypeOK
    <3>2. \A q : ~LeftFrom(post, PostFrom, q)
      BY <3>1, InvParts, LeftNone
    <3>3. Distinct(post') /\ \A q : ~LeftFrom(post', PostFrom', q)
      BY <3>1 DEF Distinct, LeftFrom
    <3> QED
      BY <1>1, <3>1, <3>2, <3>3, InvParts DEF QueuesDistinct, Distinct, LeftFrom
  <2>3. CASE EndDynamic
    <3>1. /\ TriggeredFrom = pos /\ PostFrom' = PostFrom /\ triggered' = <<>> /\ post' = post
          /\ pos \in Nat /\ pos > Len(triggered)
      BY <2>3, InvParts DEF EndDynamic, PostFrom, TriggeredFrom, TypeOK
    <3>2. \A q : ~LeftFrom(triggered, TriggeredFrom, q)
      BY <3>1, InvParts, LeftNone
    <3>3. Distinct(triggered') /\ \A q : ~LeftFrom(triggered', TriggeredFrom', q)
      BY <3>1 DEF Distinct, LeftFrom
    <3> QED
      BY <1>1, <3>1, <3>2, <3>3, InvParts DEF QueuesDistinct, Distinct, LeftFrom
  <2> QED
    BY <2>1, <2>2, <2>3
<1>4. \A q \in Proc : Same(q)
  BY <1>1, <1>2, <1>3 DEF Same, SameWaits, Alive, SameCreated, Holds
<1>5. Held'
  BY <1>1, <1>2, <1>3, <1>4, InvParts, AllDistinctParts, HeldStays DEF KeepsForever
<1> QED
  BY <1>2, <1>5

\* A process goes from the queue that is worked on to the end of another one.
LEMMA StepEvaluate ==
  ASSUME Inv, Evaluate
  PROVE  Calls' /\ Held'
<1>0. evaluated # <<>> /\ evaluated \in Seq(Proc) /\ Distinct(evaluated)
  BY InvParts DEF Evaluate, QueuesDistinct
<1>1. PICK p \in Proc : p = Head(evaluated)
  BY <1>0, TakeHead
<1>2. /\ phase = "evaluate" /\ UNCHANGED <<stack, sync, forkOf, branches, held, waitFor, pos, phase>>
      /\ evaluated' = Tail(evaluated)
  BY DEF Evaluate, syncVars
<1>3. /\ Distinct(evaluated') /\ ~Holds(evaluated', p) /\ Holds(evaluated, p)
      /\ \A q : Holds(evaluated, q) <=> q = p \/ Holds(evaluated', q)
  BY <1>0, <1>1, <1>2, TakeHeadHolds
<1>4. IsAt(p, InEvaluated)
  BY <1>3, InvParts, HeldAt
<1>5. p \in Created /\ p \notin gone
  BY <1>4, KeysDiffer DEF IsAt, Alive
<1>6. PostFrom = 1 /\ TriggeredFrom = 1 /\ PostFrom' = 1 /\ TriggeredFrom' = 1
  BY <1>2 DEF PostFrom, TriggeredFrom
<1>7. /\ post' \in Seq(Proc) /\ triggered' \in Seq(Proc)
  BY InvParts, BaseEvaluate DEF Base, TypeOK
<1>8. \A q : /\ LeftFrom(post, PostFrom, q) <=> Holds(post, q)
             /\ LeftFrom(triggered, TriggeredFrom, q) <=> Holds(triggered, q)
             /\ LeftFrom(post, PostFrom, q)' <=> Holds(post', q)
             /\ LeftFrom(triggered, TriggeredFrom, q)' <=> Holds(triggered', q)
  BY <1>6, <1>7, InvParts, LeftAll
<1>9. /\ ~Holds(suspended, p) /\ ~Holds(post, p) /\ ~Holds(triggered, p)
  BY <1>4, <1>8, KeysDiffer DEF IsAt
<1>10. CASE status[p] = "KILLED"
  <2>1. gone' = gone \cup {p} /\ UNCHANGED <<status, suspended, post, triggered>>
    BY <1>1, <1>10 DEF Evaluate
  <2>2. SameCreated
    BY <2>1, StatusSame
  <2>3. Calls' /\ StackDistinct' /\ SameWaits /\ \A q : OnStack(q)' <=> OnStack(q)
    BY <1>2, <2>2, Quiet
  <2>4. QueuesDistinct'
    BY <1>3, <2>1, InvParts DEF QueuesDistinct, Distinct
  <2>5. \A q \in Proc : q # p => Same(q)
    BY <1>2, <1>3, <1>8, <2>1, <2>2, <2>3 DEF Same, SameWaits, Alive, SameCreated, Holds
  <2>6. IsAt(p, Nowhere)'
    BY <1>2, <1>3, <1>4, <1>5, <1>8, <2>1, <2>2, <2>3, KeysDiffer
       DEF IsAt, SameWaits, Alive, SameCreated, Holds
  <2>7. Held'
    BY <1>2, <1>5, <2>1, <2>2, <2>3, <2>4, <2>5, <2>6, KeysDiffer, InvParts, AllDistinctParts, HeldMoves
       DEF KeepsForever, SameCreated
  <2> QED
    BY <2>3, <2>7
<1>11. CASE status[p] # "KILLED"
  <2>1. /\ gone' = gone /\ status' = [status EXCEPT ![p] = "WAITING"]
        /\ post' = IF destructive[p] THEN Append(post, p) ELSE post
        /\ triggered' = IF ~destructive[p] /\ Eval(p) THEN Append(triggered, p) ELSE triggered
        /\ suspended' = IF ~destructive[p] /\ ~Eval(p) THEN Append(suspended, p) ELSE suspended
    BY <1>1, <1>11 DEF Evaluate
  <2>2. SameCreated
    BY <1>5, <2>1, InvParts, StatusSet
  <2>3. Calls' /\ StackDistinct' /\ SameWaits /\ \A q : OnStack(q)' <=> OnStack(q)
    BY <1>2, <2>2, Quiet
  <2>5. /\ Distinct(Append(suspended, p)) /\ Distinct(Append(post, p)) /\ Distinct(Append(triggered, p))
        /\ \A q : /\ Holds(Append(suspended, p), q) <=> Holds(suspended, q) \/ q = p
                  /\ Holds(Append(post, p), q) <=> Holds(post, q) \/ q = p
                  /\ Holds(Append(triggered, p), q) <=> Holds(triggered, q) \/ q = p
    BY <1>9, InvParts, AddLastHolds DEF QueuesDistinct
  <2>6. QueuesDistinct'
    BY <1>3, <2>1, <2>5, InvParts DEF QueuesDistinct
  <2>7. \A q \in Proc : q # p => Same(q)
    BY <1>2, <1>3, <1>8, <2>1, <2>2, <2>3, <2>5 DEF Same, SameWaits, Alive, SameCreated
  <2>8. \E k \in Key : IsAt(p, k)'
    <3>1. CASE destructive[p]
      <4>1. post' = Append(post, p) /\ triggered' = triggered /\ suspended' = suspended
        BY <2>1, <3>1, Numbers
      <4>2. IsAt(p, InPost)'
        BY <1>2, <1>3, <1>4, <1>5, <1>8, <2>1, <2>2, <2>3, <2>5, <4>1, KeysDiffer
           DEF IsAt, SameWaits, Alive, SameCreated
      <4> QED
        BY <4>2, KeysDiffer
    <3>2. CASE ~destructive[p] /\ Eval(p)
      <4>1. post' = post /\ triggered' = Append(triggered, p) /\ suspended' = suspended
        BY <2>1, <3>2, Numbers
      <4>2. IsAt(p, InTriggered)'
        BY <1>2, <1>3, <1>4, <1>5, <1>8, <2>1, <2>2, <2>3, <2>5, <4>1, KeysDiffer
           DEF IsAt, SameWaits, Alive, SameCreated
      <4> QED
        BY <4>2, KeysDiffer
    <3>3. CASE ~destructive[p] /\ ~Eval(p)
      <4>1. post' = post /\ triggered' = triggered /\ suspended' = Append(suspended, p)
        BY <2>1, <3>3, Numbers
      <4>2. IsAt(p, InSuspended)'
        BY <1>2, <1>3, <1>4, <1>5, <1>8, <2>1, <2>2, <2>3, <2>5, <4>1, KeysDiffer
           DEF IsAt, SameWaits, Alive, SameCreated
      <4> QED
        BY <4>2, KeysDiffer
    <3> QED
      BY <3>1, <3>2, <3>3
  <2>9. Held'
    BY <1>2, <2>1, <2>2, <2>3, <2>6, <2>7, <2>8, InvParts, AllDistinctParts, HeldMoves
       DEF KeepsForever, SameCreated
  <2> QED
    BY <2>3, <2>9
<1> QED
  BY <1>10, <1>11

LEMMA StepPostUpdate ==
  ASSUME Inv, PostUpdate
  PROVE  Calls' /\ Held'
<1>0. pos \in 1 .. Len(post) /\ post \in Seq(Proc) /\ Distinct(post)
  BY InvParts, LenProperties DEF PostUpdate, TypeOK, QueuesDistinct
<1>1. PICK p \in Proc, i \in 1 .. Len(post) : p = post[i] /\ i = pos
  BY <1>0, ElementOfSeq
<1>2. /\ phase = "post" /\ pos' = i + 1
      /\ UNCHANGED <<stack, status, gone, sync, forkOf, branches, held, evaluated, post, waitFor, phase>>
      /\ triggered' = IF trigger[p] THEN Append(triggered, p) ELSE triggered
      /\ suspended' = IF trigger[p] THEN suspended ELSE Append(suspended, p)
  BY <1>1 DEF PostUpdate, procVars, syncVars
<1>3. /\ LeftFrom(post, i, p)
      /\ \A q : LeftFrom(post, i + 1, q) <=> LeftFrom(post, i, q) /\ q # p
  BY <1>0, <1>1, LeftNext
<1>4. PostFrom = i /\ PostFrom' = i + 1 /\ TriggeredFrom = 1 /\ TriggeredFrom' = 1
  BY <1>1, <1>2 DEF TriggeredFrom, PostFrom
<1>5. IsAt(p, InPost)
  BY <1>3, <1>4, InvParts, HeldAt
<1>6. triggered' \in Seq(Proc)
  BY InvParts, BasePostUpdate DEF Base, TypeOK
<1>7. \A q : /\ LeftFrom(triggered, TriggeredFrom, q) <=> Holds(triggered, q)
             /\ LeftFrom(triggered, TriggeredFrom, q)' <=> Holds(triggered', q)
             /\ LeftFrom(post, PostFrom, q)' <=> LeftFrom(post, PostFrom, q) /\ q # p
             /\ Holds(evaluated, q)' <=> Holds(evaluated, q)
  <2>1. \A q : /\ LeftFrom(triggered, TriggeredFrom, q) <=> Holds(triggered, q)
               /\ LeftFrom(triggered, TriggeredFrom, q)' <=> Holds(triggered', q)
    BY <1>4, <1>6, InvParts, LeftAll
  <2>2. \A q : /\ LeftFrom(post, PostFrom, q)' <=> LeftFrom(post, i + 1, q)
               /\ Holds(evaluated, q)' <=> Holds(evaluated, q)
    BY <1>2, <1>4 DEF LeftFrom, Holds
  <2> QED
    BY <1>3, <1>4, <2>1, <2>2
<1>8. ~Holds(suspended, p) /\ ~Holds(triggered, p)
  BY <1>5, <1>7, KeysDiffer DEF IsAt
<1>9. /\ Distinct(Append(suspended, p)) /\ Distinct(Append(triggered, p))
      /\ \A q : /\ Holds(Append(suspended, p), q) <=> Holds(suspended, q) \/ q = p
                /\ Holds(Append(triggered, p), q) <=> Holds(triggered, q) \/ q = p
  BY <1>8, InvParts, AddLastHolds DEF QueuesDistinct
<1>10. SameCreated
  BY <1>2, StatusSame
<1>11. Calls' /\ StackDistinct' /\ SameWaits /\ \A q : OnStack(q)' <=> OnStack(q)
  BY <1>2, <1>10, Quiet
<1>12. QueuesDistinct'
  BY <1>2, <1>9, InvParts DEF QueuesDistinct
<1>13. \A q \in Proc : q # p => Same(q)
  BY <1>2, <1>7, <1>9, <1>10, <1>11 DEF Same, SameWaits, Alive, SameCreated
<1>14. \E k \in Key : IsAt(p, k)'
  <2>1. CASE trigger[p]
    <3>1. triggered' = Append(triggered, p) /\ suspended' = suspended
      BY <1>2, <2>1
    <3>2. IsAt(p, InTriggered)'
      BY <1>2, <1>5, <1>7, <1>9, <1>10, <1>11, <3>1, KeysDiffer DEF IsAt, SameWaits, Alive, SameCreated
    <3> QED
      BY <3>2, KeysDiffer
  <2>2. CASE ~trigger[p]
    <3>1. triggered' = triggered /\ suspended' = Append(suspended, p)
      BY <1>2, <2>2
    <3>2. IsAt(p, InSuspended)'
      BY <1>2, <1>5, <1>7, <1>9, <1>10, <1>11, <3>1, KeysDiffer DEF IsAt, SameWaits, Alive, SameCreated
    <3> QED
      BY <3>2, KeysDiffer
  <2> QED
    BY <2>1, <2>2
<1>15. Held'
  BY <1>2, <1>10, <1>11, <1>12, <1>13, <1>14, InvParts, AllDistinctParts, HeldMoves
     DEF KeepsForever, SameCreated
<1> QED
  BY <1>11, <1>15

LEMMA InvStep ==
  ASSUME Inv, [Next]_vars
  PROVE  Inv'
<1>1. Base'
  BY BaseStep DEF Inv
<1>2. ASSUME NEW p \in Proc, Statement(p) PROVE Calls' /\ Held'
  BY <1>2, StepAwaitHeld, StepAwaitForever, StepAwaitDynamic, StepNoCall, StepFork DEF Statement
<1>3. ASSUME UNCHANGED vars PROVE Calls' /\ Held'
  <2>1. /\ UNCHANGED <<stack, gone, sync, forkOf, branches, held, suspended, evaluated, post,
                       triggered, pos, phase, waitFor, status>>
    BY <1>3 DEF vars, procVars, syncVars, dynVars
  <2> QED
    BY <2>1, StepSame, StatusSame
<1>4. Calls' /\ Held'
  BY <1>2, <1>3, StepEnd, StepDone, StepStartBranch, StepJoin, StepEndBranch, StepBeginEvaluate,
     StepLoop, StepEvaluate, StepPostUpdate, StepResumeHeld, StepResumeTriggered DEF Next
<1> QED
  BY <1>1, <1>4 DEF Inv

LEMMA InvInit ==
  ASSUME Init
  PROVE  Inv
<1>1. Base
  BY BaseInit
<1>2. 1 \in Proc /\ Body(1) \in Frame /\ Body(1).p = 1 /\ Body(1).at = "body"
  BY Numbers, FrameFields DEF Proc
<1>3. Depth = 1 /\ Fr(1) = Body(1) /\ 1 \in 1 .. 1 /\ \A d \in 1 .. 1 : d = 1
  BY DEF Init, Depth, Fr
<1>4. Created = {1}
  BY <1>2 DEF Init, Created
<1>5. Calls
  <2>1. Creation
    BY <1>4, Numbers DEF Init, Creation, Proc
  <2>2. Frames /\ Nesting
    BY <1>2, <1>3 DEF Frames, Nesting
  <2> QED
    BY <2>1, <2>2 DEF Calls
<1>6. (\A q : OnStack(q) <=> q = 1) /\ StackDistinct
  BY <1>2, <1>3 DEF OnStack, StackDistinct
<1>7. /\ suspended = <<>> /\ evaluated = <<>> /\ post = <<>> /\ triggered = <<>>
      /\ held = {} /\ gone = {}
      /\ \A s \in Sync : sync[s].susp = None
      /\ \A p \in Proc : waitFor[p] = "fork"
  BY DEF Init
<1>8. Len(<<>>) = 0 /\ (\A q : ~Holds(<<>>, q)) /\ Distinct(<<>>)
  BY EmptyHolds
<1>9. \A q : /\ ~Holds(suspended, q) /\ ~Holds(evaluated, q)
             /\ ~LeftFrom(post, PostFrom, q) /\ ~LeftFrom(triggered, TriggeredFrom, q)
  BY <1>7, <1>8 DEF LeftFrom
<1>10. \A p \in Proc : \A s \in Sync : ~Joins(p, s)
  BY <1>7, Numbers DEF Joins
<1>11. IsAt(1, InCall)
  BY <1>2, <1>4, <1>6, <1>7, <1>9, <1>10, KeysDiffer DEF IsAt, Alive
<1>12. \A p \in Proc : p # 1 => IsAt(p, Nowhere)
  BY <1>4, <1>6, <1>7, <1>9, <1>10, KeysDiffer DEF IsAt, Alive
<1>13. Held
  <2>1. \A p \in Proc : \E k \in Key : IsAt(p, k)
    BY <1>11, <1>12, KeysDiffer
  <2>2. AllDistinct
    BY <1>6, <1>7, <1>8, AllDistinctParts DEF QueuesDistinct
  <2> QED
    BY <1>7, <2>1, <2>2 DEF Held
<1> QED
  BY <1>1, <1>5, <1>13 DEF Inv

\* However calls nest, done() resumes a process at most once, and every process is at
\* one place.
THEOREM Invariance == Spec => []Inv
BY InvInit, InvStep, PTL DEF Spec

(***************************************************************************)
(* Every process is held once                                              *)
(***************************************************************************)

\* Set S has one element if c, else none.
Sole(S, c) == (c => \E x : S = {x}) /\ (~c => S = {})

LEMMA Tagged ==
  ASSUME NEW t, NEW S, NEW c, Sole(S, c)
  PROVE  Sole({t} \X S, c)
<1>1. ASSUME c PROVE \E y : {t} \X S = {y}
  <2>1. PICK x : S = {x}
    BY <1>1 DEF Sole
  <2>2. {t} \X S = {<<t, x>>}
    BY <2>1
  <2> QED
    BY <2>2
<1>2. ASSUME ~c PROVE {t} \X S = {}
  BY <1>2 DEF Sole
<1> QED
  BY <1>1, <1>2 DEF Sole

\* The positions of a process in a queue without duplicates.
LEMMA SolePosition ==
  ASSUME NEW q \in Seq(Proc), Distinct(q), NEW p, NEW n
  PROVE  /\ Sole(At(q, p), Holds(q, p))
         /\ Sole({i \in At(q, p) : i >= n}, LeftFrom(q, n, p))
<1>1. DOMAIN q = 1 .. Len(q)
  BY LenProperties
<1>2. \A i, j \in At(q, p) : i = j
  BY <1>1 DEF At, Distinct
<1>3. (At(q, p) # {} <=> Holds(q, p)) /\ ({i \in At(q, p) : i >= n} # {} <=> LeftFrom(q, n, p))
  BY <1>1 DEF At, Holds, LeftFrom
<1>4. ASSUME NEW S, S # {}, \A i, j \in S : i = j PROVE \E x : S = {x}
  <2>1. PICK x : x \in S
    BY <1>4
  <2>2. S = {x}
    BY <1>4, <2>1
  <2> QED
    BY <2>2
<1> DEFINE T == {i \in At(q, p) : i >= n}
<1>5. \A i, j \in T : i = j
  BY <1>2
<1>6. Sole(At(q, p), Holds(q, p))
  BY <1>2, <1>3, <1>4 DEF Sole
<1>7. Sole(T, LeftFrom(q, n, p))
  <2>1. T # {} <=> LeftFrom(q, n, p)
    BY <1>3
  <2> HIDE DEF T
  <2> QED
    BY <1>4, <1>5, <2>1 DEF Sole
<1> QED
  BY <1>6, <1>7

\* The calls, counted from either end.
LEMMA CallIndex ==
  ASSUME Base
  PROVE  /\ \A i \in DOMAIN stack : Depth + 1 - i \in 1 .. Depth /\ stack[i] = Fr(Depth + 1 - i)
         /\ \A d \in 1 .. Depth : \E i \in DOMAIN stack : stack[i] = Fr(d) /\ d = Depth + 1 - i
<1>1. DOMAIN stack = 1 .. Len(stack) /\ Len(stack) \in Nat
  BY LenProperties DEF Base, TypeOK
<1>2. ASSUME NEW i \in 1 .. Len(stack)
      PROVE  Len(stack) + 1 - i \in 1 .. Len(stack) /\ Len(stack) + 1 - (Len(stack) + 1 - i) = i
  BY <1>1
<1>3. \A i \in DOMAIN stack : Depth + 1 - i \in 1 .. Depth /\ stack[i] = Fr(Depth + 1 - i)
  BY <1>1, <1>2 DEF Depth, Fr
<1>4. ASSUME NEW d \in 1 .. Depth PROVE \E i \in DOMAIN stack : stack[i] = Fr(d) /\ d = Depth + 1 - i
  <2>1. PICK i : i = Len(stack) + 1 - d
    OBVIOUS
  <2>2. i \in DOMAIN stack /\ d = Depth + 1 - i /\ stack[i] = Fr(d)
    BY <1>1, <2>1 DEF Depth, Fr
  <2> QED
    BY <2>2
<1> QED
  BY <1>3, <1>4

LEMMA SoleCall ==
  ASSUME Inv, NEW p
  PROVE  Sole({i \in DOMAIN stack : stack[i].p = p}, OnStack(p))
<1> DEFINE T == {i \in DOMAIN stack : stack[i].p = p}
<1>0. /\ \A i \in DOMAIN stack : Depth + 1 - i \in 1 .. Depth /\ stack[i] = Fr(Depth + 1 - i)
      /\ \A d \in 1 .. Depth : \E i \in DOMAIN stack : stack[i] = Fr(d) /\ d = Depth + 1 - i
  BY InvParts, CallIndex
<1>1. T # {} <=> OnStack(p)
  BY <1>0 DEF OnStack
<1>2. ASSUME NEW i \in T, NEW j \in T PROVE i = j
  <2>1. Depth + 1 - i = Depth + 1 - j
    <3>1. PICK d \in 1 .. Depth, e \in 1 .. Depth : d = Depth + 1 - i /\ e = Depth + 1 - j
      BY <1>0
    <3>2. Fr(d).p = p /\ Fr(e).p = p
      BY <1>0, <3>1
    <3> QED
      BY <3>1, <3>2, InvParts DEF StackDistinct
  <2>2. i \in Nat /\ j \in Nat /\ Depth \in Nat
    BY InvParts, LenProperties DEF Depth
  <2> QED
    BY <2>1, <2>2
<1>3. T # {} => \E x : T = {x}
  BY <1>2
<1> QED
  BY <1>1, <1>3 DEF Sole

LEMMA InDoneDoneOn ==
  ASSUME Base, NEW s
  PROVE  InDone(s) <=> sync[s].count = 0 /\ DoneOn(s)
BY CallIndex DEF InDone, DoneOn

\* A process that has not ended is on the stack or held by one queue or join, once,
\* and one that has ended by none, for any number of nested forks, joins and events:
\* the handle that a join keeps while done() runs is the only one of a process
\* that runs, and nobody resumes it again.
THEOREM ProcessesHeldOnce == Spec => []HeldOnce
<1>1. Inv => HeldOnce
  <2> SUFFICES ASSUME Inv, NEW p \in Proc
               PROVE  Cardinality(Places(p)) = IF p \in Created \ gone THEN 1 ELSE 0
    BY DEF HeldOnce
  <2> DEFINE P1 == {"call"} \X {i \in DOMAIN stack : stack[i].p = p}
             P2 == {"held"} \X (held \cap {p})
             P3 == {"suspended"} \X At(suspended, p)
             P4 == {"evaluated"} \X At(evaluated, p)
             P5 == {"post"} \X {i \in At(post, p) : ~Resumed(i)}
             P6 == {"triggered"} \X {i \in At(triggered, p) : phase = "dynamic" => ~Resumed(i)}
             P7 == {"join"} \X {s \in Sync : sync[s].susp = p /\ ~InDone(s)}
  <2>1. Places(p) = P1 \cup P2 \cup P3 \cup P4 \cup P5 \cup P6 \cup P7
    BY DEF Places
  <2>2. PICK k \in Key : IsAt(p, k)
    BY InvParts DEF Held
  <2>3. Sole(P1, k = InCall)
    <3>1. Sole({i \in DOMAIN stack : stack[i].p = p}, k = InCall)
      BY <2>2, SoleCall DEF IsAt, Sole
    <3> QED
      BY <3>1, Tagged
  <2>4. Sole(P2, k = InHeld)
    <3>1. Sole(held \cap {p}, k = InHeld)
      BY <2>2 DEF IsAt, Sole
    <3> QED
      BY <3>1, Tagged
  <2>5. Sole(P3, k = InSuspended) /\ Sole(P4, k = InEvaluated)
    <3>1. Sole(At(suspended, p), Holds(suspended, p)) /\ Sole(At(evaluated, p), Holds(evaluated, p))
      BY InvParts, SolePosition DEF QueuesDistinct
    <3>2. Sole(At(suspended, p), k = InSuspended) /\ Sole(At(evaluated, p), k = InEvaluated)
      BY <2>2, <3>1 DEF IsAt, Sole
    <3> QED
      BY <3>2, Tagged
  <2>6. Sole(P5, k = InPost)
    <3>1. Sole({i \in At(post, p) : i >= PostFrom}, LeftFrom(post, PostFrom, p))
      BY InvParts, SolePosition DEF QueuesDistinct
    <3>2. {i \in At(post, p) : ~Resumed(i)} = {i \in At(post, p) : i >= PostFrom}
      <4>1. ASSUME NEW i \in At(post, p) PROVE ~Resumed(i) <=> i >= PostFrom
        <5>1. i \in 1 .. Len(post) /\ Len(post) \in Nat /\ pos \in Nat
          BY InvParts, LenProperties DEF At, TypeOK
        <5>2. phase # "dynamic"
          <6>1. post # <<>>
            BY <5>1, EmptySeq
          <6> QED
            BY <6>1, InvParts DEF Base, Phases
        <5> QED
          BY <5>1, <5>2 DEF Resumed, PostFrom
      <4> QED
        BY <4>1
    <3>3. Sole({i \in At(post, p) : ~Resumed(i)}, k = InPost)
      BY <2>2, <3>1, <3>2 DEF IsAt, Sole
    <3> QED
      BY <3>3, Tagged
  <2>7. Sole(P6, k = InTriggered)
    <3>1. Sole({i \in At(triggered, p) : i >= TriggeredFrom}, LeftFrom(triggered, TriggeredFrom, p))
      BY InvParts, SolePosition DEF QueuesDistinct
    <3>2. {i \in At(triggered, p) : phase = "dynamic" => ~Resumed(i)}
            = {i \in At(triggered, p) : i >= TriggeredFrom}
      <4>1. ASSUME NEW i \in At(triggered, p)
            PROVE  (phase = "dynamic" => ~Resumed(i)) <=> i >= TriggeredFrom
        <5>1. i \in 1 .. Len(triggered) /\ Len(triggered) \in Nat /\ pos \in Nat
          BY InvParts, LenProperties DEF At, TypeOK
        <5> QED
          BY <5>1 DEF Resumed, TriggeredFrom
      <4> QED
        BY <4>1
    <3>3. Sole({i \in At(triggered, p) : phase = "dynamic" => ~Resumed(i)}, k = InTriggered)
      BY <2>2, <3>1, <3>2 DEF IsAt, Sole
    <3> QED
      BY <3>3, Tagged
  <2>8. Sole(P7, \E s \in Sync : k = InJoin(s))
    <3> DEFINE J == {s \in Sync : sync[s].susp = p /\ ~InDone(s)}
    <3>1. \A s \in Sync : s \in J <=> k = InJoin(s)
      BY <2>2, InvParts, InDoneDoneOn DEF IsAt, Joins
    <3> HIDE DEF J
    <3>2. J \subseteq Sync
      BY DEF J
    <3>3. Sole(J, \E s \in Sync : k = InJoin(s))
      <4>1. ASSUME NEW s \in Sync, k = InJoin(s) PROVE J = {s}
        BY <3>1, <3>2, <4>1, KeysDiffer
      <4> QED
        BY <3>1, <3>2, <4>1 DEF Sole
    <3>4. Sole({"join"} \X J, \E s \in Sync : k = InJoin(s))
      BY <3>3, Tagged
    <3> QED
      BY <3>4 DEF J
  <2> HIDE DEF P1, P2, P3, P4, P5, P6, P7
  <2>9. CASE k = Nowhere
    <3>1. p \notin Created \ gone
      BY <2>2, <2>9 DEF IsAt, Alive
    <3>2. Places(p) = {}
      BY <2>1, <2>3, <2>4, <2>5, <2>6, <2>7, <2>8, <2>9, KeysDiffer DEF Sole
    <3> QED
      BY <3>1, <3>2, FS_EmptySet
  <2>10. CASE k # Nowhere
    <3>1. p \in Created \ gone
      BY <2>2, <2>10 DEF IsAt, Alive
    <3>2. \E y : Places(p) = {y}
      <4>1. CASE k = InCall
        BY <2>1, <2>3, <2>4, <2>5, <2>6, <2>7, <2>8, <4>1, KeysDiffer DEF Sole
      <4>2. CASE k = InHeld
        BY <2>1, <2>3, <2>4, <2>5, <2>6, <2>7, <2>8, <4>2, KeysDiffer DEF Sole
      <4>3. CASE k = InSuspended
        BY <2>1, <2>3, <2>4, <2>5, <2>6, <2>7, <2>8, <4>3, KeysDiffer DEF Sole
      <4>4. CASE k = InEvaluated
        BY <2>1, <2>3, <2>4, <2>5, <2>6, <2>7, <2>8, <4>4, KeysDiffer DEF Sole
      <4>5. CASE k = InPost
        BY <2>1, <2>3, <2>4, <2>5, <2>6, <2>7, <2>8, <4>5, KeysDiffer DEF Sole
      <4>6. CASE k = InTriggered
        BY <2>1, <2>3, <2>4, <2>5, <2>6, <2>7, <2>8, <4>6, KeysDiffer DEF Sole
      <4>7. CASE \E s \in Sync : k = InJoin(s)
        BY <2>1, <2>3, <2>4, <2>5, <2>6, <2>7, <2>8, <4>7, KeysDiffer DEF Sole
      <4> QED
        BY <2>10, <4>1, <4>2, <4>3, <4>4, <4>5, <4>6, <4>7 DEF Key
    <3>3. PICK y : Places(p) = {y}
      BY <3>2
    <3>4. Cardinality(Places(p)) = 1
      BY <3>3, FS_Singleton
    <3> QED
      BY <3>1, <3>4
  <2> QED
    BY <2>9, <2>10
<1> QED
  BY <1>1, Invariance, PTL

(***************************************************************************)
(* Events reach those who wait                                             *)
(***************************************************************************)

\* Nobody is put on the stack but a new process and one that is resumed.
NotPushed(q) == OnStack(q)' => OnStack(q)

LEMMA OnStackStays ==
  ASSUME Inv, [Next]_vars, NEW q \in owed', q \in owed, q \in Created
  PROVE  NotPushed(q)
<1>1. ASSUME stack' = stack PROVE NotPushed(q)
  BY <1>1, StackKeeps, InvParts, WhoKeeps DEF NotPushed
<1>2. ASSUME stack # <<>>, stack' = Tail(stack) PROVE NotPushed(q)
  <2>1. PICK n : n = Depth
    OBVIOUS
  <2>2. Pops(n)
    BY <1>2, <2>1, InvParts, StackPops
  <2> QED
    BY <2>2, InvParts, WhoPops DEF NotPushed
<1>3. ASSUME stack # <<>>, Top.at # "done", NEW f \in Frame, f.p = Top.p, stack' = <<f>> \o Tail(stack)
      PROVE  NotPushed(q)
  <2>1. PICK n : n = Depth /\ Top = Fr(n)
    BY <1>3, Innermost
  <2>2. Replaces(n, f)
    BY <1>3, <2>1, InvParts, StackReplaces
  <2> QED
    BY <1>3, <2>1, <2>2, InvParts, WhoReplaces DEF NotPushed
<1>4. ASSUME stack # <<>>, Top.at # "done", NEW f \in Frame, f.p = Top.p, NEW r \in Proc, ~OnStack(r),
             stack' = <<Body(r)>> \o (<<f>> \o Tail(stack)), r # q
      PROVE  NotPushed(q)
  <2>1. PICK n : n = Depth /\ Top = Fr(n)
    BY <1>4, Innermost
  <2>2. PICK g \in Frame : g = Body(r) /\ g.p = r /\ g.at = "body"
    BY FrameFields
  <2>3. Pushes(n, f, g)
    BY <1>4, <2>1, <2>2, InvParts, StackPushes
  <2>4. Fr(n).at # "done" /\ f.p = Fr(n).p /\ ~OnStack(g.p) /\ StackDistinct
    BY <1>4, <2>1, <2>2, InvParts
  <2>5. OnStack(q)' <=> (OnStack(q) \/ q = g.p)
    BY <2>2, <2>3, <2>4, WhoPushes
  <2> QED
    BY <1>4, <2>2, <2>5 DEF NotPushed
<1>5. ASSUME stack = <<>>, NEW r \in Proc, Resume(r, <<>>) PROVE NotPushed(q)
  <2>1. q # r /\ (stack' = stack \/ stack' = <<Body(r)>> \o <<>>)
    BY <1>5 DEF Resume
  <2>2. PICK g \in Frame : g = Body(r) /\ g.p = r /\ g.at = "body"
    BY FrameFields
  <2>3. CASE stack' = <<Body(r)>> \o <<>>
    <3>1. Enters(g)
      BY <1>5, <2>2, <2>3, StackEnters
    <3> QED
      BY <2>1, <2>2, <3>1, WhoEnters DEF NotPushed
  <2> QED
    BY <1>1, <2>1, <2>3
<1>6. ASSUME NEW p \in Proc, Statement(p) PROVE NotPushed(q)
  <2>1. CASE AwaitHeld(p) \/ AwaitForever(p) \/ \E w \in Waitable : AwaitDynamic(p, w)
    BY <1>2, <2>1 DEF AwaitHeld, AwaitForever, AwaitDynamic, Running, Suspend
  <2>2. CASE DisableFork(p) \/ (\E e \in Event : FireEvent(p, e))
             \/ (\E r \in Proc, s \in {"KILLED", "RUNNING"} : SetStatus(p, r, s))
    BY <1>1, <2>2 DEF DisableFork, FireEvent, SetStatus
  <2>3. ASSUME NEW kind \in {"join", "any", "none"}, NEW m \in 1 .. 2, Fork(p, kind, m)
        PROVE  NotPushed(q)
    <3>1. /\ stack # <<>> /\ Top.p = p /\ Top.at = "body"
          /\ \E s \in Sync \cup {None} :
                stack' = <<[p |-> p, at |-> "fork", left |-> m, sync |-> s]>> \o Tail(stack)
      BY <2>3 DEF Fork, Running
    <3>2. PICK s \in Sync \cup {None} :
            stack' = <<[p |-> p, at |-> "fork", left |-> m, sync |-> s]>> \o Tail(stack)
      BY <3>1
    <3>3. PICK f : f = [p |-> p, at |-> "fork", left |-> m, sync |-> s]
      OBVIOUS
    <3>4. f \in Frame /\ f.p = p
      BY <3>3 DEF Frame
    <3> QED
      BY <1>3, <3>1, <3>2, <3>3, <3>4
  <2> QED
    BY <1>6, <2>1, <2>2, <2>3 DEF Statement
<1>7. ASSUME NEW p \in Proc, Done(p) PROVE NotPushed(q)
  <2>1. PICK n \in Nat \ {0}, s \in Sync, f \in Frame, c \in Nat, e \in Nat, r \in Proc \cup {None} :
           Completes(p, n, s, f, c, e, r)
    BY <1>7, DoneFacts
  <2>2. /\ stack # <<>> /\ Top.at # "done" /\ f.p = Top.p
    BY <1>7, <2>1, FrameFields DEF Completes, Done
  <2>3. CASE stack' = <<f>> \o Tail(stack)
    BY <1>3, <2>2, <2>3
  <2>4. CASE e = 0 /\ r # None /\ Resume(r, <<f>> \o Tail(stack)) /\ stack' # <<f>> \o Tail(stack)
    <3>1. r # q /\ stack' = <<Body(r)>> \o (<<f>> \o Tail(stack)) /\ r \in Proc
      BY <2>4 DEF Resume
    <3>2. ~OnStack(r)
      <4>1. /\ n = Depth /\ Fr(n) = Body(p) /\ forkOf[p] = s /\ sync[s].susp = r
        BY <2>1 DEF Completes
      <4>2. Fr(n).p = p /\ Fr(n).at = "body"
        BY <4>1, FrameFields
      <4>3. ~DoneOn(s)
        BY <2>4, <4>1, <4>2, NoOtherDone
      <4>4. IsAt(r, InJoin(s))
        BY <3>1, <4>1, <4>3, InvParts, HeldAt DEF Joins
      <4> QED
        BY <4>4, KeysDiffer DEF IsAt
    <3> QED
      BY <1>4, <2>2, <3>1, <3>2
  <2> QED
    BY <2>1, <2>3, <2>4 DEF Completes
<1>8. ASSUME StartBranch PROVE NotPushed(q)
  <2>1. stack # <<>> /\ Top.at = "fork" /\ Top.left > 0
    BY <1>8 DEF StartBranch
  <2>2. Top \in Frame
    BY <2>1, InvParts, TopFrame
  <2>3. PICK f : f = [Top EXCEPT !.left = @ - 1]
    OBVIOUS
  <2>4. f \in Frame /\ f.p = Top.p
    <3>1. Top.left - 1 \in Nat /\ Top.p \in Proc
      BY <2>1, <2>2, FrameFields
    <3> QED
      BY <2>2, <2>3, <3>1 DEF Frame
  <2>5. PICK r \in Proc : IsNewProc(r) /\ stack' = <<Body(r)>> \o (<<f>> \o Tail(stack))
    BY <1>8, <2>3 DEF StartBranch
  <2>6. r \notin Created /\ r # q
    BY <2>5 DEF IsNewProc
  <2>7. ~OnStack(r)
    BY <2>6, InvParts, OnStackAlive
  <2> QED
    BY <1>4, <2>1, <2>4, <2>5, <2>6, <2>7
<1>9. ASSUME Join PROVE NotPushed(q)
  <2>1. stack # <<>> /\ Top.at = "fork"
        /\ (stack' = Tail(stack) \/ stack' = <<Body(Top.p)>> \o Tail(stack))
    BY <1>9 DEF Join
  <2>2. PICK p \in Proc : p = Top.p
    BY <2>1, InvParts, TopFrame, FrameFields
  <2> QED
    BY <1>2, <1>3, <2>1, <2>2, FrameFields
<1>10. ASSUME EndBranch \/ \E p \in Proc : End(p) PROVE NotPushed(q)
  BY <1>2, <1>10 DEF EndBranch, Cleared, End
<1>11. ASSUME BeginEvaluate \/ Evaluate \/ BeginPost \/ PostUpdate \/ EndPost \/ BeginDynamic
              \/ EndDynamic \/ UNCHANGED vars
       PROVE  NotPushed(q)
  BY <1>1, <1>11 DEF BeginEvaluate, Evaluate, BeginPost, PostUpdate, EndPost, BeginDynamic,
     EndDynamic, vars, procVars
<1>12. ASSUME NEW p \in Proc, ResumeHeld(p) PROVE NotPushed(q)
  BY <1>5, <1>12 DEF ResumeHeld
<1>13. ASSUME ResumeTriggered PROVE NotPushed(q)
  <2>1. pos \in 1 .. Len(triggered) /\ triggered \in Seq(Proc)
    BY <1>13, InvParts, LenProperties DEF ResumeTriggered, TypeOK
  <2>2. PICK r \in Proc : r = triggered[pos]
    BY <2>1, ElementOfSeq
  <2>3. stack = <<>> /\ Resume(r, <<>>)
    BY <1>13, <2>2 DEF ResumeTriggered
  <2> QED
    BY <1>5, <2>3
<1> QED
  BY <1>6, <1>7, <1>8, <1>9, <1>10, <1>11, <1>12, <1>13 DEF Next

\* No process ceases to exist.
LEMMA CreatedGrows ==
  ASSUME Inv, [Next]_vars
  PROVE  Created \subseteq Created'
<1> DEFINE Sets ==
      \/ status' = status
      \/ \E p : \E v \in {"RUNNING", "WAITING", "FINISHED", "KILLED"} : status' = [status EXCEPT ![p] = v]
      \/ \E p : DisableFork(p)
<1>1. Sets
  <2>1. ASSUME NEW p \in Proc, Statement(p) \/ End(p) \/ Done(p) \/ ResumeHeld(p) PROVE Sets
    <3>1. CASE Statement(p)
      BY <3>1 DEF Statement, AwaitHeld, AwaitForever, AwaitDynamic, FireEvent, SetStatus, Fork, Suspend
    <3>2. CASE End(p)
      BY <3>2 DEF End
    <3>3. CASE Done(p) \/ ResumeHeld(p)
      BY <3>3 DEF Done, ResumeHeld, Resume
    <3> QED
      BY <2>1, <3>1, <3>2, <3>3
  <2>2. ASSUME StartBranch \/ Join \/ EndBranch PROVE Sets
    BY <2>2 DEF StartBranch, Join, EndBranch, Cleared
  <2>3. ASSUME BeginEvaluate \/ Evaluate \/ BeginPost \/ PostUpdate \/ EndPost \/ BeginDynamic
               \/ EndDynamic \/ UNCHANGED vars \/ ResumeTriggered
        PROVE  Sets
    BY <2>3 DEF BeginEvaluate, Evaluate, BeginPost, PostUpdate, EndPost, BeginDynamic,
       EndDynamic, vars, procVars, ResumeTriggered, Resume
  <2> QED
    BY <2>1, <2>2, <2>3 DEF Next
<1>2. ASSUME NEW p, NEW v \in {"RUNNING", "WAITING", "FINISHED", "KILLED"},
             status' = [status EXCEPT ![p] = v]
      PROVE  Created \subseteq Created'
  BY <1>2, InvParts DEF TypeOK, Created
<1>3. ASSUME NEW p, DisableFork(p) PROVE Created \subseteq Created'
  <2>1. status' = [q \in Proc |-> IF q \in Below(p) THEN "KILLED" ELSE status[q]]
    BY <1>3 DEF DisableFork
  <2> QED
    BY <2>1 DEF Created
<1> QED
  BY <1>1, <1>2, <1>3 DEF Created

\* The parts of Owed.
WaitUntriggered == \A p \in Proc : Holds(suspended, p) \/ Holds(evaluated, p) => ~trigger[p]
Sees(p) ==
    waitFor[p] \in MemberEvent \/ trigger[p] \/ (waitFor[p] \in fired /\
      \/ phase = "evaluate" /\ Holds(evaluated, p)
      \/ phase \notin {"evaluate", "post"} /\ Holds(suspended, p))

LEMMA OwedParts ==
  Owed <=> /\ \A p \in owed : waitFor[p] \in Event /\ ~OnStack(p) /\ p \in Created
           /\ WaitUntriggered
           /\ \A p \in owed : Sees(p)
BY DEF Owed, WaitUntriggered, Sees

\* What is left to show of a step: to whom an event is owed waits for it still.
LEMMA OwedKeeps ==
  ASSUME Inv, Owed, [Next]_vars, owed' \subseteq owed, WaitUntriggered',
         \A q \in owed' : waitFor'[q] = waitFor[q] /\ Sees(q)'
  PROVE  Owed'
<1>1. ASSUME NEW q \in owed' PROVE waitFor'[q] \in Event /\ ~OnStack(q)' /\ q \in Created'
  <2>1. q \in owed /\ waitFor[q] \in Event /\ ~OnStack(q) /\ q \in Created
    BY OwedParts
  <2>2. NotPushed(q)
    BY <2>1, OnStackStays
  <2>3. q \in Created'
    BY <2>1, CreatedGrows
  <2> QED
    BY <2>1, <2>2, <2>3 DEF NotPushed
<1> QED
  BY <1>1 DEF Owed, WaitUntriggered, Sees

\* A step that touches no trigger, event or queue of the scheduler.
LEMMA OwedSame ==
  ASSUME Inv, Owed, [Next]_vars, owed' \subseteq owed,
         UNCHANGED <<suspended, evaluated, trigger, waitFor, fired>>,
         phase' = phase \/ {phase, phase'} \cap {"evaluate", "post"} = {}
  PROVE  Owed'
<1>1. WaitUntriggered'
  BY DEF Owed, WaitUntriggered, Holds
<1>2. \A q \in owed' : waitFor'[q] = waitFor[q] /\ Sees(q)'
  BY OwedParts DEF Sees, Holds
<1> QED
  BY <1>1, <1>2, OwedKeeps

LEMMA NamedStep ==
  ASSUME Inv, Named, [Next]_vars
  PROVE  Named'
<1>0. waitFor \in [Proc -> Waitable \cup {"forever"}] /\ destructive \in [Proc -> BOOLEAN]
  BY InvParts DEF TypeOK
<1>1. CASE UNCHANGED <<waitFor, destructive>>
  BY <1>1 DEF Named
<1>2. ASSUME NEW p \in Proc, AwaitForever(p) PROVE Named'
  <2>1. waitFor' = [waitFor EXCEPT ![p] = "forever"] /\ destructive' = destructive
    BY <1>2 DEF AwaitForever
  <2>2. "forever" \notin Event
    BY Numbers
  <2> QED
    BY <1>0, <2>1, <2>2 DEF Named
<1>3. ASSUME NEW p \in Proc, NEW w \in Waitable, AwaitDynamic(p, w) PROVE Named'
  <2>1. PICK d \in DestructivePostUpdate(w) : destructive' = [destructive EXCEPT ![p] = d]
    BY <1>3 DEF AwaitDynamic
  <2>2. waitFor' = [waitFor EXCEPT ![p] = w]
    BY <1>3 DEF AwaitDynamic
  <2>3. w \in Event \ MemberEvent => d = TRUE
    BY DEF DestructivePostUpdate
  <2>4. waitFor'[p] = w /\ destructive'[p] = d
    BY <1>0, <2>1, <2>2
  <2>5. \A q \in Proc : q # p => waitFor'[q] = waitFor[q] /\ destructive'[q] = destructive[q]
    BY <1>0, <2>1, <2>2
  <2> QED
    BY <2>3, <2>4, <2>5 DEF Named
<1>4. ASSUME NEW p \in Proc,
             AwaitHeld(p) \/ DisableFork(p) \/ End(p) \/ Done(p) \/ ResumeHeld(p)
             \/ (\E q \in Proc, s \in {"KILLED", "RUNNING"} : SetStatus(p, q, s))
             \/ (\E kind \in {"join", "any", "none"}, n \in 1 .. 2 : Fork(p, kind, n))
             \/ (\E e \in Event : FireEvent(p, e))
      PROVE  UNCHANGED <<waitFor, destructive>>
  BY <1>4 DEF AwaitHeld, DisableFork, End, Done, ResumeHeld, SetStatus, Fork, FireEvent, Resume, dynVars
<1>5. ASSUME StartBranch \/ Join \/ EndBranch \/ BeginEvaluate \/ Evaluate \/ BeginPost
             \/ PostUpdate \/ EndPost \/ BeginDynamic \/ EndDynamic \/ ResumeTriggered
             \/ UNCHANGED vars
      PROVE  UNCHANGED <<waitFor, destructive>>
  BY <1>5 DEF StartBranch, Join, EndBranch, Cleared, BeginEvaluate, Evaluate, BeginPost, PostUpdate, EndPost,
     BeginDynamic, EndDynamic, ResumeTriggered, Resume, vars, dynVars
<1> QED
  BY <1>1, <1>2, <1>3, <1>4, <1>5 DEF Next, Statement

LEMMA OwedStep ==
  ASSUME Inv, Named, Owed, [Next]_vars
  PROVE  Owed'
<1>0. owed \subseteq Proc /\ trigger \in [Proc -> BOOLEAN] /\ waitFor \in [Proc -> Waitable \cup {"forever"}]
  BY InvParts DEF TypeOK
<1>1. ASSUME NEW p \in Proc,
             AwaitHeld(p) \/ DisableFork(p) \/ End(p) \/ Done(p) \/ ResumeHeld(p)
             \/ (\E q \in Proc, s \in {"KILLED", "RUNNING"} : SetStatus(p, q, s))
             \/ (\E kind \in {"join", "any", "none"}, n \in 1 .. 2 : Fork(p, kind, n))
      PROVE  Owed'
  <2>1. /\ owed' \subseteq owed
        /\ UNCHANGED <<suspended, evaluated, trigger, waitFor, fired, phase>>
    BY <1>1 DEF AwaitHeld, DisableFork, End, Done, ResumeHeld, SetStatus, Fork, Resume, dynVars
  <2> QED
    BY <2>1, OwedSame
<1>2. ASSUME StartBranch \/ Join \/ EndBranch \/ EndPost \/ BeginDynamic \/ EndDynamic
             \/ ResumeTriggered \/ UNCHANGED vars
      PROVE  Owed'
  <2>1. CASE EndPost
    <3>1. /\ UNCHANGED <<owed, suspended, evaluated, trigger, waitFor, fired>> /\ phase = "post"
      BY <2>1 DEF EndPost
    <3>2. WaitUntriggered'
      BY <3>1 DEF Owed, WaitUntriggered, Holds
    <3>3. \A q \in owed' : waitFor'[q] = waitFor[q] /\ Sees(q)'
      BY <3>1, OwedParts DEF Sees
    <3> QED
      BY <3>1, <3>2, <3>3, OwedKeeps
  <2>2. CASE ~EndPost
    <3>1. /\ owed' \subseteq owed
          /\ UNCHANGED <<suspended, evaluated, trigger, waitFor, fired>>
          /\ phase' = phase \/ {phase, phase'} \cap {"evaluate", "post"} = {}
      BY <1>2, <2>2 DEF StartBranch, Join, EndBranch, Cleared, BeginDynamic, EndDynamic, ResumeTriggered,
         Resume, vars, dynVars
    <3> QED
      BY <3>1, OwedSame
  <2> QED
    BY <2>1, <2>2
<1>3. ASSUME NEW p \in Proc, AwaitForever(p) PROVE Owed'
  <2>1. /\ UNCHANGED <<owed, suspended, evaluated, trigger, fired, phase>>
        /\ waitFor' = [waitFor EXCEPT ![p] = "forever"] /\ stack # <<>> /\ Top.p = p
    BY <1>3 DEF AwaitForever, Running
  <2>2. OnStack(p)
    BY <2>1, Innermost
  <2>3. p \notin owed
    BY <2>2, OwedParts
  <2>4. WaitUntriggered'
    BY <2>1 DEF Owed, WaitUntriggered, Holds
  <2>5. \A q \in owed' : waitFor'[q] = waitFor[q]
    BY <1>0, <2>1, <2>3
  <2>6. \A q \in owed' : Sees(q)'
    BY <2>1, <2>5, OwedParts DEF Sees, Holds
  <2> QED
    BY <2>1, <2>4, <2>5, <2>6, OwedKeeps
<1>4. ASSUME NEW p \in Proc, NEW w \in Waitable, AwaitDynamic(p, w) PROVE Owed'
  <2>1. /\ UNCHANGED <<owed, evaluated, fired, phase>> /\ suspended' = Append(suspended, p)
        /\ trigger' = [trigger EXCEPT ![p] = FALSE]
        /\ waitFor' = [waitFor EXCEPT ![p] = w] /\ stack # <<>> /\ Top.p = p
    BY <1>4 DEF AwaitDynamic, Running
  <2>2. OnStack(p) /\ IsAt(p, InCall)
    BY <2>1, Innermost
  <2>3. p \notin owed /\ ~Holds(suspended, p)
    BY <2>2, OwedParts, KeysDiffer DEF IsAt
  <2>4. \A q : Holds(suspended', q) <=> Holds(suspended, q) \/ q = p
    BY <2>1, <2>3, InvParts, AddLastHolds DEF QueuesDistinct
  <2>5. \A q \in Proc : q # p => trigger'[q] = trigger[q] /\ waitFor'[q] = waitFor[q]
    BY <1>0, <2>1
  <2>6. WaitUntriggered'
    BY <1>0, <2>1, <2>4, <2>5 DEF Owed, WaitUntriggered
  <2>7. \A q \in owed' : waitFor'[q] = waitFor[q] /\ Sees(q)'
    BY <1>0, <2>1, <2>3, <2>4, <2>5, OwedParts DEF Sees
  <2> QED
    BY <2>1, <2>6, <2>7, OwedKeeps
<1>5. ASSUME NEW p \in Proc, NEW e \in Event, FireEvent(p, e) PROVE Owed'
  <2>1. /\ UNCHANGED <<stack, status, suspended, evaluated, trigger, waitFor, phase>>
        /\ fired' = fired \cup {e} /\ stack # <<>>
        /\ \A q \in owed' : \/ q \in owed
                            \/ q \in Proc /\ waitFor[q] = e /\ Holds(suspended, q)
    <3>1. /\ UNCHANGED <<stack, status, suspended, evaluated, trigger, waitFor, phase>>
          /\ fired' = fired \cup {e} /\ stack # <<>>
          /\ owed' = owed \cup {q \in Proc : waitFor[q] = e /\ \E i \in DOMAIN suspended : suspended[i] = q}
      BY <1>5 DEF FireEvent, Running, dynVars
    <3>2. DOMAIN suspended = 1 .. Len(suspended)
      BY InvParts, LenProperties
    <3> QED
      BY <3>1, <3>2 DEF Holds
  <2>2. phase \notin {"evaluate", "post"}
    BY <2>1, InvParts DEF Base, Phases
  <2>3. \A q : OnStack(q)' <=> OnStack(q)
    BY <2>1, StackKeeps, InvParts, WhoKeeps
  <2>4. Created' = Created
    BY <2>1 DEF Created
  <2>5. ASSUME NEW q \in Proc, Holds(suspended, q) PROVE ~OnStack(q) /\ q \in Created
    <3>1. IsAt(q, InSuspended)
      BY <2>5, InvParts, HeldAt
    <3> QED
      BY <3>1, KeysDiffer DEF IsAt, Alive
  <2>6. \A q \in owed' : waitFor'[q] \in Event /\ ~OnStack(q)' /\ q \in Created'
    BY <2>1, <2>3, <2>4, <2>5, OwedParts
  <2>7. \A q \in owed' : Sees(q)'
    BY <2>1, <2>2, OwedParts DEF Sees, Holds
  <2>8. WaitUntriggered'
    BY <2>1 DEF Owed, WaitUntriggered, Holds
  <2> QED
    BY <2>6, <2>7, <2>8 DEF Owed, WaitUntriggered, Sees
<1>6. ASSUME BeginEvaluate PROVE Owed'
  <2>1. /\ UNCHANGED <<owed, trigger, waitFor, fired>> /\ phase \in {"initial", "resume"}
        /\ phase' = "evaluate" /\ evaluated' = suspended /\ suspended' = <<>>
    BY <1>6 DEF BeginEvaluate
  <2>2. \A q : ~Holds(suspended', q) /\ (Holds(evaluated', q) <=> Holds(suspended, q))
    BY <2>1, EmptyHolds
  <2>3. WaitUntriggered'
    BY <2>1, <2>2 DEF Owed, WaitUntriggered
  <2>4. \A q \in owed' : waitFor'[q] = waitFor[q] /\ Sees(q)'
    BY <2>1, <2>2, OwedParts DEF Sees
  <2> QED
    BY <2>1, <2>3, <2>4, OwedKeeps
<1>7. ASSUME BeginPost PROVE Owed'
  <2>1. /\ UNCHANGED <<owed, trigger, waitFor, fired, suspended, evaluated>> /\ phase = "evaluate"
        /\ evaluated = <<>>
    BY <1>7 DEF BeginPost
  <2>2. \A q : ~Holds(evaluated, q)
    BY <2>1, EmptyHolds
  <2>3. WaitUntriggered'
    BY <2>1 DEF Owed, WaitUntriggered, Holds
  <2>4. \A q \in owed' : waitFor'[q] = waitFor[q] /\ Sees(q)'
    BY <2>1, <2>2, OwedParts DEF Sees
  <2> QED
    BY <2>1, <2>3, <2>4, OwedKeeps
<1>8. ASSUME PostUpdate PROVE Owed'
  <2>0. pos \in 1 .. Len(post) /\ post \in Seq(Proc)
    BY <1>8, InvParts, LenProperties DEF PostUpdate, TypeOK
  <2>1. PICK p \in Proc, i \in 1 .. Len(post) : p = post[i] /\ i = pos
    BY <2>0, ElementOfSeq
  <2>2. /\ UNCHANGED <<owed, trigger, waitFor, evaluated, phase>> /\ phase = "post"
        /\ suspended' = IF trigger[p] THEN suspended ELSE Append(suspended, p)
    BY <1>8, <2>1 DEF PostUpdate
  <2>3. ~trigger[p] => \A q : Holds(suspended', q) <=> Holds(suspended, q) \/ q = p
    <3>1. LeftFrom(post, PostFrom, p)
      BY <2>1, <2>2 DEF LeftFrom, PostFrom
    <3>2. IsAt(p, InPost)
      BY <3>1, InvParts, HeldAt
    <3>3. ~Holds(suspended, p)
      BY <3>2, KeysDiffer DEF IsAt
    <3> QED
      BY <2>2, <3>3, InvParts, AddLastHolds DEF QueuesDistinct
  <2>4. WaitUntriggered'
    BY <2>2, <2>3 DEF Owed, WaitUntriggered
  <2>5. \A q \in owed' : waitFor'[q] = waitFor[q] /\ Sees(q)'
    BY <2>2, OwedParts DEF Sees
  <2> QED
    BY <2>2, <2>4, <2>5, OwedKeeps
<1>9. ASSUME Evaluate PROVE Owed'
  <2>0. evaluated # <<>> /\ evaluated \in Seq(Proc) /\ Distinct(evaluated)
    BY <1>9, InvParts DEF Evaluate, QueuesDistinct
  <2>1. PICK p \in Proc : p = Head(evaluated)
    BY <2>0, TakeHead
  <2>2. /\ UNCHANGED <<waitFor, phase>> /\ phase = "evaluate" /\ evaluated' = Tail(evaluated)
    BY <1>9 DEF Evaluate
  <2>3. /\ ~Holds(evaluated', p) /\ Holds(evaluated, p)
        /\ \A q : Holds(evaluated, q) <=> q = p \/ Holds(evaluated', q)
    BY <2>0, <2>1, <2>2, TakeHeadHolds
  <2>4. ~trigger[p] /\ (p \in owed /\ waitFor[p] \notin MemberEvent =>
                          waitFor[p] \in fired /\ waitFor[p] \in Event)
    BY <2>2, <2>3, OwedParts DEF WaitUntriggered, Sees
  <2>5. CASE status[p] = "KILLED"
    <3>1. owed' = owed \ {p} /\ UNCHANGED <<trigger, suspended, fired>>
      BY <1>9, <2>1, <2>5 DEF Evaluate
    <3>2. WaitUntriggered'
      BY <2>3, <3>1 DEF Owed, WaitUntriggered, Holds
    <3>3. \A q \in owed' : waitFor'[q] = waitFor[q] /\ Sees(q)'
      BY <2>2, <2>3, <3>1, OwedParts DEF Sees
    <3> QED
      BY <3>1, <3>2, <3>3, OwedKeeps
  <2>6. CASE status[p] # "KILLED"
    <3>1. /\ owed' = owed /\ trigger' = [trigger EXCEPT ![p] = Eval(p)]
          /\ suspended' = IF ~destructive[p] /\ ~Eval(p) THEN Append(suspended, p) ELSE suspended
          /\ fired' = IF destructive[p] THEN fired ELSE fired \ {waitFor[p]}
      BY <1>9, <2>1, <2>6 DEF Evaluate
    <3>2. p \in owed /\ waitFor[p] \notin MemberEvent => Eval(p)
      BY <2>4, Numbers DEF Eval
    <3>3. trigger'[p] = Eval(p) /\ \A q \in Proc : q # p => trigger'[q] = trigger[q]
      BY <1>0, <3>1
    <3>4. ASSUME Holds(suspended', p) PROVE ~Eval(p)
      <4>1. IsAt(p, InEvaluated)
        BY <2>3, InvParts, HeldAt
      <4>2. ~Holds(suspended, p)
        BY <4>1, KeysDiffer DEF IsAt
      <4> QED
        BY <3>1, <3>4, <4>2 DEF Holds
    <3>5. \A q \in Proc : q # p /\ Holds(suspended', q) => Holds(suspended, q)
      <4>1. \A q \in Proc : q # p /\ Holds(Append(suspended, p), q) => Holds(suspended, q)
        <5>1. /\ Len(suspended) \in Nat /\ Len(Append(suspended, p)) = Len(suspended) + 1
              /\ \A i \in 1 .. Len(suspended) : Append(suspended, p)[i] = suspended[i]
              /\ Append(suspended, p)[Len(suspended) + 1] = p
          BY InvParts, AddLast
        <5> QED
          BY <5>1 DEF Holds
      <4> QED
        BY <3>1, <4>1
    <3>6. WaitUntriggered'
      <4> SUFFICES ASSUME NEW q \in Proc, Holds(suspended', q) \/ Holds(evaluated', q)
                   PROVE  ~trigger'[q]
        BY DEF WaitUntriggered
      <4>1. CASE q = p
        BY <2>3, <3>3, <3>4, <4>1
      <4>2. CASE q # p
        BY <2>3, <3>3, <3>5, <4>2, OwedParts DEF WaitUntriggered
      <4> QED
        BY <4>1, <4>2
    <3>7. \A q \in owed' : waitFor'[q] = waitFor[q] /\ Sees(q)'
      <4> SUFFICES ASSUME NEW q \in owed', waitFor[q] \notin MemberEvent
                   PROVE  \/ trigger'[q]
                          \/ waitFor[q] \in fired' /\ phase' = "evaluate" /\ Holds(evaluated', q)
        BY <2>2 DEF Sees
      <4>1. CASE q = p
        BY <3>1, <3>2, <3>3, <4>1
      <4>2. CASE q # p
        <5>1. q \in owed /\ q \in Proc /\ waitFor[q] \in Event /\ Sees(q)
          BY <1>0, <3>1, OwedParts
        <5>2. ~destructive[p] => waitFor[p] # waitFor[q]
          BY <5>1 DEF Named
        <5>3. waitFor[q] \in fired => waitFor[q] \in fired'
          BY <3>1, <5>2
        <5>4. trigger[q] \/ (waitFor[q] \in fired /\ Holds(evaluated', q))
          BY <2>2, <2>3, <4>2, <5>1 DEF Sees
        <5> QED
          BY <2>2, <3>3, <4>2, <5>1, <5>3, <5>4
      <4> QED
        BY <4>1, <4>2
    <3> QED
      BY <3>1, <3>6, <3>7, OwedKeeps
  <2> QED
    BY <2>5, <2>6
<1> QED
  BY <1>1, <1>2, <1>3, <1>4, <1>5, <1>6, <1>7, <1>8, <1>9 DEF Next, Statement

\* An event reaches every process that was suspended on it when it fired, wherever the
\* processes that clear it are in the queues, if all waits name the event itself: the
\* post update step is only for them.
THEOREM EventsSeen == Spec => []EventSeenByAll
<1>1. Init => Owed /\ Named
  BY EmptyHolds, Numbers DEF Init, Owed, Named
<1>2. Inv /\ Owed => EventSeenByAll
  <2>1. ASSUME Inv, Owed, NEW p \in owed, waitFor[p] \notin MemberEvent
        PROVE  trigger[p] \/ (waitFor[p] \in fired /\ (At(suspended, p) # {} \/ At(evaluated, p) # {}))
    <3>1. DOMAIN suspended = 1 .. Len(suspended) /\ DOMAIN evaluated = 1 .. Len(evaluated)
      BY <2>1, InvParts, LenProperties
    <3>2. Sees(p)
      BY <2>1, OwedParts
    <3>3. /\ Holds(suspended, p) => At(suspended, p) # {}
          /\ Holds(evaluated, p) => At(evaluated, p) # {}
      BY <3>1 DEF Holds, At
    <3> QED
      BY <2>1, <3>2, <3>3 DEF Sees
  <2> QED
    BY <2>1 DEF EventSeenByAll
<1> QED
  BY <1>1, <1>2, NamedStep, OwedStep, Invariance, PTL DEF Spec

(***************************************************************************)
(* A join ends when its branches have                                      *)
(***************************************************************************)

\* What is known of the calls in progress.
LEMMA CallsInProgress ==
  ASSUME Inv
  PROVE  /\ \A f \in InProgress : /\ f \in Frame /\ f.p \in Proc /\ f.left \in Nat
                                  /\ f.sync \in Sync \cup {None} /\ OnStack(f.p)
         /\ \A f, g \in InProgress : f.p = g.p => f = g
         /\ \A f, g \in InProgress :
               f.at = "fork" /\ g.at = "fork" /\ f.sync = g.sync /\ f.sync # None => f = g
         /\ \A f \in InProgress :
               f.at = "fork" /\ f.sync # None =>
                 /\ sync[f.sync].susp = None
                 /\ branches[f.sync] = {} => f = Fr(Depth) /\ f.left > 0
         /\ \A f \in InProgress : f.at = "done" => f.sync \in Sync
         /\ \A s : DoneOn(s) <=> \E f \in InProgress : f.at = "done" /\ f.sync = s
<1>1. \A d \in 1 .. Depth : /\ Fr(d) \in Frame /\ Fr(d).p \in Proc /\ Fr(d).left \in Nat
                            /\ Fr(d).sync \in Sync \cup {None}
  <2>1. \A d \in 1 .. Depth : Fr(d) \in Frame
    BY InvParts, StackFrames
  <2> QED
    BY <2>1, FrameFields
<1>2. \A d \in 1 .. Depth : OnStack(Fr(d).p)
  BY DEF OnStack
<1>3. /\ \A d, e \in 1 .. Depth : Fr(d).p = Fr(e).p => d = e
      /\ \A d \in 1 .. Depth : Fr(d).at = "done" => Fr(d).sync # None
      /\ \A d \in 1 .. Depth : Fr(d).at = "fork" /\ Fr(d).sync # None =>
              /\ sync[Fr(d).sync].susp = None
              /\ branches[Fr(d).sync] = {} => d = Depth /\ Fr(d).left > 0
              /\ \A e \in 1 .. Depth : Fr(e).at = "fork" /\ Fr(e).sync = Fr(d).sync => e = d
  BY InvParts DEF StackDistinct, Calls, Frames
<1> QED
  BY <1>1, <1>2, <1>3 DEF InProgress, DoneOn

\* The calls in progress after each kind of step.
LEMMA ProgressKeeps ==
  ASSUME Keeps
  PROVE  InProgress' = InProgress
BY DEF Keeps, InProgress

LEMMA ProgressPops ==
  ASSUME StackDistinct, NEW n, Pops(n)
  PROVE  InProgress' = InProgress \ {Fr(n)} /\ Fr(n) \in InProgress
<1>0. /\ n \in Nat \ {0} /\ Depth = n /\ Depth' = n - 1
      /\ \A d \in 1 .. n - 1 : Fr(d)' = Fr(d) /\ d \in 1 .. n /\ d # n
      /\ n \in 1 .. n /\ \A d \in 1 .. n : d = n \/ d \in 1 .. n - 1
  BY DEF Pops
<1>1. \A d \in 1 .. n - 1 : Fr(d) # Fr(n)
  BY <1>0 DEF StackDistinct
<1> QED
  BY <1>0, <1>1 DEF InProgress

LEMMA ProgressReplaces ==
  ASSUME StackDistinct, NEW n, NEW f, Replaces(n, f)
  PROVE  InProgress' = (InProgress \ {Fr(n)}) \cup {f} /\ Fr(n) \in InProgress
<1>0. /\ n \in Nat \ {0} /\ Depth = n /\ Depth' = n /\ Fr(n)' = f
      /\ \A d \in 1 .. n - 1 : Fr(d)' = Fr(d) /\ d \in 1 .. n /\ d # n
      /\ n \in 1 .. n /\ \A d \in 1 .. n : d = n \/ d \in 1 .. n - 1
  BY DEF Replaces
<1>1. \A d \in 1 .. n - 1 : Fr(d) # Fr(n)
  BY <1>0 DEF StackDistinct
<1> QED
  BY <1>0, <1>1 DEF InProgress

LEMMA ProgressPushes ==
  ASSUME StackDistinct, NEW n, NEW f, NEW g, Pushes(n, f, g)
  PROVE  InProgress' = (InProgress \ {Fr(n)}) \cup {f, g} /\ Fr(n) \in InProgress
<1>0. /\ n \in Nat \ {0} /\ Depth = n /\ Depth' = n + 1 /\ Fr(n)' = f /\ Fr(n + 1)' = g
      /\ \A d \in 1 .. n - 1 : Fr(d)' = Fr(d) /\ d \in 1 .. n + 1 /\ d \in 1 .. n /\ d # n
      /\ n \in 1 .. n /\ n \in 1 .. n + 1 /\ n + 1 \in 1 .. n + 1
      /\ \A d \in 1 .. n + 1 : d = n + 1 \/ d = n \/ d \in 1 .. n - 1
      /\ \A d \in 1 .. n : d = n \/ d \in 1 .. n - 1
  BY DEF Pushes
<1>1. \A d \in 1 .. n - 1 : Fr(d) # Fr(n)
  BY <1>0 DEF StackDistinct
<1> QED
  BY <1>0, <1>1 DEF InProgress

LEMMA ProgressEnters ==
  ASSUME NEW f, Enters(f)
  PROVE  InProgress' = InProgress \cup {f}
<1>1. Depth = 0 /\ Depth' = 1 /\ Fr(1)' = f /\ 1 \in 1 .. 1 /\ \A d \in 1 .. 1 : d = 1
  BY DEF Enters
<1> QED
  BY <1>1 DEF InProgress

\* Steps of processes that neither fork nor join.
LEMMA CountsKeep ==
  ASSUME Inv, Inv', Counts, UNCHANGED <<sync, branches, doneBy, anyJoin>>, gone \subseteq gone',
         \A f \in InProgress : f.at \in {"fork", "done"} => f \in InProgress',
         \A f \in InProgress' : f.at = "fork" => f \in InProgress
  PROVE  Counts'
<1>1. /\ \A s : InFork(s)' <=> InFork(s)
      /\ \A p : Returning(p) => Returning(p)'
  BY DEF InFork, Returning
<1>2. \A s : DoneOn(s) => DoneOn(s)'
  <2>1. \A s : DoneOn(s) <=> \E f \in InProgress : f.at = "done" /\ f.sync = s
    BY CallsInProgress
  <2>2. \A s : DoneOn(s)' <=> \E f \in InProgress' : f.at = "done" /\ f.sync = s
    BY DEF DoneOn, InProgress
  <2> QED
    BY <2>1, <2>2
<1>3. \A s, n : Missing(s, n)' = Missing(s, n)
  BY DEF Missing
<1> QED
  BY <1>1, <1>2, <1>3 DEF Counts

\* Sets of processes are finite.
LEMMA ProcFinite ==
  ASSUME NEW S \in SUBSET Proc
  PROVE  IsFiniteSet(S) /\ Cardinality(S) \in Nat
<1>1. IsFiniteSet(Proc)
  BY Numbers, FS_Interval DEF Proc
<1> QED
  BY <1>1, FS_Subset, FS_CardinalityType

\* A branch is called: one fewer is to come, and one more to wait for.
LEMMA MissingBranch ==
  ASSUME TypeOK, NEW s \in Sync, NEW q \in Proc, q \notin branches[s], q \notin doneBy, NEW n \in Nat, n > 0,
         branches'[s] = branches[s] \cup {q}, UNCHANGED <<doneBy, anyJoin>>
  PROVE  Missing(s, n - 1)' = Missing(s, n)
<1> DEFINE B == branches[s]
           D == doneBy
<1>1. B \in SUBSET Proc /\ (B \cup {q}) \ D = (B \ D) \cup {q} /\ q \notin B \ D
  BY DEF TypeOK
<1>2. (B \cup {q}) \cap D = B \cap D
  OBVIOUS
<1>3. Cardinality((B \ D) \cup {q}) = Cardinality(B \ D) + 1 /\ Cardinality(B \ D) \in Nat
  <2>1. IsFiniteSet(B \ D) /\ Cardinality(B \ D) \in Nat
    <3>1. B \ D \in SUBSET Proc
      BY <1>1
    <3> QED
      BY <3>1, ProcFinite
  <2>2. Cardinality((B \ D) \cup {q}) = IF q \in B \ D THEN Cardinality(B \ D) ELSE Cardinality(B \ D) + 1
    BY <2>1, FS_AddElement
  <2> QED
    BY <1>1, <2>1, <2>2
<1>4. (n - 1) + Cardinality((B \cup {q}) \ D) = n + Cardinality(B \ D)
  <2>1. PICK c : c = Cardinality(B \ D)
    OBVIOUS
  <2>2. c \in Nat /\ Cardinality((B \cup {q}) \ D) = c + 1
    BY <1>1, <1>3, <2>1
  <2> QED
    BY <2>1, <2>2
<1>5. (branches[s] \cap doneBy)' = B \cap D /\ (branches[s] \ doneBy)' = (B \cup {q}) \ D
  BY <1>2
<1>6. Missing(s, n - 1)' = IF s \in anyJoin THEN IF (branches[s] \cap doneBy)' = {} THEN 1 ELSE 0
                           ELSE (n - 1) + Cardinality((branches[s] \ doneBy)')
  BY DEF Missing
<1> QED
  BY <1>4, <1>5, <1>6 DEF Missing

\* A branch ends.
LEMMA MissingDone ==
  ASSUME TypeOK, NEW s \in Sync, NEW q \in branches[s], q \notin doneBy, NEW n \in Nat,
         doneBy' = doneBy \cup {q}, UNCHANGED <<branches, anyJoin>>
  PROVE  Missing(s, n)' = CountDown(Missing(s, n))
<1> DEFINE B == branches[s]
           D == doneBy
<1>1. B \in SUBSET Proc /\ B \ (D \cup {q}) = (B \ D) \ {q} /\ q \in B \ D
  BY DEF TypeOK
<1>2. B \cap (D \cup {q}) # {}
  OBVIOUS
<1>3. /\ Cardinality((B \ D) \ {q}) = Cardinality(B \ D) - 1
      /\ Cardinality(B \ D) \in Nat /\ Cardinality((B \ D) \ {q}) \in Nat
  <2>1. IsFiniteSet(B \ D) /\ Cardinality(B \ D) \in Nat /\ Cardinality((B \ D) \ {q}) \in Nat
    <3>1. B \ D \in SUBSET Proc /\ (B \ D) \ {q} \in SUBSET Proc
      BY <1>1
    <3> QED
      BY <3>1, ProcFinite
  <2>2. Cardinality((B \ D) \ {q}) = IF q \in B \ D THEN Cardinality(B \ D) - 1 ELSE Cardinality(B \ D)
    BY <2>1, FS_RemoveElement
  <2> QED
    BY <1>1, <2>1, <2>2
<1>4. n + Cardinality(B \ (D \cup {q})) = CountDown(n + Cardinality(B \ D))
  <2>1. PICK c, d : c = Cardinality(B \ D) /\ d = Cardinality((B \ D) \ {q})
    OBVIOUS
  <2>2. c \in Nat /\ d \in Nat /\ d = c - 1 /\ Cardinality(B \ (D \cup {q})) = d
    BY <1>1, <1>3, <2>1
  <2>3. n + d = CountDown(n + c)
    BY <2>2 DEF CountDown
  <2> QED
    BY <2>1, <2>2, <2>3
<1>5. (branches[s] \cap doneBy)' # {} /\ (branches[s] \ doneBy)' = B \ (D \cup {q})
  BY <1>2
<1>6. Missing(s, n)' = IF s \in anyJoin THEN IF (branches[s] \cap doneBy)' = {} THEN 1 ELSE 0
                       ELSE n + Cardinality((branches[s] \ doneBy)')
  BY DEF Missing
<1>7. CountDown(1) = 0 /\ CountDown(0) = 0
  BY DEF CountDown
<1> QED
  BY <1>4, <1>5, <1>6, <1>7 DEF Missing

\* The parts of Counts for one fork.
ForkCounts(f) == f.at = "fork" /\ f.sync # None => sync[f.sync].count = Missing(f.sync, f.left)
JoinCounts(s) ==
    branches[s] # {} /\ ~InFork(s) =>
        /\ sync[s].count = Missing(s, 0)
        /\ sync[s].count > 0 => sync[s].susp # None
        /\ sync[s].count = 0 => sync[s].susp = None \/ DoneOn(s)

LEMMA CountsParts ==
  Counts <=> /\ \A p \in doneBy : p \in gone \/ Returning(p)
             /\ \A s \in anyJoin : branches[s] # {} \/ InFork(s)
             /\ \A f \in InProgress : ForkCounts(f)
             /\ \A s \in Sync : JoinCounts(s)
BY DEF Counts, ForkCounts, JoinCounts

LEMMA CountsPartsNext ==
  ASSUME \A p \in doneBy' : p \in gone' \/ Returning(p)',
         \A s \in anyJoin' : branches'[s] # {} \/ InFork(s)',
         \A f \in InProgress' : ForkCounts(f)',
         \A s \in Sync : JoinCounts(s)'
  PROVE  Counts'
BY DEF Counts, ForkCounts, JoinCounts

LEMMA DoneOnNext == \A s : DoneOn(s)' <=> \E f \in InProgress' : f.at = "done" /\ f.sync = s
BY DEF DoneOn, InProgress

\* All branches of a fork were called.
LEMMA CountsJoin ==
  ASSUME Inv, Counts, Join
  PROVE  Counts'
<1>1. /\ stack # <<>> /\ Top.at = "fork" /\ Top.left = 0
      /\ UNCHANGED <<gone, branches, doneBy, anyJoin>>
  BY DEF Join
<1>2. PICK n \in Nat \ {0}, p \in Proc :
        n = Depth /\ Top = Fr(n) /\ Fr(n).p = p /\ Fr(n) \in Frame
  BY <1>1, Innermost
<1>3. PICK s \in Sync \cup {None} : s = Top.sync
  BY <1>2, FrameFields
<1>4. PICK g : g = Fr(n)
  OBVIOUS
<1>5. /\ g \in InProgress /\ g.at = "fork" /\ g.left = 0 /\ g.sync = s
      /\ \A f \in InProgress' : f \in InProgress \/ f.at = "body"
      /\ \A f \in InProgress : f = g \/ f \in InProgress'
      /\ \A f \in InProgress' : f # g
  <2>1. CASE stack' = Tail(stack)
    <3>1. InProgress' = InProgress \ {Fr(n)} /\ Fr(n) \in InProgress
      BY <1>1, <1>2, <2>1, InvParts, StackPops, ProgressPops
    <3> QED
      BY <1>1, <1>2, <1>3, <1>4, <3>1
  <2>2. CASE stack' = <<Body(p)>> \o Tail(stack)
    <3>1. PICK b \in Frame : b = Body(p) /\ b.at = "body"
      BY FrameFields
    <3>2. Replaces(n, b)
      BY <1>1, <1>2, <2>2, <3>1, InvParts, StackReplaces
    <3>3. InProgress' = (InProgress \ {Fr(n)}) \cup {b} /\ Fr(n) \in InProgress
      BY <3>2, InvParts, ProgressReplaces
    <3> QED
      BY <1>1, <1>2, <1>3, <1>4, <3>1, <3>3
  <2> QED
    BY <1>2, <2>1, <2>2 DEF Join
<1>6. /\ \A t \in Sync : t # s => sync'[t] = sync[t]
      /\ s \in Sync => sync'[s].count = sync[s].count
      /\ s \in Sync /\ sync[s].count # 0 => sync'[s].susp = p
      /\ s \in Sync /\ sync[s].count = 0 => sync'[s] = sync[s]
  <2>1. CASE s = None \/ sync[s].count = 0
    BY <1>3, <2>1, Numbers DEF Join
  <2>2. CASE s # None /\ sync[s].count # 0
    <3>1. s \in Sync /\ sync' = [sync EXCEPT ![s].susp = p]
      BY <1>2, <1>3, <2>2 DEF Join
    <3>2. PICK c \in Nat : c = sync[s].count
      BY <3>1, InvParts, JoinFields
    <3> QED
      BY <2>2, <3>1, <3>2, InvParts, JoinFields, JoinChange
  <2> QED
    BY <2>1, <2>2
<1>7. /\ \A t : t # s => (InFork(t)' <=> InFork(t))
      /\ \A q : Returning(q) => Returning(q)'
      /\ \A t : DoneOn(t) => DoneOn(t)'
  BY <1>5, CallsInProgress, DoneOnNext DEF InFork, Returning
<1>8. \A t, k : Missing(t, k)' = Missing(t, k)
  BY <1>1 DEF Missing
<1>9. s \in Sync => ~InFork(s)' /\ branches[s] # {} /\ sync[s].susp = None
  <2> SUFFICES ASSUME s \in Sync PROVE ~InFork(s)' /\ branches[s] # {} /\ sync[s].susp = None
    OBVIOUS
  <2>1. s # None
    BY Numbers
  <2>2. sync[s].susp = None /\ (branches[s] = {} => g.left > 0)
    BY <1>5, <2>1, CallsInProgress
  <2>3. \A f \in InProgress : f.at = "fork" /\ f.sync = s => f = g
    BY <1>5, <2>1, CallsInProgress
  <2> QED
    BY <1>5, <2>2, <2>3 DEF InFork
<1>10. \A q \in doneBy' : q \in gone' \/ Returning(q)'
  BY <1>1, <1>7, CountsParts
<1>11. \A t \in anyJoin' : branches'[t] # {} \/ InFork(t)'
  <2>1. anyJoin \subseteq Sync
    BY InvParts DEF TypeOK
  <2> QED
    BY <1>1, <1>7, <1>9, <2>1, CountsParts
<1>12. ASSUME NEW f \in InProgress' PROVE ForkCounts(f)'
  <2> SUFFICES ASSUME f.at = "fork", f.sync # None
               PROVE  sync'[f.sync].count = Missing(f.sync, f.left)'
    BY DEF ForkCounts
  <2>1. f \in InProgress /\ ForkCounts(f) /\ f.sync \in Sync
    BY <1>5, CountsParts, CallsInProgress
  <2>2. sync'[f.sync].count = sync[f.sync].count
    BY <1>6, <2>1
  <2> QED
    BY <1>8, <2>1, <2>2 DEF ForkCounts
<1>13. ASSUME NEW t \in Sync PROVE JoinCounts(t)'
  <2>1. CASE t # s
    <3>1. JoinCounts(t) /\ sync'[t] = sync[t] /\ branches' = branches
      BY <1>1, <1>6, <2>1, CountsParts
    <3> QED
      BY <1>7, <1>8, <2>1, <3>1 DEF JoinCounts
  <2>2. CASE t = s
    <3>1. sync[s].count = Missing(s, 0)
      BY <1>5, <2>2, Numbers, CountsParts DEF ForkCounts
    <3>2. sync[s].count \in Nat /\ p # None
      BY <2>2, InvParts, JoinFields, Numbers
    <3>3. sync'[s].count = sync[s].count
      BY <1>6, <2>2
    <3>4. CASE sync[s].count = 0
      BY <1>6, <1>8, <1>9, <2>2, <3>1, <3>4 DEF JoinCounts
    <3>5. CASE sync[s].count # 0
      BY <1>6, <1>8, <2>2, <3>1, <3>2, <3>3, <3>5 DEF JoinCounts
    <3> QED
      BY <3>4, <3>5
  <2> QED
    BY <2>1, <2>2
<1> QED
  BY <1>10, <1>11, <1>12, <1>13, CountsPartsNext

\* A branch called done() and ends: the process that waited in the join is gone from it.
LEMMA CountsEndBranch ==
  ASSUME Inv, Counts, EndBranch
  PROVE  Counts'
<1>1. /\ stack # <<>> /\ Top.at = "done" /\ stack' = Tail(stack) /\ gone' = gone \cup {Top.p}
      /\ sync' = IF sync[Top.sync].count = 0 THEN [sync EXCEPT ![Top.sync].susp = None] ELSE sync
      /\ UNCHANGED <<branches, doneBy, anyJoin>>
  BY DEF EndBranch, Cleared
<1>2. PICK n \in Nat \ {0} : n = Depth /\ Top = Fr(n)
  BY <1>1, Innermost
<1>3. PICK g : g = Fr(n)
  OBVIOUS
<1>4. InProgress' = InProgress \ {g} /\ g \in InProgress
  BY <1>1, <1>2, <1>3, InvParts, StackPops, ProgressPops
<1>5. PICK s \in Sync : s = g.sync
  BY <1>1, <1>2, <1>3, <1>4, CallsInProgress
<1>6. /\ \A t \in Sync : sync'[t].count = sync[t].count
      /\ \A t \in Sync : t # s => sync'[t] = sync[t]
      /\ sync[s].count = 0 => sync'[s].susp = None
      /\ sync[s].count # 0 => sync'[s] = sync[s]
  <2>1. CASE sync[s].count = 0
    <3>1. sync' = [sync EXCEPT ![s].susp = None]
      BY <1>1, <1>2, <1>3, <1>5, <2>1
    <3>2. PICK c \in Nat : c = sync[s].count
      BY InvParts, JoinFields
    <3> QED
      BY <2>1, <3>1, <3>2, InvParts, JoinFields, JoinChange
  <2>2. CASE sync[s].count # 0
    BY <1>1, <1>2, <1>3, <1>5, <2>2
  <2> QED
    BY <2>1, <2>2
<1>7. /\ \A t : InFork(t)' <=> InFork(t)
      /\ \A q : Returning(q) => Returning(q)' \/ q \in gone'
      /\ \A t : t # s /\ DoneOn(t) => DoneOn(t)'
  BY <1>1, <1>2, <1>3, <1>4, <1>5, CallsInProgress, DoneOnNext DEF InFork, Returning
<1>8. \A t, k : Missing(t, k)' = Missing(t, k)
  BY <1>1 DEF Missing
<1>9. \A q \in doneBy' : q \in gone' \/ Returning(q)'
  BY <1>1, <1>7, CountsParts
<1>10. \A t \in anyJoin' : branches'[t] # {} \/ InFork(t)'
  BY <1>1, <1>7, CountsParts
<1>11. ASSUME NEW f \in InProgress' PROVE ForkCounts(f)'
  <2> SUFFICES ASSUME f.at = "fork", f.sync # None
               PROVE  sync'[f.sync].count = Missing(f.sync, f.left)'
    BY DEF ForkCounts
  <2>1. ForkCounts(f) /\ f.sync \in Sync
    BY <1>4, CountsParts, CallsInProgress
  <2> QED
    BY <1>6, <1>8, <2>1 DEF ForkCounts
<1>12. ASSUME NEW t \in Sync PROVE JoinCounts(t)'
  <2>1. JoinCounts(t) /\ branches' = branches
    BY <1>1, CountsParts
  <2>2. CASE t # s
    BY <1>6, <1>7, <1>8, <2>1, <2>2 DEF JoinCounts
  <2>3. CASE t = s /\ sync[s].count = 0
    BY <1>6, <1>7, <1>8, <2>1, <2>3 DEF JoinCounts
  <2>4. CASE t = s /\ sync[s].count # 0
    BY <1>6, <1>7, <1>8, <2>1, <2>4 DEF JoinCounts
  <2> QED
    BY <2>2, <2>3, <2>4
<1> QED
  BY <1>9, <1>10, <1>11, <1>12, CountsPartsNext

\* A fork that has not called a branch yet.
LEMMA CountsFork ==
  ASSUME Inv, Counts, NEW p \in Proc, NEW kind \in {"join", "any", "none"}, NEW m \in 1 .. 2,
         Fork(p, kind, m)
  PROVE  Counts'
<1>1. /\ stack # <<>> /\ Top.p = p /\ Top.at = "body"
      /\ UNCHANGED <<gone, branches, doneBy>>
  BY DEF Fork, Running
<1>2. PICK n \in Nat \ {0} : n = Depth /\ Top = Fr(n)
  BY <1>1, Innermost
<1>3. PICK s \in Sync \cup {None} :
        /\ stack' = <<[p |-> p, at |-> "fork", left |-> m, sync |-> s]>> \o Tail(stack)
        /\ s # None =>
             /\ branches[s] = {}
             /\ sync' = [sync EXCEPT ![s] = [count |-> JoinCount(kind, m), susp |-> None]]
             /\ anyJoin' = IF kind = "any" THEN anyJoin \cup {s} ELSE anyJoin
        /\ s = None => sync' = sync /\ anyJoin' = anyJoin
  <2>1. CASE kind = "none"
    <3>1. /\ stack' = <<[p |-> p, at |-> "fork", left |-> m, sync |-> None]>> \o Tail(stack)
          /\ UNCHANGED <<sync, anyJoin>>
      BY <2>1 DEF Fork
    <3> QED
      BY <3>1
  <2>2. CASE kind # "none"
    <3>1. PICK s \in Sync :
            /\ branches[s] = {}
            /\ sync' = [sync EXCEPT ![s] = [count |-> JoinCount(kind, m), susp |-> None]]
            /\ stack' = <<[p |-> p, at |-> "fork", left |-> m, sync |-> s]>> \o Tail(stack)
            /\ anyJoin' = IF kind = "any" THEN anyJoin \cup {s} ELSE anyJoin
      BY <2>2 DEF Fork
    <3>2. s # None
      BY Numbers
    <3> QED
      BY <3>1, <3>2
  <2> QED
    BY <2>1, <2>2
<1>4. PICK h : h = [p |-> p, at |-> "fork", left |-> m, sync |-> s]
  OBVIOUS
<1>5. h \in Frame /\ h.at = "fork" /\ h.left = m /\ h.sync = s /\ m \in Nat
  BY <1>4 DEF Frame
<1>6. PICK g : g = Fr(n)
  OBVIOUS
<1>7. InProgress' = (InProgress \ {g}) \cup {h} /\ g \in InProgress /\ g.at = "body"
  <2>1. Replaces(n, h)
    BY <1>1, <1>2, <1>3, <1>4, <1>5, InvParts, StackReplaces
  <2> QED
    BY <1>1, <1>2, <1>6, <2>1, InvParts, ProgressReplaces
<1>8. s # None => ~InFork(s) /\ s \notin anyJoin /\ s \in Sync /\ branches[s] = {}
  <2> SUFFICES ASSUME s # None PROVE ~InFork(s) /\ s \notin anyJoin /\ s \in Sync /\ branches[s] = {}
    OBVIOUS
  <2>1. s \in Sync /\ branches[s] = {}
    BY <1>3
  <2>2. \A f \in InProgress : f.at = "fork" /\ f.sync = s => f = Fr(Depth)
    BY <2>1, CallsInProgress
  <2>3. ~InFork(s)
    BY <1>2, <1>6, <1>7, <2>2 DEF InFork
  <2> QED
    BY <2>1, <2>3, CountsParts
<1>9. /\ \A t \in Sync : t # s => sync'[t] = sync[t] /\ (t \in anyJoin' <=> t \in anyJoin)
      /\ s # None => sync'[s].count = JoinCount(kind, m) /\ (s \in anyJoin' <=> kind = "any")
  <2>1. CASE s = None
    BY <1>3, <2>1, Numbers
  <2>2. CASE s # None
    <3>1. JoinCount(kind, m) \in Nat
      BY DEF JoinCount
    <3>2. /\ sync'[s].count = JoinCount(kind, m)
          /\ \A t \in Sync : t # s => sync'[t] = sync[t]
      BY <1>3, <1>8, <2>2, <3>1, InvParts, JoinFields, JoinChange
    <3> QED
      BY <1>3, <1>8, <2>2, <3>2
  <2> QED
    BY <2>1, <2>2
<1>10. /\ \A t : t # s => (InFork(t)' <=> InFork(t))
       /\ InFork(s)'
       /\ \A q : Returning(q) => Returning(q)'
       /\ \A t : DoneOn(t) => DoneOn(t)'
  BY <1>5, <1>7, CallsInProgress, DoneOnNext DEF InFork, Returning
<1>11. \A t \in Sync : \A k : t # s => Missing(t, k)' = Missing(t, k)
  BY <1>1, <1>9 DEF Missing
<1>12. s # None => Missing(s, m)' = JoinCount(kind, m)
  <2> SUFFICES ASSUME s # None PROVE Missing(s, m)' = JoinCount(kind, m)
    OBVIOUS
  <2>1. (branches[s] \cap doneBy)' = {} /\ (branches[s] \ doneBy)' = {}
    BY <1>1, <1>8
  <2>2. Missing(s, m)' = IF s \in anyJoin' THEN IF (branches[s] \cap doneBy)' = {} THEN 1 ELSE 0
                         ELSE m + Cardinality((branches[s] \ doneBy)')
    BY DEF Missing
  <2>3. Cardinality({}) = 0
    BY FS_EmptySet
  <2>4. m + 0 = m
    OBVIOUS
  <2> QED
    BY <1>9, <2>1, <2>2, <2>3, <2>4 DEF JoinCount
<1>13. \A q \in doneBy' : q \in gone' \/ Returning(q)'
  BY <1>1, <1>10, CountsParts
<1>14. \A t \in anyJoin' : branches'[t] # {} \/ InFork(t)'
  <2> SUFFICES ASSUME NEW t \in anyJoin', t # s PROVE branches'[t] # {} \/ InFork(t)'
    BY <1>10
  <2>1. t \in anyJoin
    BY <1>3
  <2> QED
    BY <1>1, <1>10, <2>1, CountsParts
<1>15. ASSUME NEW f \in InProgress' PROVE ForkCounts(f)'
  <2> SUFFICES ASSUME f.at = "fork", f.sync # None
               PROVE  sync'[f.sync].count = Missing(f.sync, f.left)'
    BY DEF ForkCounts
  <2>1. CASE f = h
    BY <1>5, <1>9, <1>12, <2>1
  <2>2. CASE f # h
    <3>1. f \in InProgress /\ ForkCounts(f) /\ f.sync \in Sync
      BY <1>7, <2>2, CountsParts, CallsInProgress
    <3>2. f.sync # s
      BY <1>8, <3>1 DEF InFork
    <3> QED
      BY <1>9, <1>11, <3>1, <3>2 DEF ForkCounts
  <2> QED
    BY <2>1, <2>2
<1>16. ASSUME NEW t \in Sync PROVE JoinCounts(t)'
  <2>1. CASE t # s
    <3>1. JoinCounts(t) /\ sync'[t] = sync[t] /\ branches' = branches
      BY <1>1, <1>9, <2>1, CountsParts
    <3> QED
      BY <1>10, <1>11, <2>1, <3>1 DEF JoinCounts
  <2>2. CASE t = s
    BY <1>10, <2>2 DEF JoinCounts
  <2> QED
    BY <2>1, <2>2
<1> QED
  BY <1>13, <1>14, <1>15, <1>16, CountsPartsNext

\* A process that was not created has not called done().
LEMMA DoneByCreated ==
  ASSUME Inv, Counts
  PROVE  doneBy \subseteq Created
<1> SUFFICES ASSUME NEW p \in doneBy PROVE p \in Created
  OBVIOUS
<1>1. CASE p \in gone
  BY <1>1, InvParts DEF Held
<1>2. CASE Returning(p)
  <2>1. p \in Proc /\ OnStack(p)
    BY <1>2, CallsInProgress DEF Returning
  <2> QED
    BY <2>1, InvParts, OnStackAlive
<1> QED
  BY <1>1, <1>2, CountsParts

\* The next branch is called.
LEMMA CountsStartBranch ==
  ASSUME Inv, Counts, StartBranch
  PROVE  Counts'
<1>1. /\ stack # <<>> /\ Top.at = "fork" /\ Top.left > 0
      /\ UNCHANGED <<gone, sync, doneBy, anyJoin>>
  BY DEF StartBranch
<1>2. PICK n \in Nat \ {0} : n = Depth /\ Top = Fr(n) /\ Fr(n) \in Frame
  BY <1>1, Innermost
<1>3. PICK g : g = Fr(n)
  OBVIOUS
<1>4. PICK k \in Nat, s \in Sync \cup {None} : k = g.left /\ s = g.sync /\ k > 0
  BY <1>1, <1>2, <1>3, FrameFields
<1>5. PICK h : h = [Top EXCEPT !.left = @ - 1]
  OBVIOUS
<1>6. h \in Frame /\ h.at = "fork" /\ h.sync = s /\ h.left = k - 1 /\ k - 1 \in Nat
  <2>1. k - 1 \in Nat
    BY <1>4
  <2> QED
    BY <1>1, <1>2, <1>3, <1>4, <1>5, <2>1 DEF Frame
<1>7. PICK q \in Proc :
        /\ IsNewProc(q)
        /\ branches' = IF s = None THEN branches ELSE [branches EXCEPT ![s] = @ \cup {q}]
        /\ stack' = <<Body(q)>> \o (<<h>> \o Tail(stack))
  BY <1>2, <1>3, <1>4, <1>5 DEF StartBranch
<1>8. PICK b \in Frame : b = Body(q) /\ b.at = "body"
  BY FrameFields
<1>9. InProgress' = (InProgress \ {g}) \cup {h, b} /\ g \in InProgress /\ g.at = "fork"
  <2>1. Pushes(n, h, b)
    BY <1>1, <1>2, <1>6, <1>7, <1>8, InvParts, StackPushes
  <2> QED
    BY <1>1, <1>2, <1>3, <2>1, InvParts, ProgressPushes
<1>10. q \notin Created /\ q \notin doneBy
  BY <1>7, DoneByCreated DEF IsNewProc
<1>11. /\ \A t \in Sync : q \notin branches[t]
       /\ \A t \in Sync : t # s => branches'[t] = branches[t]
       /\ s # None => s \in Sync /\ branches'[s] = branches[s] \cup {q}
  <2>1. \A t \in Sync : q \notin branches[t]
    BY <1>10, InvParts, Numbers DEF Calls, Creation
  <2> QED
    BY <1>7, <2>1, InvParts DEF TypeOK
<1>12. /\ \A t : InFork(t)' <=> InFork(t)
       /\ \A r : Returning(r) => Returning(r)'
       /\ \A t : DoneOn(t) => DoneOn(t)'
  BY <1>4, <1>6, <1>8, <1>9, CallsInProgress, DoneOnNext DEF InFork, Returning
<1>13. \A t \in Sync : \A j : t # s => Missing(t, j)' = Missing(t, j)
  BY <1>1, <1>11 DEF Missing
<1>14. s # None => Missing(s, k - 1)' = Missing(s, k)
  BY <1>1, <1>4, <1>10, <1>11, InvParts, MissingBranch
<1>15. \A r \in doneBy' : r \in gone' \/ Returning(r)'
  BY <1>1, <1>12, CountsParts
<1>16. \A t \in anyJoin' : branches'[t] # {} \/ InFork(t)'
  <2> SUFFICES ASSUME NEW t \in anyJoin PROVE branches'[t] # {} \/ InFork(t)'
    BY <1>1
  <2>1. t \in Sync /\ (branches[t] # {} \/ InFork(t))
    BY CountsParts, InvParts DEF TypeOK
  <2>2. CASE t # s
    BY <1>11, <1>12, <2>1, <2>2
  <2>3. CASE t = s
    BY <1>11, <2>1, <2>3, Numbers
  <2> QED
    BY <2>2, <2>3
<1>17. ASSUME NEW f \in InProgress' PROVE ForkCounts(f)'
  <2> SUFFICES ASSUME f.at = "fork", f.sync # None
               PROVE  sync'[f.sync].count = Missing(f.sync, f.left)'
    BY DEF ForkCounts
  <2>1. CASE f = h
    <3>1. ForkCounts(g)
      BY <1>9, CountsParts
    <3> QED
      BY <1>1, <1>4, <1>6, <1>9, <1>14, <2>1, <3>1 DEF ForkCounts
  <2>2. CASE f # h
    <3>1. f \in InProgress /\ f # g /\ ForkCounts(f) /\ f.sync \in Sync
      BY <1>8, <1>9, <2>2, CountsParts, CallsInProgress
    <3>2. f.sync # s
      BY <1>4, <1>9, <3>1, CallsInProgress
    <3> QED
      BY <1>1, <1>13, <3>1, <3>2 DEF ForkCounts
  <2> QED
    BY <2>1, <2>2
<1>18. ASSUME NEW t \in Sync PROVE JoinCounts(t)'
  <2>1. CASE t # s
    <3>1. JoinCounts(t) /\ sync'[t] = sync[t] /\ branches'[t] = branches[t]
      BY <1>1, <1>11, <2>1, CountsParts
    <3> QED
      BY <1>12, <1>13, <2>1, <3>1 DEF JoinCounts
  <2>2. CASE t = s
    <3>1. InFork(s)'
      BY <1>6, <1>9 DEF InFork
    <3> QED
      BY <2>2, <3>1 DEF JoinCounts
  <2> QED
    BY <2>1, <2>2
<1> QED
  BY <1>15, <1>16, <1>17, <1>18, CountsPartsNext

\* done() counts a branch once, and resumes the process that waits with the last one.
LEMMA CountsDone ==
  ASSUME Inv, Counts, NEW p \in Proc, Done(p)
  PROVE  Counts'
<1>0. PICK n \in Nat \ {0}, s \in Sync, h \in Frame, c \in Nat, e \in Nat, r \in Proc \cup {None} :
           Completes(p, n, s, h, c, e, r)
  BY DoneFacts
<1>1. /\ n = Depth /\ Fr(n) = Body(p) /\ stack # <<>> /\ p \notin gone /\ forkOf[p] = s
      /\ h.p = p /\ h.at = "done" /\ h.sync = s
      /\ c = sync[s].count /\ r = sync[s].susp /\ e = CountDown(c)
      /\ sync'[s].count = e /\ sync'[s].susp = r
      /\ \A t \in Sync : t # s => sync'[t] = sync[t]
  BY <1>0 DEF Completes
<1>2. UNCHANGED <<branches, anyJoin>> /\ doneBy' = doneBy \cup {p}
  BY DEF Done
<1>3. PICK g : g = Fr(n)
  OBVIOUS
<1>4. g.p = p /\ g.at = "body"
  BY <1>1, <1>3, FrameFields
<1>5. /\ g \in InProgress /\ h \in InProgress' /\ gone \subseteq gone'
      /\ \A f \in InProgress : f = g \/ f \in InProgress'
      /\ \A f \in InProgress' : f \in InProgress \/ f = h \/ f.at = "body"
  <2>1. CASE stack' = <<h>> \o Tail(stack) /\ gone \subseteq gone'
    <3>1. Replaces(n, h)
      BY <1>1, <2>1, InvParts, StackReplaces
    <3>2. InProgress' = (InProgress \ {Fr(n)}) \cup {h} /\ Fr(n) \in InProgress
      BY <3>1, InvParts, ProgressReplaces
    <3> QED
      BY <1>3, <2>1, <3>2
  <2>2. CASE /\ r # None /\ stack' = <<Body(r)>> \o (<<h>> \o Tail(stack)) /\ gone' = gone
    <3>1. PICK b \in Frame : b = Body(r) /\ b.at = "body"
      BY <2>2, FrameFields
    <3>2. Pushes(n, h, b)
      BY <1>1, <2>2, <3>1, InvParts, StackPushes
    <3>3. InProgress' = (InProgress \ {Fr(n)}) \cup {h, b} /\ Fr(n) \in InProgress
      BY <3>2, InvParts, ProgressPushes
    <3> QED
      BY <1>3, <2>2, <3>1, <3>3
  <2>3. \/ stack' = <<h>> \o Tail(stack) /\ gone \subseteq gone'
        \/ r # None /\ stack' = <<Body(r)>> \o (<<h>> \o Tail(stack)) /\ gone' = gone
    BY <1>0 DEF Completes, Resume
  <2> QED
    BY <2>1, <2>2, <2>3
<1>6. /\ \A t : InFork(t)' <=> InFork(t)
      /\ \A q : Returning(q) => Returning(q)'
      /\ Returning(p)'
      /\ \A t : DoneOn(t) => DoneOn(t)'
      /\ DoneOn(s)'
  BY <1>1, <1>4, <1>5, CallsInProgress, DoneOnNext DEF InFork, Returning
<1>7. p \notin doneBy
  <2>1. ~Returning(p)
    BY <1>4, <1>5, CallsInProgress DEF Returning
  <2> QED
    BY <1>1, <2>1, CountsParts
<1>8. p \in branches[s] /\ \A t \in Sync : t # s => p \notin branches[t]
  BY <1>1, InvParts DEF Calls, Creation
<1>9. \A t \in Sync : \A k : t # s => Missing(t, k)' = Missing(t, k)
  <2> SUFFICES ASSUME NEW t \in Sync, NEW k, t # s PROVE Missing(t, k)' = Missing(t, k)
    OBVIOUS
  <2>1. (branches[t] \cap doneBy)' = branches[t] \cap doneBy /\ (branches[t] \ doneBy)' = branches[t] \ doneBy
    BY <1>2, <1>8
  <2>2. Missing(t, k)' = IF t \in anyJoin' THEN IF (branches[t] \cap doneBy)' = {} THEN 1 ELSE 0
                         ELSE k + Cardinality((branches[t] \ doneBy)')
    BY DEF Missing
  <2> QED
    BY <1>2, <2>1, <2>2 DEF Missing
<1>10. \A k \in Nat : Missing(s, k)' = CountDown(Missing(s, k))
  BY <1>2, <1>7, <1>8, InvParts, MissingDone
<1>11. \A q \in doneBy' : q \in gone' \/ Returning(q)'
  BY <1>2, <1>5, <1>6, CountsParts
<1>12. \A t \in anyJoin' : branches'[t] # {} \/ InFork(t)'
  BY <1>2, <1>6, CountsParts
<1>13. ASSUME NEW f \in InProgress' PROVE ForkCounts(f)'
  <2> SUFFICES ASSUME f.at = "fork", f.sync # None
               PROVE  sync'[f.sync].count = Missing(f.sync, f.left)'
    BY DEF ForkCounts
  <2>1. f \in InProgress /\ ForkCounts(f) /\ f.sync \in Sync /\ f.left \in Nat
    BY <1>1, <1>5, CountsParts, CallsInProgress
  <2>2. CASE f.sync = s
    BY <1>1, <1>10, <2>1, <2>2 DEF ForkCounts
  <2>3. CASE f.sync # s
    BY <1>1, <1>9, <2>1, <2>3 DEF ForkCounts
  <2> QED
    BY <2>2, <2>3
<1>14. ASSUME NEW t \in Sync PROVE JoinCounts(t)'
  <2>1. JoinCounts(t)
    BY CountsParts
  <2>2. CASE t # s
    <3>1. sync'[t] = sync[t] /\ branches' = branches
      BY <1>1, <1>2, <2>2
    <3> QED
      BY <1>6, <1>9, <2>1, <2>2, <3>1 DEF JoinCounts
  <2>3. CASE t = s
    <3>1. e > 0 => c > 0
      BY <1>1 DEF CountDown
    <3>2. 0 \in Nat
      OBVIOUS
    <3>3. Missing(s, 0)' = CountDown(Missing(s, 0))
      BY <1>10, <3>2
    <3> QED
      BY <1>1, <1>2, <1>6, <2>1, <2>3, <3>1, <3>3 DEF JoinCounts
  <2> QED
    BY <2>2, <2>3
<1> QED
  BY <1>11, <1>12, <1>13, <1>14, CountsPartsNext

LEMMA CountsStep ==
  ASSUME Inv, Counts, [Next]_vars
  PROVE  Counts'
<1>0. Inv'
  BY InvStep
<1>1. ASSUME UNCHANGED <<sync, branches, doneBy, anyJoin>>, gone \subseteq gone', stack' = stack
      PROVE  Counts'
  <2>1. InProgress' = InProgress
    BY <1>1, StackKeeps, ProgressKeeps
  <2> QED
    BY <1>0, <1>1, <2>1, CountsKeep
<1>2. ASSUME UNCHANGED <<sync, branches, doneBy, anyJoin>>, gone \subseteq gone',
             stack # <<>>, Top.at = "body", stack' = Tail(stack)
      PROVE  Counts'
  <2>1. PICK n : n = Depth /\ Top = Fr(n)
    BY <1>2, Innermost
  <2>2. InProgress' = InProgress \ {Fr(n)}
    BY <1>2, <2>1, InvParts, StackPops, ProgressPops
  <2> QED
    BY <1>0, <1>2, <2>1, <2>2, CountsKeep
<1>3. ASSUME UNCHANGED <<sync, branches, doneBy, anyJoin>>, stack = <<>>, NEW r \in Proc, Resume(r, <<>>)
      PROVE  Counts'
  <2>1. gone \subseteq gone' /\ (stack' = stack \/ stack' = <<Body(r)>> \o <<>>)
    BY <1>3 DEF Resume
  <2>2. PICK g \in Frame : g = Body(r) /\ g.at = "body"
    BY FrameFields
  <2>3. CASE stack' = <<Body(r)>> \o <<>>
    <3>1. InProgress' = InProgress \cup {g}
      BY <1>3, <2>2, <2>3, StackEnters, ProgressEnters
    <3> QED
      BY <1>0, <1>3, <2>1, <2>2, <3>1, CountsKeep
  <2> QED
    BY <1>1, <1>3, <2>1, <2>3
<1>4. ASSUME NEW p \in Proc, Statement(p) PROVE Counts'
  <2>1. CASE AwaitHeld(p) \/ AwaitForever(p) \/ \E w \in Waitable : AwaitDynamic(p, w)
    BY <1>2, <2>1 DEF AwaitHeld, AwaitForever, AwaitDynamic, Running, Suspend, syncVars
  <2>2. CASE DisableFork(p) \/ (\E e \in Event : FireEvent(p, e))
             \/ (\E r \in Proc, s \in {"KILLED", "RUNNING"} : SetStatus(p, r, s))
    BY <1>1, <2>2 DEF DisableFork, FireEvent, SetStatus, syncVars
  <2> QED
    BY <1>4, <2>1, <2>2, CountsFork DEF Statement
<1>5. ASSUME NEW p \in Proc, End(p) PROVE Counts'
  <2>1. Top.at = "body"
    BY <1>5, FrameFields DEF End
  <2> QED
    BY <1>2, <1>5, <2>1 DEF End, syncVars
<1>6. ASSUME BeginEvaluate \/ Evaluate \/ BeginPost \/ PostUpdate \/ EndPost \/ BeginDynamic
             \/ EndDynamic \/ UNCHANGED vars
      PROVE  Counts'
  BY <1>1, <1>6 DEF BeginEvaluate, Evaluate, BeginPost, PostUpdate, EndPost, BeginDynamic,
     EndDynamic, vars, procVars, syncVars
<1>7. ASSUME NEW p \in Proc, ResumeHeld(p) PROVE Counts'
  BY <1>3, <1>7 DEF ResumeHeld, syncVars
<1>8. ASSUME ResumeTriggered PROVE Counts'
  <2>1. pos \in 1 .. Len(triggered) /\ triggered \in Seq(Proc)
    BY <1>8, InvParts, LenProperties DEF ResumeTriggered, TypeOK
  <2>2. PICK r \in Proc : r = triggered[pos]
    BY <2>1, ElementOfSeq
  <2>3. stack = <<>> /\ Resume(r, <<>>) /\ UNCHANGED <<sync, branches, doneBy, anyJoin>>
    BY <1>8, <2>2 DEF ResumeTriggered, syncVars
  <2> QED
    BY <1>3, <2>3
<1> QED
  BY <1>4, <1>5, <1>6, <1>7, <1>8, CountsDone, CountsStartBranch, CountsJoin, CountsEndBranch DEF Next

\* A process waits in a join exactly as long as too few of its branches have called
\* done(), for any number of processes and however their calls nest: done() of
\* the last branch resumes it, whether it was called inside the fork, inside
\* another done() or by the loop, and nobody is left in a join that has ended.
THEOREM JoinsExact == Spec => []JoinExact
<1>1. ASSUME Init PROVE Counts
  <2>1. /\ doneBy = {} /\ anyJoin = {} /\ \A s \in Sync : branches[s] = {}
    BY <1>1 DEF Init
  <2>2. Depth = 1 /\ Fr(1) = Body(1) /\ \A d \in 1 .. 1 : d = 1
    BY <1>1 DEF Init, Depth, Fr
  <2>3. Body(1).at = "body"
    BY DEF Body
  <2>4. \A f \in InProgress : f.at = "body"
    BY <2>2, <2>3 DEF InProgress
  <2> QED
    BY <2>1, <2>4 DEF Counts
<1>2. ASSUME Inv, Counts PROVE JoinExact
  <2> SUFFICES ASSUME NEW s \in Sync, branches[s] # {}, ~Forking(s)
               PROVE  (sync[s].susp # None /\ ~InDone(s)) <=> ~Satisfied(s)
    BY DEF JoinExact
  <2>1. ~InFork(s)
    <3>1. \A d \in 1 .. Depth : \E i \in DOMAIN stack : stack[i] = Fr(d)
      BY <1>2, InvParts, CallIndex
    <3> QED
      BY <3>1 DEF InFork, InProgress, Forking
  <2>2. PICK c \in Nat : c = sync[s].count
    BY <1>2, InvParts, JoinFields
  <2>3. /\ c = Missing(s, 0)
        /\ c > 0 => sync[s].susp # None
        /\ c = 0 => sync[s].susp = None \/ DoneOn(s)
    BY <1>2, <2>1, <2>2, CountsParts DEF JoinCounts
  <2>4. InDone(s) <=> c = 0 /\ DoneOn(s)
    BY <1>2, <2>2, InvParts, InDoneDoneOn
  <2>5. c = 0 <=> Satisfied(s)
    <3>1. PICK k : k = Cardinality(branches[s] \ doneBy)
      OBVIOUS
    <3>2. k \in Nat /\ (k = 0 <=> branches[s] \ doneBy = {})
      <4>1. branches[s] \ doneBy \in SUBSET Proc
        BY <1>2, InvParts DEF TypeOK
      <4>2. IsFiniteSet(branches[s] \ doneBy) /\ k \in Nat
        BY <3>1, <4>1, ProcFinite
      <4> QED
        BY <3>1, <4>2, FS_EmptySet
    <3>3. c = IF s \in anyJoin THEN IF branches[s] \cap doneBy = {} THEN 1 ELSE 0 ELSE k
      BY <2>3, <3>1, <3>2 DEF Missing
    <3>4. branches[s] \ doneBy = {} <=> branches[s] \subseteq doneBy
      OBVIOUS
    <3> QED
      BY <3>2, <3>3, <3>4 DEF Satisfied
  <2> QED
    BY <2>2, <2>3, <2>4, <2>5
<1> QED
  BY <1>1, <1>2, CountsStep, Invariance, PTL DEF Spec
================================================================================
