--------------------------- MODULE TraceOffloadProofs ---------------------------
(***************************************************************************)
(* Proofs about offloaded tracing, for any number of buffers, values,      *)
(* times, reopenings and flushes: types, the buffers' circulation, that    *)
(* the caller never writes the file together with the worker, that the     *)
(* two threads implement TraceFile, and that the file shows at each time   *)
(* what was dumped then.                                                   *)
(***************************************************************************)
EXTENDS TraceOffload, SequenceTheorems, FiniteSetTheorems, TLAPS

--------------------------------------------------------------------------------
(* Queues of distinct elements. *)

Holds(q, b) == \E i \in 1 .. Len(q) : q[i] = b
Distinct(q) == \A i, j \in 1 .. Len(q) : q[i] = q[j] => i = j

\* Taking the head of a queue.
LEMMA TakeHead ==
  ASSUME NEW S, NEW q \in Seq(S), q # <<>>
  PROVE  /\ Head(q) \in S /\ Tail(q) \in Seq(S)
         /\ Len(q) \in Nat \ {0} /\ Len(Tail(q)) = Len(q) - 1
         /\ Head(q) = q[1]
         /\ \A i \in 1 .. Len(q) - 1 : Tail(q)[i] = q[i + 1]
BY HeadTailProperties, EmptySeq, LenProperties

LEMMA TakeHeadHolds ==
  ASSUME NEW S, NEW q \in Seq(S), q # <<>>, Distinct(q)
  PROVE  /\ Distinct(Tail(q))
         /\ ~Holds(Tail(q), Head(q))
         /\ \A b : Holds(q, b) <=> b = Head(q) \/ Holds(Tail(q), b)
<1> DEFINE n == Len(q)
           t == Tail(q)
<1>1. n \in Nat \ {0} /\ Len(t) = n - 1 /\ Head(q) = q[1]
      /\ \A i \in 1 .. n - 1 : t[i] = q[i + 1]
  BY TakeHead
<1>2. \A i, j \in 1 .. n : q[i] = q[j] => i = j
  BY DEF Distinct
<1>h. HIDE DEF t, n
<1>3. \A i, j \in 1 .. n - 1 : t[i] = t[j] => i = j
  <2> SUFFICES ASSUME NEW i \in 1 .. n - 1, NEW j \in 1 .. n - 1, t[i] = t[j] PROVE i = j
    OBVIOUS
  <2>1. i + 1 \in 1 .. n /\ j + 1 \in 1 .. n
    BY <1>1
  <2>2. q[i + 1] = q[j + 1]
    BY <1>1
  <2>3. i + 1 = j + 1
    BY <1>2, <2>1, <2>2
  <2> QED
    BY <2>3
<1>4. \A i \in 1 .. n - 1 : t[i] # q[1]
  <2> SUFFICES ASSUME NEW i \in 1 .. n - 1, t[i] = q[1] PROVE FALSE
    OBVIOUS
  <2>1. i + 1 \in 1 .. n /\ 1 \in 1 .. n /\ i + 1 # 1
    BY <1>1
  <2> QED
    BY <1>1, <1>2, <2>1
<1>5. ASSUME NEW b
      PROVE  (\E i \in 1 .. n : q[i] = b) <=> b = q[1] \/ \E i \in 1 .. n - 1 : t[i] = b
  <2>1. ASSUME NEW i \in 1 .. n, q[i] = b, i # 1 PROVE \E k \in 1 .. n - 1 : t[k] = b
    <3>1. i - 1 \in 1 .. n - 1 /\ (i - 1) + 1 = i
      BY <1>1, <2>1
    <3> QED
      BY <1>1, <2>1, <3>1
  <2>2. ASSUME NEW i \in 1 .. n - 1, t[i] = b PROVE \E k \in 1 .. n : q[k] = b
    <3>1. i + 1 \in 1 .. n
      BY <1>1
    <3> QED
      BY <1>1, <2>2, <3>1
  <2>3. 1 \in 1 .. n
    BY <1>1
  <2> QED
    BY <2>1, <2>2, <2>3
<1> QED
  BY <1>1, <1>3, <1>4, <1>5 DEF Distinct, Holds, t, n

\* Adding to the end of a queue.
LEMMA AddLast ==
  ASSUME NEW S, NEW q \in Seq(S), NEW x \in S
  PROVE  /\ Append(q, x) \in Seq(S) /\ Append(q, x) # <<>>
         /\ Len(q) \in Nat /\ Len(Append(q, x)) = Len(q) + 1
         /\ \A i \in 1 .. Len(q) : Append(q, x)[i] = q[i]
         /\ Append(q, x)[Len(q) + 1] = x
BY AppendProperties, LenProperties

LEMMA AddLastHolds ==
  ASSUME NEW S, NEW q \in Seq(S), NEW x \in S, Distinct(q), ~Holds(q, x)
  PROVE  /\ Distinct(Append(q, x))
         /\ \A b : Holds(Append(q, x), b) <=> Holds(q, b) \/ b = x
<1> DEFINE n == Len(q)
           a == Append(q, x)
<1>1. n \in Nat /\ Len(a) = n + 1 /\ (\A i \in 1 .. n : a[i] = q[i]) /\ a[n + 1] = x
  BY AddLast
<1>2. (\A i, j \in 1 .. n : q[i] = q[j] => i = j) /\ (\A i \in 1 .. n : q[i] # x)
  BY DEF Distinct, Holds
<1>h. HIDE DEF a, n
<1>3. \A i \in 1 .. n + 1 : i \in 1 .. n \/ i = n + 1
  BY <1>1
<1>4. n + 1 \in 1 .. n + 1 /\ \A i \in 1 .. n : i \in 1 .. n + 1
  BY <1>1
<1> QED
  BY <1>1, <1>2, <1>3, <1>4 DEF Distinct, Holds, a, n

\* Putting back at the front of a queue.
LEMMA AddFirst ==
  ASSUME NEW S, NEW q \in Seq(S), NEW x \in S
  PROVE  /\ <<x>> \o q \in Seq(S)
         /\ Len(q) \in Nat /\ Len(<<x>> \o q) = Len(q) + 1
         /\ (<<x>> \o q)[1] = x
         /\ \A i \in 2 .. Len(q) + 1 : (<<x>> \o q)[i] = q[i - 1]
<1>1. <<x>> \in Seq(S) /\ Len(<<x>>) = 1 /\ <<x>>[1] = x /\ Len(q) \in Nat
  BY LenProperties
<1> QED
  BY <1>1, ConcatProperties

LEMMA AddFirstHolds ==
  ASSUME NEW S, NEW q \in Seq(S), NEW x \in S, Distinct(q), ~Holds(q, x)
  PROVE  /\ Distinct(<<x>> \o q)
         /\ \A b : Holds(<<x>> \o q, b) <=> Holds(q, b) \/ b = x
<1> DEFINE n == Len(q)
           a == <<x>> \o q
<1>1. n \in Nat /\ Len(a) = n + 1 /\ a[1] = x /\ \A i \in 2 .. n + 1 : a[i] = q[i - 1]
  BY AddFirst
<1>2. (\A i, j \in 1 .. n : q[i] = q[j] => i = j) /\ (\A i \in 1 .. n : q[i] # x)
  BY DEF Distinct, Holds
<1>h. HIDE DEF a, n
<1>3. \A i \in 1 .. n + 1 : i = 1 \/ (i \in 2 .. n + 1 /\ i - 1 \in 1 .. n)
  BY <1>1
<1>4. \A i, j \in 1 .. n + 1 : a[i] = a[j] => i = j
  <2> SUFFICES ASSUME NEW i \in 1 .. n + 1, NEW j \in 1 .. n + 1, a[i] = a[j] PROVE i = j
    OBVIOUS
  <2>1. CASE i = 1 \/ j = 1
    BY <1>1, <1>2, <1>3, <2>1
  <2>2. CASE i # 1 /\ j # 1
    <3>1. i - 1 \in 1 .. n /\ j - 1 \in 1 .. n /\ q[i - 1] = q[j - 1]
      BY <1>1, <1>3, <2>2
    <3>2. i - 1 = j - 1
      BY <1>2, <3>1
    <3> QED
      BY <1>1, <3>2
  <2> QED
    BY <2>1, <2>2
<1>5. ASSUME NEW b
      PROVE  (\E i \in 1 .. n + 1 : a[i] = b) <=> (\E i \in 1 .. n : q[i] = b) \/ b = x
  <2>1. ASSUME NEW i \in 1 .. n, q[i] = b PROVE \E k \in 1 .. n + 1 : a[k] = b
    <3>1. i + 1 \in 2 .. n + 1 /\ i + 1 \in 1 .. n + 1 /\ (i + 1) - 1 = i
      BY <1>1
    <3> QED
      BY <1>1, <2>1, <3>1
  <2>2. 1 \in 1 .. n + 1
    BY <1>1
  <2> QED
    BY <1>1, <1>3, <2>1, <2>2
<1> QED
  BY <1>1, <1>4, <1>5 DEF Distinct, Holds, a, n

\* Taking the last element of the stash.
LEMMA TakeLast ==
  ASSUME NEW S, NEW q \in Seq(S), q # <<>>
  PROVE  /\ q[Len(q)] \in S /\ SubSeq(q, 1, Len(q) - 1) \in Seq(S)
         /\ Len(q) \in Nat \ {0} /\ Len(SubSeq(q, 1, Len(q) - 1)) = Len(q) - 1
         /\ \A i \in 1 .. Len(q) - 1 : SubSeq(q, 1, Len(q) - 1)[i] = q[i]
<1>1. Len(q) \in Nat \ {0}
  BY EmptySeq, LenProperties
<1>2. q[Len(q)] \in S
  BY <1>1, ElementOfSeq
<1> DEFINE n == Len(q) - 1
<1>3. 1 \in Int /\ n \in Int /\ \A i \in 1 .. n : q[i] \in S
  BY <1>1, ElementOfSeq
<1>h. HIDE DEF n
<1>4. /\ SubSeq(q, 1, n) \in Seq(S)
      /\ Len(SubSeq(q, 1, n)) = IF 1 <= n THEN n - 1 + 1 ELSE 0
      /\ \A i \in 1 .. n - 1 + 1 : SubSeq(q, 1, n)[i] = q[1 + i - 1]
  BY <1>3, SubSeqProperties
<1>5. n \in Nat
  BY <1>1 DEF n
<1>6. Len(SubSeq(q, 1, n)) = n /\ \A i \in 1 .. n : SubSeq(q, 1, n)[i] = q[i]
  BY <1>4, <1>5
<1> QED
  BY <1>1, <1>2, <1>4, <1>6 DEF n

LEMMA TakeLastHolds ==
  ASSUME NEW S, NEW q \in Seq(S), q # <<>>, Distinct(q)
  PROVE  /\ Distinct(SubSeq(q, 1, Len(q) - 1))
         /\ ~Holds(SubSeq(q, 1, Len(q) - 1), q[Len(q)])
         /\ \A b : Holds(q, b) <=> b = q[Len(q)] \/ Holds(SubSeq(q, 1, Len(q) - 1), b)
<1> DEFINE n == Len(q)
           a == SubSeq(q, 1, Len(q) - 1)
<1>1. n \in Nat \ {0} /\ Len(a) = n - 1 /\ \A i \in 1 .. n - 1 : a[i] = q[i]
  BY TakeLast
<1>2. \A i, j \in 1 .. n : q[i] = q[j] => i = j
  BY DEF Distinct
<1>h. HIDE DEF a, n
<1>3. (\A i \in 1 .. n : i = n \/ i \in 1 .. n - 1) /\ n \in 1 .. n
      /\ \A i \in 1 .. n - 1 : i \in 1 .. n /\ i # n
  BY <1>1
<1>4. ASSUME NEW b
      PROVE  (\E i \in 1 .. n : q[i] = b) <=> b = q[n] \/ \E i \in 1 .. n - 1 : a[i] = b
  BY <1>1, <1>3
<1>5. (\A i, j \in 1 .. n - 1 : a[i] = a[j] => i = j) /\ \A i \in 1 .. n - 1 : a[i] # q[n]
  BY <1>1, <1>2, <1>3
<1> QED
  BY <1>1, <1>4, <1>5 DEF Distinct, Holds, a, n

--------------------------------------------------------------------------------

CallerHas(b) == pc = "fill" /\ buf = b
WorkerHas(b) == Busy /\ wbuf = b

\* Where the threads are and what they then have.
Control ==
    /\ call = "none" <=> pc = "idle"
    /\ pc \in {"fill", "wait"} => buf \in Buffer
    /\ Busy => wbuf \in Buffer
    /\ worker \in {"time", "chg"} => mem[wbuf].dump # <<>>
    /\ pc \notin {"wait", "restore"} => stash = <<>>
    /\ call = "dump" => pc \in {"get", "fill"}
    /\ pc = "direct" => call \in {"flush", "full"}
    /\ pc \in {"join", "drain"} => call = "close"
    /\ pc # "drain" => (open <=> worker # "none")
    /\ pc = "drain" => worker = "none"
    /\ worker = "none" /\ pc \in {"idle", "get", "fill"} => toWorker = <<>>
    /\ call \in {"dump", "full"} => open

\* A buffer is in one place, and the places together hold the buffers that are counted.
UniqueAt(b) ==
    /\ ~(Holds(stash, b) /\ Holds(toWorker, b))
    /\ ~(Holds(stash, b) /\ Holds(fromWorker, b))
    /\ ~(Holds(toWorker, b) /\ Holds(fromWorker, b))
    /\ CallerHas(b) => ~Holds(stash, b) /\ ~Holds(toWorker, b) /\ ~Holds(fromWorker, b)
    /\ WorkerHas(b) => ~Holds(stash, b) /\ ~Holds(toWorker, b) /\ ~Holds(fromWorker, b)
    /\ ~(CallerHas(b) /\ WorkerHas(b))

Somewhere(b) ==
    Holds(stash, b) \/ Holds(toWorker, b) \/ Holds(fromWorker, b) \/ CallerHas(b) \/ WorkerHas(b)

Unique ==
    /\ Distinct(stash) /\ Distinct(toWorker) /\ Distinct(fromWorker)
    /\ \A b \in Buffer : UniqueAt(b)
    /\ \A b \in Buffer : pc # "drain" => (Somewhere(b) <=> b <= num)

One(P) == IF P THEN 1 ELSE 0

Counted ==
    num = Len(stash) + Len(toWorker) + Len(fromWorker) + One(pc = "fill") + One(Busy)

\* The buffer a call waits for is the last one the worker gets to.
InOrder ==
    /\ pc \in {"restore", "direct", "join", "drain"} => ~Busy /\ toWorker = <<>>
    /\ pc = "wait" => \/ toWorker # <<>> /\ toWorker[Len(toWorker)] = buf
                      \/ toWorker = <<>> /\ (Busy => wbuf = buf)

\* Every other buffer on its way holds a dump, and these are the dumps not written yet.
Dumps ==
    /\ pc = "wait" => mem[buf].dump = <<>>
    /\ \A i \in 1 .. Len(toWorker) :
        (pc = "wait" /\ i = Len(toWorker)) \/ mem[toWorker[i]].dump # <<>>
    /\ Len(requested) = written + Len(toWorker) - One(pc = "wait" /\ toWorker # <<>>)
                          + One(worker \in {"time", "chg"}) + One(call \in {"dump", "full"})

Inv == TypeOK /\ Control /\ Unique /\ Counted /\ InOrder /\ Dumps

\* The dumps on their way are those requested after the written ones, in order, and the
\* worker has the time of its dump in hand when it gets to the value.
Increasing(R) == \A i, j \in 1 .. Len(R) : i < j => R[i].t < R[j].t
Taken == One(worker \in {"time", "chg"})
Pending ==
    /\ Increasing(requested)
    /\ \A i \in 1 .. Len(requested) : requested[i].t <= timeLastDump
    /\ call \in {"dump", "full"} => arg = requested[Len(requested)]
    /\ \A i \in 1 .. Len(toWorker) :
        (pc = "wait" /\ i = Len(toWorker))
        \/ mem[toWorker[i]].dump = <<requested[written + Taken + i]>>
    /\ worker \in {"time", "chg"} => mem[wbuf].dump = <<requested[written + 1]>>
    /\ worker = "chg" => /\ timeui = requested[written + 1].t
                         /\ timeui = 0 => fileTime = 0

\* The first dump of a file is a full one: it begins with no value, and oldval is older.
FirstFull ==
    /\ open /\ fullDump => Len(requested) = One(call = "full")
    /\ open /\ ~fullDump => written > 0
    /\ call = "dump" => ~fullDump

\* Entry j of file F is the last one that is not later than t.
LastIn(F, j, t) == /\ j \in 1 .. Len(F) /\ F[j].t <= t
                   /\ \A k \in 1 .. Len(F) : F[k].t <= t => k <= j

\* File F shows the first w dumps of R, the last of which had value o.
Shows(R, w, F, o) ==
    /\ \A i \in 1 .. w : \E j \in 1 .. Len(F) : LastIn(F, j, R[i].t) /\ F[j].v = R[i].v
    /\ \A j \in 1 .. Len(F) : w > 0 /\ F[j].t <= R[w].t
    /\ w > 0 => F # <<>> /\ F[Len(F)].v = o /\ R[w].v = o

Content == Shows(requested, written, file, oldval)

Wave == Pending /\ FirstFull /\ Content

--------------------------------------------------------------------------------
(* The invariant. *)

LEMMA InitInv == Init => Inv
<1> SUFFICES ASSUME Init PROVE Inv
  OBVIOUS
<1> USE TraceAssumption DEF TraceAssumption
<1>1. TypeOK
  <2>1. <<>> \in Seq(Buffer) /\ <<>> \in Seq(Dump)
    BY EmptySeq
  <2>2. 0 \in Time /\ 0 \in 0 .. MaxBuffers
    BY DEF Time
  <2>3. mem \in [Buffer -> [dump : {<<>>} \cup {<<d>> : d \in Dump}, end : {"END", "SHUTDOWN"}]]
    BY DEF Init
  <2> QED
    BY <2>1, <2>2, <2>3 DEF Init, TypeOK, NoBuffer, NoTime
<1>2. \A b : ~Holds(<<>>, b)
  BY DEF Holds
<1>3. Distinct(<<>>)
  BY DEF Distinct
<1>4. Control
  BY DEF Init, Control, Busy
<1>5. Counted /\ InOrder /\ Dumps
  BY DEF Init, Counted, InOrder, Dumps, Busy, One
<1>6. Unique
  BY <1>2, <1>3 DEF Init, Unique, UniqueAt, Somewhere, CallerHas, WorkerHas, Busy, Buffer
<1> QED
  BY <1>1, <1>4, <1>5, <1>6 DEF Inv

LEMMA StutterInv == Inv /\ UNCHANGED vars => Inv'
BY DEF vars, callVars, queueVars, workerVars, fileVars, userVars, Inv, TypeOK, Control, Unique,
       UniqueAt, Somewhere, Counted, InOrder, Dumps, Busy, CallerHas, WorkerHas, Holds,
       Distinct, One

\* A step that moves no buffer keeps every buffer where it is.
LEMMA UniqueKept ==
  ASSUME Unique, UNCHANGED <<stash, toWorker, fromWorker, buf, wbuf, num>>,
         pc' = "fill" <=> pc = "fill", Busy' <=> Busy,
         pc = "drain" => pc' = "drain"
  PROVE  Unique'
<1>1. \A b : (Holds(stash, b) <=> Holds(stash, b)') /\ (Holds(toWorker, b) <=> Holds(toWorker, b)')
             /\ (Holds(fromWorker, b) <=> Holds(fromWorker, b)')
  BY DEF Holds
<1>2. Distinct(stash)' /\ Distinct(toWorker)' /\ Distinct(fromWorker)'
  BY DEF Distinct, Unique
<1>3. \A b : (CallerHas(b) <=> CallerHas(b)') /\ (WorkerHas(b) <=> WorkerHas(b)')
  BY DEF CallerHas, WorkerHas
<1> QED
  BY <1>1, <1>2, <1>3 DEF Unique, UniqueAt, Somewhere

LEMMA OpenInv == Inv /\ Open => Inv'
<1> SUFFICES ASSUME Inv, Open PROVE Inv'
  OBVIOUS
<1> USE DEF Inv, Open, callVars, queueVars
<1>1. worker = "none" /\ toWorker = <<>> /\ call = "none" /\ pc = "idle"
  BY DEF Control
<1>2. TypeOK'
  <2>1. <<>> \in Seq(Dump) /\ 0 \in Time
    BY EmptySeq, TraceAssumption DEF Time, TraceAssumption
  <2>2. opens' \in Nat /\ flushes' \in Nat
    BY DEF TypeOK
  <2> QED
    BY <2>1, <2>2 DEF TypeOK
<1>3. Busy' <=> Busy
  BY <1>1 DEF Busy
<1>4. Unique'
  BY <1>3, UniqueKept
<1>5. Control'
  BY <1>1 DEF Control, Busy
<1>6. Counted'
  BY <1>3 DEF Counted, One
<1>7. InOrder'
  BY <1>1 DEF InOrder
<1>8. Dumps'
  BY <1>1 DEF Dumps, One
<1> QED
  BY <1>2, <1>4, <1>5, <1>6, <1>7, <1>8

LEMMA DumpCallInv == \A d \in Dump : Inv /\ DumpCall(d) => Inv'
<1> SUFFICES ASSUME NEW d \in Dump, Inv, DumpCall(d) PROVE Inv'
  OBVIOUS
<1> USE DEF Inv, DumpCall, queueVars, workerVars, fileVars
<1>1. pc = "idle" /\ call = "none" /\ pc' \in {"idle", "get"}
  BY DEF Control
<1>2. TypeOK'
  <2>1. timeLastDump' \in Time \cup {NoTime}
    BY DEF Dump
  <2>2. requested' \in Seq(Dump) /\ arg' \in Dump
    <3>1. Append(requested, d) \in Seq(Dump)
      BY AddLast DEF TypeOK
    <3>2. CASE open
      BY <3>1, <3>2
    <3>3. CASE ~open
      BY <3>3 DEF TypeOK
    <3> QED
      BY <3>2, <3>3
  <2>3. call' \in {"none", "dump", "full", "flush", "close"}
    BY <1>1
  <2> QED
    BY <1>1, <2>1, <2>2, <2>3 DEF TypeOK
<1>3. Busy' <=> Busy
  BY DEF Busy
<1>4. Unique'
  BY <1>1, <1>3, UniqueKept
<1>5. Control'
  BY <1>1 DEF Control, Busy
<1>6. Counted'
  BY <1>1, <1>3 DEF Counted, One
<1>7. InOrder'
  BY <1>1 DEF InOrder
<1>8. Dumps'
  <2>1. CASE open
    <3>1. Len(requested') = Len(requested) + 1 /\ Len(requested) \in Nat
      BY <2>1, AppendProperties, LenProperties DEF TypeOK
    <3>2. Len(toWorker) \in Nat /\ written \in Nat
      BY LenProperties DEF TypeOK
    <3>3. call' \in {"dump", "full"}
      BY <2>1
    <3> QED
      BY <1>1, <2>1, <3>1, <3>2, <3>3 DEF Dumps, One
  <2>2. CASE ~open
    BY <1>1, <2>2 DEF Dumps, One
  <2> QED
    BY <2>1, <2>2
<1> QED
  BY <1>2, <1>4, <1>5, <1>6, <1>7, <1>8

LEMMA FlushInv == Inv /\ Flush => Inv'
<1> SUFFICES ASSUME Inv, Flush PROVE Inv'
  OBVIOUS
<1> USE DEF Inv, Flush, queueVars, workerVars, fileVars
<1>1. pc = "idle" /\ call = "none"
  BY DEF Control
<1>2. TypeOK'
  BY DEF TypeOK
<1>3. Busy' <=> Busy
  BY DEF Busy
<1>4. Unique'
  BY <1>1, <1>3, UniqueKept
<1>5. Control'
  BY <1>1 DEF Control, Busy
<1>6. Counted' /\ InOrder' /\ Dumps'
  BY <1>1, <1>3 DEF Counted, One, InOrder, Dumps
<1> QED
  BY <1>2, <1>4, <1>5, <1>6

LEMMA CloseInv == Inv /\ Close => Inv'
<1> SUFFICES ASSUME Inv, Close PROVE Inv'
  OBVIOUS
<1> USE DEF Inv, Close, queueVars, workerVars, fileVars, userVars
<1>1. pc = "idle" /\ call = "none" /\ pc' \in {"get", "drain"}
  BY DEF Control
<1>2. TypeOK'
  BY DEF TypeOK
<1>3. Busy' <=> Busy
  BY DEF Busy
<1>4. Unique'
  BY <1>1, <1>3, UniqueKept
<1>5. Control'
  BY <1>1 DEF Control, Busy
<1>6. Counted'
  BY <1>1, <1>3 DEF Counted, One
<1>7. InOrder'
  BY <1>1 DEF InOrder, Control, Busy
<1>8. Dumps'
  BY <1>1 DEF Dumps, One
<1> QED
  BY <1>2, <1>4, <1>5, <1>6, <1>7, <1>8

LEMMA GetReturnedInv == Inv /\ GetReturned => Inv'
<1> SUFFICES ASSUME Inv, GetReturned PROVE Inv'
  OBVIOUS
<1> USE DEF Inv, GetReturned, workerVars, fileVars, userVars
<1> DEFINE h == Head(fromWorker)
<1>1. fromWorker \in Seq(Buffer) /\ fromWorker # <<>>
  BY DEF TypeOK
<1>2. h \in Buffer /\ Tail(fromWorker) \in Seq(Buffer)
      /\ Len(fromWorker) \in Nat \ {0} /\ Len(Tail(fromWorker)) = Len(fromWorker) - 1
  BY <1>1, TakeHead
<1>3. TypeOK'
  BY <1>2 DEF TypeOK
<1>4. Busy' <=> Busy
  BY DEF Busy
<1>5. Control'
  BY <1>2 DEF Control, Busy
<1>6. Unique'
  <2>1. /\ Distinct(Tail(fromWorker))
        /\ ~Holds(Tail(fromWorker), h)
        /\ \A b : Holds(fromWorker, b) <=> b = h \/ Holds(Tail(fromWorker), b)
    BY <1>1, TakeHeadHolds DEF Unique
  <2>2. \A b : /\ Holds(stash, b)' <=> Holds(stash, b)
               /\ Holds(toWorker, b)' <=> Holds(toWorker, b)
               /\ Holds(fromWorker, b)' <=> Holds(Tail(fromWorker), b)
               /\ WorkerHas(b)' <=> WorkerHas(b)
               /\ CallerHas(b)' <=> b = h
               /\ ~CallerHas(b)
    BY <1>4 DEF Holds, WorkerHas, CallerHas
  <2>3. Distinct(stash)' /\ Distinct(toWorker)' /\ Distinct(fromWorker)'
    BY <2>1 DEF Unique, Distinct
  <2> HIDE DEF h
  <2>4. \A b \in Buffer : UniqueAt(b)'
    BY <1>2, <2>1, <2>2 DEF Unique, UniqueAt
  <2>5. \A b \in Buffer : Somewhere(b)' <=> Somewhere(b)
    BY <2>1, <2>2 DEF Somewhere
  <2> QED
    BY <2>3, <2>4, <2>5 DEF Unique
<1>7. Counted'
  <2>1. Len(stash) \in Nat /\ Len(toWorker) \in Nat
    BY LenProperties DEF TypeOK
  <2> QED
    BY <1>2, <1>4, <2>1 DEF Counted, One
<1>8. InOrder' /\ Dumps'
  BY DEF InOrder, Dumps, One
<1> QED
  BY <1>3, <1>5, <1>6, <1>7, <1>8

LEMMA GetNewInv == Inv /\ GetNew => Inv'
<1> SUFFICES ASSUME Inv, GetNew PROVE Inv'
  OBVIOUS
<1> USE DEF Inv, GetNew, workerVars, fileVars, userVars
<1>1. num \in Nat /\ MaxBuffers \in Nat /\ num + 1 \in 0 .. MaxBuffers
  BY TraceAssumption DEF TypeOK, TraceAssumption
<1>2. num + 1 \in Buffer
  BY <1>1 DEF Buffer
<1>3. TypeOK'
  BY <1>1, <1>2 DEF TypeOK
<1>4. Busy' <=> Busy
  BY DEF Busy
<1>5. Control'
  BY <1>2 DEF Control, Busy
<1>6. Unique'
  <2>1. \A b : /\ Holds(stash, b)' <=> Holds(stash, b)
               /\ Holds(toWorker, b)' <=> Holds(toWorker, b)
               /\ Holds(fromWorker, b)' <=> Holds(fromWorker, b)
               /\ WorkerHas(b)' <=> WorkerHas(b)
               /\ CallerHas(b)' <=> b = num + 1
               /\ ~CallerHas(b)
    BY <1>4 DEF Holds, WorkerHas, CallerHas
  <2>2. Distinct(stash)' /\ Distinct(toWorker)' /\ Distinct(fromWorker)'
    BY DEF Unique, Distinct
  <2>3. ~Somewhere(num + 1)
    <3>1. ~(num + 1 <= num)
      BY <1>1
    <3> QED
      BY <1>2, <3>1 DEF Unique
  <2>4. \A b \in Buffer : UniqueAt(b)'
    BY <2>1, <2>3 DEF Unique, UniqueAt, Somewhere
  <2>5. ASSUME NEW b \in Buffer PROVE Somewhere(b)' <=> b <= num'
    <3>1. Somewhere(b)' <=> Somewhere(b) \/ b = num + 1
      BY <2>1 DEF Somewhere
    <3>2. Somewhere(b) <=> b <= num
      BY DEF Unique
    <3>3. b \in Nat
      BY <1>1 DEF Buffer
    <3>4. b <= num + 1 <=> b <= num \/ b = num + 1
      BY <1>1, <3>3
    <3> QED
      BY <3>1, <3>2, <3>4
  <2> QED
    BY <2>2, <2>4, <2>5 DEF Unique
<1>7. Counted'
  <2>1. Len(stash) \in Nat /\ Len(toWorker) \in Nat /\ Len(fromWorker) \in Nat
    BY LenProperties DEF TypeOK
  <2> QED
    BY <1>1, <1>4, <2>1 DEF Counted, One
<1>8. InOrder' /\ Dumps'
  BY DEF InOrder, Dumps, One
<1> QED
  BY <1>3, <1>5, <1>6, <1>7, <1>8

LEMMA PutBufferInv == Inv /\ PutBuffer => Inv'
<1> SUFFICES ASSUME Inv, PutBuffer PROVE Inv'
  OBVIOUS
<1> USE DEF Inv, PutBuffer, workerVars, fileVars, userVars
<1>1. buf \in Buffer /\ toWorker \in Seq(Buffer)
  BY DEF TypeOK, Control
<1>2. Append(toWorker, buf) \in Seq(Buffer) /\ Append(toWorker, buf) # <<>>
      /\ Len(toWorker) \in Nat /\ Len(Append(toWorker, buf)) = Len(toWorker) + 1
      /\ (\A i \in 1 .. Len(toWorker) : Append(toWorker, buf)[i] = toWorker[i])
      /\ Append(toWorker, buf)[Len(toWorker) + 1] = buf
  BY <1>1, AddLast
<1>3. CallerHas(buf) /\ ~Holds(toWorker, buf) /\ ~WorkerHas(buf)
  BY <1>1 DEF Unique, UniqueAt, CallerHas
<1>4. pc' \in {"idle", "wait"} /\ (pc' = "idle" <=> call = "dump")
      /\ (call = "dump" => call' = "none") /\ (call # "dump" => call' = call)
  OBVIOUS
<1>5. \A b \in Buffer : b # buf => mem'[b] = mem[b]
  BY DEF TypeOK
<1>6. mem'[buf].dump = IF call = "dump" THEN <<arg>> ELSE <<>>
  BY <1>1 DEF TypeOK
<1>7. TypeOK'
  <2>1. [dump |-> IF call = "dump" THEN <<arg>> ELSE <<>>,
         end |-> IF call = "close" THEN "SHUTDOWN" ELSE "END"]
          \in [dump : {<<>>} \cup {<<d>> : d \in Dump}, end : {"END", "SHUTDOWN"}]
    BY DEF TypeOK
  <2>2. mem' \in [Buffer -> [dump : {<<>>} \cup {<<d>> : d \in Dump}, end : {"END", "SHUTDOWN"}]]
    BY <1>1, <2>1 DEF TypeOK
  <2>3. call' \in {"none", "dump", "full", "flush", "close"}
    BY <1>4 DEF TypeOK
  <2> QED
    BY <1>2, <1>4, <2>2, <2>3 DEF TypeOK
<1>8. Busy' <=> Busy
  BY DEF Busy
<1>9. Control'
  <2>1. worker \in {"time", "chg"} => mem'[wbuf].dump # <<>>
    BY <1>3, <1>5 DEF Control, WorkerHas, Busy
  <2>2. call = "dump" => worker # "none"
    BY DEF Control
  <2> QED
    BY <1>1, <1>4, <2>1, <2>2 DEF Control, Busy
<1>10. Unique'
  <2>1. /\ Distinct(Append(toWorker, buf))
        /\ \A b : Holds(Append(toWorker, buf), b) <=> Holds(toWorker, b) \/ b = buf
    BY <1>1, <1>3, AddLastHolds DEF Unique
  <2>2. \A b : /\ Holds(stash, b)' <=> Holds(stash, b)
               /\ Holds(toWorker, b)' <=> Holds(Append(toWorker, buf), b)
               /\ Holds(fromWorker, b)' <=> Holds(fromWorker, b)
               /\ WorkerHas(b)' <=> WorkerHas(b)
               /\ ~CallerHas(b)'
               /\ CallerHas(b) <=> b = buf
    BY <1>4, <1>8 DEF Holds, WorkerHas, CallerHas
  <2>3. Distinct(stash)' /\ Distinct(toWorker)' /\ Distinct(fromWorker)'
    BY <2>1 DEF Unique, Distinct
  <2>4. \A b \in Buffer : UniqueAt(b)'
    BY <2>1, <2>2 DEF Unique, UniqueAt
  <2>5. \A b \in Buffer : Somewhere(b)' <=> Somewhere(b)
    BY <2>1, <2>2 DEF Somewhere
  <2> QED
    BY <2>3, <2>4, <2>5 DEF Unique
<1>11. Counted'
  <2>1. Len(stash) \in Nat /\ Len(fromWorker) \in Nat
    BY LenProperties DEF TypeOK
  <2> QED
    BY <1>2, <1>4, <1>8, <2>1 DEF Counted, One
<1>12. InOrder'
  BY <1>2, <1>4 DEF InOrder
<1>13. Dumps'
  <2>1. pc' = "wait" => mem'[buf'].dump = <<>>
    BY <1>4, <1>6
  <2>2. ASSUME NEW i \in 1 .. Len(toWorker')
        PROVE  (pc' = "wait" /\ i = Len(toWorker')) \/ mem'[toWorker'[i]].dump # <<>>
    <3>1. CASE i = Len(toWorker) + 1
      <4>1. toWorker'[i] = buf /\ i = Len(toWorker')
        BY <1>2, <3>1
      <4>2. CASE call = "dump"
        <5>1. mem'[buf].dump = <<arg>>
          BY <1>6, <4>2
        <5>2. <<arg>> # <<>>
          OBVIOUS
        <5> HIDE DEF PutBuffer
        <5> QED
          BY <4>1, <5>1, <5>2
      <4>3. CASE call # "dump"
        BY <1>4, <4>1, <4>3
      <4> QED
        BY <4>2, <4>3
    <3>2. CASE i # Len(toWorker) + 1
      <4>1. i \in 1 .. Len(toWorker) /\ toWorker'[i] = toWorker[i]
        BY <1>2, <3>2
      <4>2. toWorker[i] \in Buffer /\ toWorker[i] # buf
        BY <1>1, <1>3, <4>1, ElementOfSeq DEF Holds
      <4>3. mem[toWorker[i]].dump # <<>>
        BY <4>1 DEF Dumps
      <4> QED
        BY <1>5, <4>1, <4>2, <4>3
    <3> QED
      BY <3>1, <3>2
  <2>3. Len(requested)' = written' + Len(toWorker)' - One(pc = "wait" /\ toWorker # <<>>)'
                          + One(worker \in {"time", "chg"})' + One(call \in {"dump", "full"})'
    <3>1. /\ written \in Nat
          /\ Len(requested) = written + Len(toWorker) + One(worker \in {"time", "chg"})
                                + One(call \in {"dump", "full"})
      BY <1>2 DEF Dumps, One, TypeOK
    <3> QED
      BY <1>2, <1>4, <3>1 DEF One
  <2> QED
    BY <2>1, <2>2, <2>3 DEF Dumps
<1> QED
  BY <1>7, <1>9, <1>10, <1>11, <1>12, <1>13

LEMMA WaitInv == Inv /\ Wait => Inv'
<1> SUFFICES ASSUME Inv, Wait PROVE Inv'
  OBVIOUS
<1> USE DEF Inv, Wait, workerVars, fileVars, userVars
<1> DEFINE h == Head(fromWorker)
<1>1. fromWorker \in Seq(Buffer) /\ fromWorker # <<>> /\ stash \in Seq(Buffer)
      /\ toWorker \in Seq(Buffer) /\ buf \in Buffer
  BY DEF TypeOK, Control
<1>2. h \in Buffer /\ Tail(fromWorker) \in Seq(Buffer)
      /\ Len(fromWorker) \in Nat \ {0} /\ Len(Tail(fromWorker)) = Len(fromWorker) - 1
  BY <1>1, TakeHead
<1>3. /\ Distinct(Tail(fromWorker))
      /\ ~Holds(Tail(fromWorker), h)
      /\ \A b : Holds(fromWorker, b) <=> b = h \/ Holds(Tail(fromWorker), b)
  BY <1>1, TakeHeadHolds DEF Unique
<1>4. ~Holds(stash, h) /\ ~Holds(toWorker, h) /\ ~WorkerHas(h)
  BY <1>2, <1>3 DEF Unique, UniqueAt
<1>5. Append(stash, h) \in Seq(Buffer) /\ Len(stash) \in Nat
      /\ Len(Append(stash, h)) = Len(stash) + 1
  BY <1>1, <1>2, AddLast
<1>6. pc = "wait" /\ pc' \in {"wait", "restore"} /\ (pc' = "restore" <=> h = buf)
  OBVIOUS
<1>7. Busy' <=> Busy
  BY DEF Busy
<1>8. TypeOK'
  BY <1>2, <1>5, <1>6 DEF TypeOK
<1>9. Control'
  BY <1>6 DEF Control, Busy
<1>10. Unique'
  <2>1. /\ Distinct(Append(stash, h))
        /\ \A b : Holds(Append(stash, h), b) <=> Holds(stash, b) \/ b = h
    BY <1>1, <1>2, <1>4, AddLastHolds DEF Unique
  <2>2. \A b : /\ Holds(stash, b)' <=> Holds(Append(stash, h), b)
               /\ Holds(toWorker, b)' <=> Holds(toWorker, b)
               /\ Holds(fromWorker, b)' <=> Holds(Tail(fromWorker), b)
               /\ WorkerHas(b)' <=> WorkerHas(b)
               /\ ~CallerHas(b)' /\ ~CallerHas(b)
    BY <1>6, <1>7 DEF Holds, WorkerHas, CallerHas
  <2>3. Distinct(stash)' /\ Distinct(toWorker)' /\ Distinct(fromWorker)'
    BY <1>3, <2>1 DEF Unique, Distinct
  <2> HIDE DEF h
  <2>4. \A b \in Buffer : UniqueAt(b)'
    BY <1>3, <1>4, <2>1, <2>2 DEF Unique, UniqueAt
  <2>5. \A b \in Buffer : Somewhere(b)' <=> Somewhere(b)
    BY <1>3, <2>1, <2>2 DEF Somewhere
  <2> QED
    BY <2>3, <2>4, <2>5 DEF Unique
<1>11. Counted'
  <2>1. Len(toWorker) \in Nat
    BY LenProperties DEF TypeOK
  <2> QED
    BY <1>2, <1>5, <1>6, <1>7, <2>1 DEF Counted, One
<1>12. h = buf => toWorker = <<>> /\ ~Busy
  <2> SUFFICES ASSUME h = buf PROVE toWorker = <<>> /\ ~Busy
    OBVIOUS
  <2>1. ASSUME toWorker # <<>>, toWorker[Len(toWorker)] = buf PROVE FALSE
    <3>1. Len(toWorker) \in Nat \ {0}
      BY <1>1, <2>1, EmptySeq, LenProperties
    <3>2. Len(toWorker) \in 1 .. Len(toWorker)
      BY <3>1
    <3>3. Holds(toWorker, buf)
      BY <2>1, <3>2 DEF Holds
    <3> QED
      BY <1>4, <3>3
  <2>2. toWorker = <<>> /\ (Busy => wbuf = buf)
    BY <2>1 DEF InOrder
  <2> QED
    BY <1>4, <2>2 DEF WorkerHas
<1>13. InOrder'
  BY <1>6, <1>7, <1>12 DEF InOrder
<1>14. Dumps'
  <2>1. CASE h = buf
    BY <1>6, <1>12, <2>1 DEF Dumps, One
  <2>2. CASE h # buf
    BY <1>6, <2>2 DEF Dumps, One
  <2> QED
    BY <2>1, <2>2
<1> QED
  BY <1>8, <1>9, <1>10, <1>11, <1>13, <1>14

LEMMA RestoreInv == Inv /\ Restore => Inv'
<1> SUFFICES ASSUME Inv, Restore PROVE Inv'
  OBVIOUS
<1> USE DEF Inv, Restore, workerVars, fileVars, userVars
<1> DEFINE h == stash[Len(stash)]
           r == SubSeq(stash, 1, Len(stash) - 1)
<1>1. fromWorker \in Seq(Buffer) /\ stash \in Seq(Buffer) /\ stash # <<>>
  BY DEF TypeOK
<1>2. h \in Buffer /\ r \in Seq(Buffer) /\ Len(stash) \in Nat \ {0} /\ Len(r) = Len(stash) - 1
  BY <1>1, TakeLast
<1>3. Distinct(r) /\ ~Holds(r, h) /\ \A b : Holds(stash, b) <=> b = h \/ Holds(r, b)
  BY <1>1, TakeLastHolds DEF Unique
<1>4. ~Holds(fromWorker, h) /\ ~Holds(toWorker, h) /\ ~WorkerHas(h)
  BY <1>2, <1>3 DEF Unique, UniqueAt
<1>5. <<h>> \o fromWorker \in Seq(Buffer) /\ Len(fromWorker) \in Nat
      /\ Len(<<h>> \o fromWorker) = Len(fromWorker) + 1
  BY <1>1, <1>2, AddFirst
<1>6. Busy' <=> Busy
  BY DEF Busy
<1>7. TypeOK'
  BY <1>2, <1>5 DEF TypeOK
<1>8. Control'
  BY DEF Control, Busy
<1>9. Unique'
  <2>1. /\ Distinct(<<h>> \o fromWorker)
        /\ \A b : Holds(<<h>> \o fromWorker, b) <=> Holds(fromWorker, b) \/ b = h
    BY <1>1, <1>2, <1>4, AddFirstHolds DEF Unique
  <2>2. \A b : /\ Holds(stash, b)' <=> Holds(r, b)
               /\ Holds(toWorker, b)' <=> Holds(toWorker, b)
               /\ Holds(fromWorker, b)' <=> Holds(<<h>> \o fromWorker, b)
               /\ WorkerHas(b)' <=> WorkerHas(b)
               /\ ~CallerHas(b)' /\ ~CallerHas(b)
    <3>1. stash' = r /\ fromWorker' = <<h>> \o fromWorker /\ pc # "fill" /\ pc' # "fill"
      OBVIOUS
    <3> HIDE DEF h, r
    <3>2. \A b : /\ Holds(stash, b)' <=> Holds(r, b)
                 /\ Holds(toWorker, b)' <=> Holds(toWorker, b)
                 /\ Holds(fromWorker, b)' <=> Holds(<<h>> \o fromWorker, b)
      BY <3>1, Zenon DEF Holds
    <3> QED
      BY <1>6, <3>1, <3>2 DEF WorkerHas, CallerHas
  <2>3. Distinct(stash)' /\ Distinct(toWorker)' /\ Distinct(fromWorker)'
    BY <1>3, <2>1 DEF Unique, Distinct
  <2> HIDE DEF h, r
  <2>4. \A b \in Buffer : UniqueAt(b)'
    BY <1>3, <1>4, <2>1, <2>2 DEF Unique, UniqueAt
  <2>5. \A b \in Buffer : Somewhere(b)' <=> Somewhere(b)
    BY <1>3, <2>1, <2>2 DEF Somewhere
  <2> QED
    BY <2>3, <2>4, <2>5 DEF Unique
<1>10. Counted'
  <2>1. Len(toWorker) \in Nat
    BY LenProperties DEF TypeOK
  <2>2. Len(stash') = Len(stash) - 1 /\ Len(fromWorker') = Len(fromWorker) + 1 /\ toWorker' = toWorker
        /\ num' = num /\ pc' = pc
    BY <1>2, <1>5
  <2> HIDE DEF Restore
  <2> QED
    BY <1>2, <1>5, <1>6, <2>1, <2>2 DEF Counted, One
<1>11. InOrder'
  BY <1>6 DEF InOrder
<1>12. Dumps'
  BY DEF Dumps, One
<1> QED
  BY <1>7, <1>8, <1>9, <1>10, <1>11, <1>12

LEMMA RestoredInv == Inv /\ Restored => Inv'
<1> SUFFICES ASSUME Inv, Restored PROVE Inv'
  OBVIOUS
<1> USE DEF Inv, Restored, queueVars, workerVars, fileVars, userVars
<1>1. pc = "restore" /\ pc' \in {"join", "direct"} /\ call # "dump" /\ call # "none"
  BY DEF Control
<1>2. TypeOK'
  BY <1>1 DEF TypeOK
<1>3. Busy' <=> Busy
  BY DEF Busy
<1>4. Unique'
  BY <1>1, <1>3, UniqueKept
<1>5. Control'
  BY <1>1 DEF Control, Busy, TypeOK
<1>6. Counted'
  BY <1>1, <1>3 DEF Counted, One
<1>7. InOrder'
  BY <1>1, <1>3 DEF InOrder
<1>8. Dumps'
  BY <1>1 DEF Dumps, One
<1> QED
  BY <1>2, <1>4, <1>5, <1>6, <1>7, <1>8

LEMMA FlushFileInv == Inv /\ FlushFile => Inv'
<1> SUFFICES ASSUME Inv, FlushFile PROVE Inv'
  OBVIOUS
<1> USE DEF Inv, FlushFile, queueVars, workerVars, userVars
<1>1. pc = "direct" /\ call = "flush"
  OBVIOUS
<1>2. TypeOK'
  <2>1. fileTime' \in Time /\ timeui' \in Time
    BY TraceAssumption DEF TypeOK, EmitTimeChangeMaybe, Time, TraceAssumption
  <2> QED
    BY <2>1 DEF TypeOK
<1>3. Busy' <=> Busy
  BY DEF Busy
<1>4. Unique'
  BY <1>1, <1>3, UniqueKept
<1>5. Control'
  BY <1>1 DEF Control, Busy, InOrder
<1>6. Counted'
  BY <1>1, <1>3 DEF Counted, One
<1>7. InOrder'
  BY <1>1, <1>3 DEF InOrder
<1>8. Dumps'
  BY <1>1 DEF Dumps, One
<1> QED
  BY <1>2, <1>4, <1>5, <1>6, <1>7, <1>8

LEMMA FullDumpInv == Inv /\ FullDump => Inv'
<1> SUFFICES ASSUME Inv, FullDump PROVE Inv'
  OBVIOUS
<1> USE DEF Inv, FullDump, queueVars, workerVars
<1>1. pc = "direct" /\ call = "full"
  OBVIOUS
<1>2. TypeOK'
  <2>1. arg.t \in Time /\ arg.v \in Value /\ 0 \in Time
    BY TraceAssumption DEF TypeOK, Dump, Time, TraceAssumption
  <2>2. [t |-> arg.t, v |-> arg.v] \in Dump
    BY <2>1 DEF Dump
  <2>3. file' \in Seq(Dump)
    BY <2>2, AddLast DEF TypeOK
  <2>4. written' \in Nat
    BY DEF TypeOK
  <2> QED
    BY <2>1, <2>3, <2>4 DEF TypeOK
<1>3. Busy' <=> Busy
  BY DEF Busy
<1>4. Unique'
  BY <1>1, <1>3, UniqueKept
<1>5. Control'
  BY <1>1 DEF Control, Busy, InOrder
<1>6. Counted'
  BY <1>1, <1>3 DEF Counted, One
<1>7. InOrder'
  BY <1>1, <1>3 DEF InOrder
<1>8. Dumps'
  <2>1. written \in Nat /\ toWorker = <<>> /\ ~Busy
    BY <1>1 DEF TypeOK, InOrder
  <2>2. Len(requested) = written + 1
    BY <1>1, <2>1 DEF Dumps, One, Busy
  <2> QED
    BY <1>1, <2>1, <2>2 DEF Dumps, One, Busy
<1> QED
  BY <1>2, <1>4, <1>5, <1>6, <1>7, <1>8

LEMMA JoinInv == Inv /\ Join => Inv'
<1> SUFFICES ASSUME Inv, Join PROVE Inv'
  OBVIOUS
<1> USE DEF Inv, Join, queueVars, fileVars, userVars
<1>1. pc = "join" /\ call = "close" /\ stash = <<>>
  BY DEF Control
<1>2. TypeOK'
  BY DEF TypeOK
<1>3. Busy' <=> Busy
  BY DEF Busy
<1>4. Unique'
  BY <1>1, <1>3, UniqueKept
<1>5. Control'
  BY <1>1 DEF Control, Busy
<1>6. Counted'
  BY <1>1, <1>3 DEF Counted, One
<1>7. InOrder'
  BY <1>1, <1>3 DEF InOrder
<1>8. Dumps'
  BY <1>1 DEF Dumps, One
<1> QED
  BY <1>2, <1>4, <1>5, <1>6, <1>7, <1>8

LEMMA DrainInv == Inv /\ Drain => Inv'
<1> SUFFICES ASSUME Inv, Drain PROVE Inv'
  OBVIOUS
<1> USE DEF Inv, Drain, callVars, workerVars, fileVars, userVars
<1>1. fromWorker \in Seq(Buffer) /\ fromWorker # <<>> /\ pc = "drain"
  BY DEF TypeOK
<1>2. Tail(fromWorker) \in Seq(Buffer)
      /\ Len(fromWorker) \in Nat \ {0} /\ Len(Tail(fromWorker)) = Len(fromWorker) - 1
  BY <1>1, TakeHead
<1>3. num - 1 \in 0 .. MaxBuffers /\ num \in Nat
  BY TraceAssumption DEF TypeOK, TraceAssumption
<1>4. TypeOK'
  BY <1>2, <1>3 DEF TypeOK
<1>5. Busy' <=> Busy
  BY DEF Busy
<1>6. Control'
  BY DEF Control, Busy
<1>7. Unique'
  <2>1. /\ Distinct(Tail(fromWorker))
        /\ \A b : Holds(fromWorker, b) <=> b = Head(fromWorker) \/ Holds(Tail(fromWorker), b)
    BY <1>1, TakeHeadHolds DEF Unique
  <2>2. \A b : /\ Holds(stash, b)' <=> Holds(stash, b)
               /\ Holds(toWorker, b)' <=> Holds(toWorker, b)
               /\ Holds(fromWorker, b)' <=> Holds(Tail(fromWorker), b)
               /\ WorkerHas(b)' <=> WorkerHas(b)
               /\ CallerHas(b)' <=> CallerHas(b)
    BY <1>5 DEF Holds, WorkerHas, CallerHas
  <2>3. Distinct(stash)' /\ Distinct(toWorker)' /\ Distinct(fromWorker)'
    BY <2>1 DEF Unique, Distinct
  <2>4. \A b \in Buffer : UniqueAt(b)'
    BY <2>1, <2>2 DEF Unique, UniqueAt
  <2> QED
    BY <1>1, <2>3, <2>4 DEF Unique
<1>8. Counted'
  <2>1. Len(stash) \in Nat /\ Len(toWorker) \in Nat
    BY LenProperties DEF TypeOK
  <2> QED
    BY <1>2, <1>3, <1>5, <2>1 DEF Counted, One
<1>9. InOrder' /\ Dumps'
  BY <1>1, <1>5 DEF InOrder, Dumps, One
<1> QED
  BY <1>4, <1>6, <1>7, <1>8, <1>9

LEMMA CloseFileInv == Inv /\ CloseFile => Inv'
<1> SUFFICES ASSUME Inv, CloseFile PROVE Inv'
  OBVIOUS
<1> USE DEF Inv, CloseFile, queueVars, workerVars
<1>1. pc = "drain" /\ call = "close" /\ worker = "none" /\ stash = <<>> /\ toWorker = <<>> /\ ~Busy
  BY DEF Control, InOrder
<1>2. TypeOK'
  <2>1. fileTime' \in Time /\ timeui' \in Time
    BY TraceAssumption DEF TypeOK, EmitTimeChangeMaybe, Time, TraceAssumption
  <2> QED
    BY <2>1 DEF TypeOK
<1>3. Busy' <=> Busy
  BY DEF Busy
<1>4. fromWorker = <<>>
  <2>1. Len(fromWorker) \in Nat
    BY LenProperties DEF TypeOK
  <2>2. Len(fromWorker) = 0
    BY <1>1, <2>1 DEF Counted, One
  <2> QED
    BY <2>2, EmptySeq DEF TypeOK
<1>5. Unique'
  <2>1. Distinct(<<>>) /\ \A b : ~Holds(<<>>, b)
    BY DEF Holds, Distinct
  <2>2. stash' = <<>> /\ toWorker' = <<>> /\ fromWorker' = <<>>
    BY <1>1, <1>4
  <2>3. \A b : ~Holds(stash, b)' /\ ~Holds(toWorker, b)' /\ ~Holds(fromWorker, b)'
               /\ ~CallerHas(b)' /\ ~WorkerHas(b)'
    BY <1>1, <1>3, <2>2 DEF Holds, CallerHas, WorkerHas
  <2>4. Distinct(stash)' /\ Distinct(toWorker)' /\ Distinct(fromWorker)'
    BY <2>2 DEF Distinct
  <2>5. \A b \in Buffer : ~(b <= num')
    BY TraceAssumption DEF Buffer, TraceAssumption
  <2> QED
    BY <2>3, <2>4, <2>5 DEF Unique, UniqueAt, Somewhere
<1>6. Control'
  BY <1>1 DEF Control, Busy
<1>7. Counted'
  BY <1>1, <1>3 DEF Counted, One
<1>8. InOrder'
  BY <1>1, <1>3 DEF InOrder
<1>9. Dumps'
  BY <1>1 DEF Dumps, One
<1> QED
  BY <1>2, <1>5, <1>6, <1>7, <1>8, <1>9

LEMMA WorkerGetInv == Inv /\ WorkerGet => Inv'
<1> SUFFICES ASSUME Inv, WorkerGet PROVE Inv'
  OBVIOUS
<1> USE DEF Inv, WorkerGet, callVars, fileVars, userVars
<1> DEFINE h == Head(toWorker)
<1>1. toWorker \in Seq(Buffer) /\ toWorker # <<>> /\ worker = "idle" /\ ~Busy
  BY DEF TypeOK, Busy
<1>2. h \in Buffer /\ Tail(toWorker) \in Seq(Buffer)
      /\ Len(toWorker) \in Nat \ {0} /\ Len(Tail(toWorker)) = Len(toWorker) - 1
      /\ h = toWorker[1]
      /\ \A i \in 1 .. Len(toWorker) - 1 : Tail(toWorker)[i] = toWorker[i + 1]
  BY <1>1, TakeHead
<1>3. worker' \in {"end", "time"} /\ (worker' = "end" <=> mem[h].dump = <<>>) /\ wbuf' = h
  OBVIOUS
<1>4. Busy'
  BY <1>3 DEF Busy
<1>5. TypeOK'
  BY <1>2, <1>3 DEF TypeOK
<1>6. Control'
  BY <1>2, <1>3 DEF Control, Busy
<1>7. Unique'
  <2>1. /\ Distinct(Tail(toWorker))
        /\ ~Holds(Tail(toWorker), h)
        /\ \A b : Holds(toWorker, b) <=> b = h \/ Holds(Tail(toWorker), b)
    BY <1>1, TakeHeadHolds DEF Unique
  <2>2. \A b : /\ Holds(stash, b)' <=> Holds(stash, b)
               /\ Holds(toWorker, b)' <=> Holds(Tail(toWorker), b)
               /\ Holds(fromWorker, b)' <=> Holds(fromWorker, b)
               /\ WorkerHas(b)' <=> b = h
               /\ ~WorkerHas(b)
               /\ CallerHas(b)' <=> CallerHas(b)
    BY <1>1, <1>4 DEF Holds, WorkerHas, CallerHas
  <2>3. Distinct(stash)' /\ Distinct(toWorker)' /\ Distinct(fromWorker)'
    BY <2>1 DEF Unique, Distinct
  <2> HIDE DEF h
  <2>4. \A b \in Buffer : UniqueAt(b)'
    BY <1>2, <2>1, <2>2 DEF Unique, UniqueAt
  <2>5. \A b \in Buffer : Somewhere(b)' <=> Somewhere(b)
    BY <2>1, <2>2 DEF Somewhere
  <2> QED
    BY <2>3, <2>4, <2>5 DEF Unique
<1>8. Counted'
  <2>1. Len(stash) \in Nat /\ Len(fromWorker) \in Nat
    BY LenProperties DEF TypeOK
  <2> QED
    BY <1>1, <1>2, <1>4, <2>1 DEF Counted, One
<1>9. Len(toWorker') = Len(toWorker) - 1 /\ toWorker' \in Seq(Buffer)
      /\ (toWorker' = <<>> <=> Len(toWorker) = 1)
      /\ \A i \in 1 .. Len(toWorker) - 1 : toWorker'[i] = toWorker[i + 1]
  <2>1. toWorker' = <<>> <=> Len(toWorker') = 0
    BY <1>2, EmptySeq
  <2> QED
    BY <1>2, <2>1
<1>10. pc \notin {"restore", "direct", "join", "drain"}
  BY <1>1 DEF InOrder
<1>11. InOrder'
  <2> SUFFICES ASSUME pc = "wait"
               PROVE  \/ toWorker' # <<>> /\ toWorker'[Len(toWorker')] = buf
                      \/ toWorker' = <<>> /\ wbuf' = buf
    BY <1>10 DEF InOrder
  <2>1. toWorker[Len(toWorker)] = buf
    BY <1>1 DEF InOrder
  <2>2. CASE Len(toWorker) = 1
    BY <1>2, <1>3, <1>9, <2>1, <2>2
  <2>3. CASE Len(toWorker) # 1
    <3>1. Len(toWorker) - 1 \in 1 .. Len(toWorker) - 1 /\ (Len(toWorker) - 1) + 1 = Len(toWorker)
      BY <1>2, <2>3
    <3> QED
      BY <1>9, <2>1, <2>3, <3>1
  <2> QED
    BY <2>2, <2>3
<1>12. Dumps'
  <2>1. pc' = "wait" => mem'[buf'].dump = <<>>
    BY DEF Dumps
  <2>2. ASSUME NEW i \in 1 .. Len(toWorker')
        PROVE  (pc' = "wait" /\ i = Len(toWorker')) \/ mem'[toWorker'[i]].dump # <<>>
    <3> HIDE DEF WorkerGet, Inv, h
    <3>0. i \in 1 .. Len(toWorker) - 1 /\ Len(toWorker) \in Nat
      BY <1>2, <1>9
    <3>1. i + 1 \in 1 .. Len(toWorker) /\ toWorker'[i] = toWorker[i + 1]
          /\ (i + 1 = Len(toWorker) => i = Len(toWorker'))
      BY <1>9, <3>0
    <3> USE DEF WorkerGet, Inv
    <3>2. (pc = "wait" /\ i + 1 = Len(toWorker)) \/ mem[toWorker[i + 1]].dump # <<>>
      BY <3>1 DEF Dumps
    <3> QED
      BY <3>1, <3>2
  <2>3. /\ written \in Nat
        /\ Len(requested) = written + Len(toWorker) - One(pc = "wait")
                              + One(call \in {"dump", "full"})
    <3>1. /\ written \in Nat
          /\ Len(requested) = written + Len(toWorker) - One(pc = "wait" /\ toWorker # <<>>)
                              + One(worker \in {"time", "chg"}) + One(call \in {"dump", "full"})
      BY DEF Dumps, TypeOK
    <3>2. One(pc = "wait" /\ toWorker # <<>>) = One(pc = "wait")
          /\ One(worker \in {"time", "chg"}) = 0
          /\ One(pc = "wait") \in Nat /\ One(call \in {"dump", "full"}) \in Nat
      BY <1>1 DEF One
    <3>3. Len(toWorker) \in Nat
      BY <1>2
    <3> HIDE DEF WorkerGet, Inv, h
    <3> QED
      BY <3>1, <3>2, <3>3
  <2>4. Len(requested)' = written' + Len(toWorker)' - One(pc = "wait" /\ toWorker # <<>>)'
                          + One(worker \in {"time", "chg"})' + One(call \in {"dump", "full"})'
    <3>1. 1 \in 1 .. Len(toWorker)
      BY <1>2
    <3>2. CASE mem[h].dump = <<>>
      <4>1. pc = "wait" /\ Len(toWorker) = 1
        BY <1>2, <3>1, <3>2 DEF Dumps
      <4> QED
        BY <1>3, <1>9, <2>3, <3>2, <4>1 DEF One
    <3>3. CASE mem[h].dump # <<>>
      <4>1. ~(pc = "wait" /\ Len(toWorker) = 1)
        <5> SUFFICES ASSUME pc = "wait", Len(toWorker) = 1 PROVE FALSE
          OBVIOUS
        <5>1. h = buf
          BY <1>1, <1>2 DEF InOrder
        <5> QED
          BY <3>3, <5>1 DEF Dumps
      <4>2. (pc' = "wait" /\ toWorker' # <<>>) <=> pc = "wait"
        BY <1>9, <4>1
      <4>3. One(pc = "wait" /\ toWorker # <<>>)' = One(pc = "wait")
        BY <4>2 DEF One
      <4>4. One(worker \in {"time", "chg"})' = 1
        BY <1>3, <3>3 DEF One
      <4>5. Len(requested') = Len(requested) /\ written' = written /\ call' = call
        OBVIOUS
      <4>6. One(pc = "wait") \in Nat /\ One(call \in {"dump", "full"}) \in Nat
            /\ One(call \in {"dump", "full"})' = One(call \in {"dump", "full"})
        BY DEF One
      <4>7. Len(toWorker)' = Len(toWorker) - 1 /\ Len(toWorker) \in Nat
        BY <1>2, <1>9
      <4> HIDE DEF WorkerGet, Inv, h
      <4> QED
        BY <2>3, <4>3, <4>4, <4>5, <4>6, <4>7
    <3> QED
      BY <3>2, <3>3
  <2> QED
    BY <2>1, <2>2, <2>4 DEF Dumps
<1> QED
  BY <1>5, <1>6, <1>7, <1>8, <1>11, <1>12

LEMMA WorkerTimeInv == Inv /\ WorkerTime => Inv'
<1> SUFFICES ASSUME Inv, WorkerTime PROVE Inv'
  OBVIOUS
<1> USE DEF Inv, WorkerTime, callVars, queueVars, userVars
<1>1. worker = "time" /\ worker' = "chg" /\ Busy /\ Busy'
  BY DEF Busy
<1>2. TypeOK'
  <2>1. wbuf \in Buffer /\ mem[wbuf].dump # <<>>
    BY <1>1 DEF Control
  <2>2. PICK d \in Dump : mem[wbuf].dump = <<d>>
    BY <2>1 DEF TypeOK
  <2>3. mem[wbuf].dump[1].t \in Time /\ 0 \in Time
    BY <2>2, TraceAssumption DEF Dump, Time, TraceAssumption
  <2>4. fileTime' \in Time /\ timeui' \in Time
    BY <2>3 DEF EmitTimeChange, TypeOK
  <2> QED
    BY <2>4 DEF TypeOK
<1>3. Unique'
  BY <1>1, UniqueKept
<1>4. Control'
  BY <1>1 DEF Control, Busy
<1>5. Counted'
  BY <1>1 DEF Counted, One
<1>6. InOrder'
  BY <1>1 DEF InOrder
<1>7. Dumps'
  BY <1>1 DEF Dumps, One
<1> QED
  BY <1>2, <1>3, <1>4, <1>5, <1>6, <1>7

LEMMA WorkerChangeInv == Inv /\ WorkerChange => Inv'
<1> SUFFICES ASSUME Inv, WorkerChange PROVE Inv'
  OBVIOUS
<1> USE DEF Inv, WorkerChange, callVars, queueVars, userVars
<1>1. worker = "chg" /\ worker' = "end" /\ Busy /\ Busy'
  BY DEF Busy
<1>2. TypeOK'
  <2>1. wbuf \in Buffer /\ mem[wbuf].dump # <<>>
    BY <1>1 DEF Control
  <2>2. PICK d \in Dump : mem[wbuf].dump = <<d>>
    BY <2>1 DEF TypeOK
  <2>3. mem[wbuf].dump[1].v \in Value /\ 0 \in Time
    BY <2>2, TraceAssumption DEF Dump, Time, TraceAssumption
  <2>4. written' \in Nat
    BY DEF TypeOK
  <2>5. CASE mem[wbuf].dump[1].v # oldval
    <3> DEFINE v == mem[wbuf].dump[1].v
    <3>1. EmitValue(v)
      BY <2>5
    <3>2. fileTime' \in Time /\ timeui' \in Time /\ oldval' \in Value
      BY <2>3, <3>1 DEF EmitValue, EmitTimeChangeMaybe, TypeOK
    <3>3. [t |-> fileTime', v |-> v] \in Dump
      BY <2>3, <3>2 DEF Dump
    <3>4. file' = Append(file, [t |-> fileTime', v |-> v]) /\ file \in Seq(Dump)
      BY <3>1 DEF EmitValue, TypeOK
    <3>5. file' \in Seq(Dump)
      BY <3>3, <3>4, AddLast
    <3> QED
      BY <1>1, <2>4, <3>2, <3>5 DEF TypeOK
  <2>6. CASE mem[wbuf].dump[1].v = oldval
    BY <1>1, <2>4, <2>6 DEF TypeOK
  <2> QED
    BY <2>5, <2>6
<1>3. Unique'
  BY <1>1, UniqueKept
<1>4. Control'
  BY <1>1 DEF Control, Busy
<1>5. Counted'
  BY <1>1 DEF Counted, One
<1>6. InOrder'
  BY <1>1 DEF InOrder
<1>7. Dumps'
  <2>1. written \in Nat /\ Len(toWorker) \in Nat
    BY LenProperties DEF TypeOK
  <2> QED
    BY <1>1, <2>1 DEF Dumps, One
<1> QED
  BY <1>2, <1>3, <1>4, <1>5, <1>6, <1>7

LEMMA WorkerEndInv == Inv /\ WorkerEnd => Inv'
<1> SUFFICES ASSUME Inv, WorkerEnd PROVE Inv'
  OBVIOUS
<1> USE DEF Inv, WorkerEnd, callVars, fileVars, userVars
<1>1. worker = "end" /\ Busy /\ wbuf \in Buffer /\ WorkerHas(wbuf) /\ fromWorker \in Seq(Buffer)
  BY DEF Busy, Control, WorkerHas, TypeOK
<1>2. ~Holds(fromWorker, wbuf) /\ ~Holds(stash, wbuf) /\ ~Holds(toWorker, wbuf) /\ ~CallerHas(wbuf)
  BY <1>1 DEF Unique, UniqueAt
<1>3. Append(fromWorker, wbuf) \in Seq(Buffer) /\ Len(fromWorker) \in Nat
      /\ Len(Append(fromWorker, wbuf)) = Len(fromWorker) + 1
  BY <1>1, AddLast
<1>4. worker' \in {"stopped", "idle"} /\ ~Busy'
  BY DEF Busy
<1>5. TypeOK'
  BY <1>3, <1>4 DEF TypeOK
<1>6. Control'
  BY <1>1, <1>4 DEF Control, Busy
<1>7. Unique'
  <2>1. /\ Distinct(Append(fromWorker, wbuf))
        /\ \A b : Holds(Append(fromWorker, wbuf), b) <=> Holds(fromWorker, b) \/ b = wbuf
    BY <1>1, <1>2, AddLastHolds DEF Unique
  <2>2. \A b : /\ Holds(stash, b)' <=> Holds(stash, b)
               /\ Holds(toWorker, b)' <=> Holds(toWorker, b)
               /\ Holds(fromWorker, b)' <=> Holds(Append(fromWorker, wbuf), b)
               /\ ~WorkerHas(b)'
               /\ WorkerHas(b) <=> b = wbuf
               /\ CallerHas(b)' <=> CallerHas(b)
    BY <1>1, <1>4 DEF Holds, WorkerHas, CallerHas
  <2>3. Distinct(stash)' /\ Distinct(toWorker)' /\ Distinct(fromWorker)'
    BY <2>1 DEF Unique, Distinct
  <2>4. \A b \in Buffer : UniqueAt(b)'
    BY <1>2, <2>1, <2>2 DEF Unique, UniqueAt
  <2>5. \A b \in Buffer : Somewhere(b)' <=> Somewhere(b)
    BY <2>1, <2>2 DEF Somewhere
  <2> QED
    BY <2>3, <2>4, <2>5 DEF Unique
<1>8. Counted'
  <2>1. Len(stash) \in Nat /\ Len(toWorker) \in Nat
    BY LenProperties DEF TypeOK
  <2> QED
    BY <1>1, <1>3, <1>4, <2>1 DEF Counted, One
<1>9. InOrder'
  BY <1>1, <1>4 DEF InOrder
<1>10. Dumps'
  BY <1>1, <1>4 DEF Dumps, One
<1> QED
  BY <1>5, <1>6, <1>7, <1>8, <1>9, <1>10

LEMMA NextInv == Inv /\ [Next]_vars => Inv'
<1> SUFFICES ASSUME Inv, [Next]_vars PROVE Inv'
  OBVIOUS
<1>1. CASE UserCall
  BY <1>1, OpenInv, DumpCallInv, FlushInv, CloseInv DEF UserCall
<1>2. CASE CallStep
  BY <1>2, GetReturnedInv, GetNewInv, PutBufferInv, WaitInv, RestoreInv, RestoredInv,
     FlushFileInv, FullDumpInv, JoinInv, DrainInv, CloseFileInv DEF CallStep
<1>3. CASE WorkerStep
  BY <1>3, WorkerGetInv, WorkerTimeInv, WorkerChangeInv, WorkerEndInv DEF WorkerStep
<1>4. CASE UNCHANGED vars
  BY <1>4, StutterInv
<1> QED
  BY <1>1, <1>2, <1>3, <1>4 DEF Next

\* The inductive invariant holds throughout.
THEOREM Invariance == Spec => []Inv
<1>1. Init => Inv
  BY InitInv
<1>2. Inv /\ [Next]_vars => Inv'
  BY NextInv
<1> QED
  BY <1>1, <1>2, PTL DEF Spec

\* Every variable of the trace file and its worker thread keeps its type; the
\* buffer count never exceeds the limit of getOffloadBuffer().
THEOREM TypeCorrect == Spec => []TypeOK
<1>1. Inv => TypeOK
  BY DEF Inv
<1> QED
  BY <1>1, Invariance, PTL

\* The caller of flush(), of a full dump or of close() writes the file only when the
\* worker thread has nothing left to write, for any number of buffers.
THEOREM CallerAlone == Spec => []CallerWritesAlone
<1>1. Inv => CallerWritesAlone
  BY DEF Inv, InOrder, CallerWritesAlone
<1> QED
  BY <1>1, Invariance, PTL

--------------------------------------------------------------------------------
(* The buffers circulate. *)

LEMMA AtOne ==
  ASSUME NEW q, NEW b, Distinct(q)
  PROVE  /\ ~Holds(q, b) => At(q, b) = {}
         /\ Holds(q, b) => \E i : At(q, b) = {i}
<1>1. ~Holds(q, b) => At(q, b) = {}
  BY DEF Holds, At
<1>2. ASSUME Holds(q, b) PROVE \E i : At(q, b) = {i}
  <2>1. PICK i \in 1 .. Len(q) : q[i] = b
    BY <1>2 DEF Holds
  <2>2. \A j \in 1 .. Len(q) : q[j] = b => j = i
    BY <2>1 DEF Distinct
  <2>3. At(q, b) = {i}
    BY <2>1, <2>2 DEF At
  <2> QED
    BY <2>3
<1> QED
  BY <1>1, <1>2

LEMMA OnePlace ==
  ASSUME Unique, NEW b \in Buffer
  PROVE  /\ Somewhere(b) => \E x : Places(b) = {x}
         /\ ~Somewhere(b) => Places(b) = {}
<1> DEFINE C == {i \in {b} : pc = "fill" /\ buf = b}
           W == {i \in {b} : Busy /\ wbuf = b}
           S == At(stash, b)
           T == At(toWorker, b)
           F == At(fromWorker, b)
<1>1. /\ ~Holds(stash, b) => S = {}
      /\ Holds(stash, b) => \E i : S = {i}
      /\ ~Holds(toWorker, b) => T = {}
      /\ Holds(toWorker, b) => \E i : T = {i}
      /\ ~Holds(fromWorker, b) => F = {}
      /\ Holds(fromWorker, b) => \E i : F = {i}
  BY AtOne DEF Unique
<1>2. /\ ~CallerHas(b) => C = {}
      /\ CallerHas(b) => C = {b}
      /\ ~WorkerHas(b) => W = {}
      /\ WorkerHas(b) => W = {b}
  BY DEF CallerHas, WorkerHas
<1>3. Places(b) = {"caller"} \X C \cup {"worker"} \X W \cup {"stash"} \X S
                    \cup {"to"} \X T \cup {"from"} \X F
  BY DEF Places
<1>4. UniqueAt(b)
  BY DEF Unique
<1> HIDE DEF C, W, S, T, F
<1>5. CASE CallerHas(b)
  <2>1. W = {} /\ S = {} /\ T = {} /\ F = {} /\ C = {b}
    BY <1>1, <1>2, <1>4, <1>5 DEF UniqueAt
  <2>2. Places(b) = {<<"caller", b>>}
    BY <1>3, <2>1
  <2> QED
    BY <1>5, <2>2 DEF Somewhere
<1>6. CASE WorkerHas(b)
  <2>1. C = {} /\ S = {} /\ T = {} /\ F = {} /\ W = {b}
    BY <1>1, <1>2, <1>4, <1>6 DEF UniqueAt
  <2>2. Places(b) = {<<"worker", b>>}
    BY <1>3, <2>1
  <2> QED
    BY <1>6, <2>2 DEF Somewhere
<1>7. CASE Holds(stash, b)
  <2>1. C = {} /\ W = {} /\ T = {} /\ F = {} /\ \E i : S = {i}
    BY <1>1, <1>2, <1>4, <1>7 DEF UniqueAt
  <2>2. PICK i : S = {i}
    BY <2>1
  <2>3. Places(b) = {<<"stash", i>>}
    BY <1>3, <2>1, <2>2
  <2> QED
    BY <1>7, <2>3 DEF Somewhere
<1>8. CASE Holds(toWorker, b)
  <2>1. C = {} /\ W = {} /\ S = {} /\ F = {} /\ \E i : T = {i}
    BY <1>1, <1>2, <1>4, <1>8 DEF UniqueAt
  <2>2. PICK i : T = {i}
    BY <2>1
  <2>3. Places(b) = {<<"to", i>>}
    BY <1>3, <2>1, <2>2
  <2> QED
    BY <1>8, <2>3 DEF Somewhere
<1>9. CASE Holds(fromWorker, b)
  <2>1. C = {} /\ W = {} /\ S = {} /\ T = {} /\ \E i : F = {i}
    BY <1>1, <1>2, <1>4, <1>9 DEF UniqueAt
  <2>2. PICK i : F = {i}
    BY <2>1
  <2>3. Places(b) = {<<"from", i>>}
    BY <1>3, <2>1, <2>2
  <2> QED
    BY <1>9, <2>3 DEF Somewhere
<1>10. CASE ~Somewhere(b)
  <2>1. C = {} /\ W = {} /\ S = {} /\ T = {} /\ F = {}
    BY <1>1, <1>2, <1>10 DEF Somewhere
  <2> QED
    BY <1>3, <1>10, <2>1
<1> QED
  BY <1>5, <1>6, <1>7, <1>8, <1>9, <1>10 DEF Somewhere

\* No buffer is lost or held twice, however many there are: getOffloadBuffer() and
\* closeBase() get every one of them back.
THEOREM Conserved == Spec => []BuffersConserved
<1>1. Inv => BuffersConserved
  <2> SUFFICES ASSUME Inv PROVE BuffersConserved
    OBVIOUS
  <2>1. ASSUME pc # "drain", NEW b \in Buffer
        PROVE  Cardinality(Places(b)) = IF b <= num THEN 1 ELSE 0
    <3>1. Somewhere(b) <=> b <= num
      BY <2>1 DEF Inv, Unique
    <3>2. CASE Somewhere(b)
      <4>1. PICK x : Places(b) = {x}
        BY <3>2, OnePlace DEF Inv
      <4> QED
        BY <3>1, <3>2, <4>1, FS_Singleton
    <3>3. CASE ~Somewhere(b)
      <4>1. Places(b) = {}
        BY <3>3, OnePlace DEF Inv
      <4> QED
        BY <3>1, <3>3, <4>1, FS_EmptySet
    <3> QED
      BY <3>2, <3>3
  <2>2. ASSUME pc = "drain" PROVE Len(fromWorker) = num
    <3>1. stash = <<>> /\ toWorker = <<>> /\ ~Busy
      BY <2>2 DEF Inv, Control, InOrder
    <3>2. Len(fromWorker) \in Nat
      BY LenProperties DEF Inv, TypeOK
    <3> QED
      BY <2>2, <3>1, <3>2 DEF Inv, Counted, One
  <2> QED
    BY <2>1, <2>2 DEF BuffersConserved
<1> QED
  BY <1>1, Invariance, PTL

--------------------------------------------------------------------------------
(* The two threads implement the trace file. *)

\* How many dumps are in the file when a call finishes.
LEMMA AllWritten ==
  ASSUME Inv, pc \in {"direct", "drain"}
  PROVE  Len(requested) = written + One(call \in {"dump", "full"})
<1>1. toWorker = <<>> /\ ~(worker \in {"time", "chg"}) /\ written \in Nat
  BY DEF Inv, InOrder, Busy, TypeOK
<1> QED
  BY <1>1 DEF Inv, Dumps, One

\* Offloaded tracing is a trace file, for any number of buffers: dumps reach the file
\* in order, and no flush(), full dump or close() returns before the worker thread has
\* written what was dumped earlier.
THEOREM Refinement == Spec => ImplementsFile
<1> USE DEF callVars, queueVars, workerVars, fileVars, userVars
<1>1. Init => File!Init
  BY DEF Init, File!Init
<1>2. Inv /\ [Next]_vars => [File!Next]_(File!vars)
  <2> SUFFICES ASSUME Inv, [Next]_vars PROVE File!Next \/ UNCHANGED File!vars
    BY DEF File!vars
  <2>1. CASE Open
    <3>1. call = "none" /\ ~open /\ open' = TRUE /\ Len(requested') = 0 /\ written' = 0 /\ call' = call
      BY <2>1 DEF Open, Inv, Control
    <3> QED
      BY <3>1 DEF File!Next, File!Open
  <2>2. ASSUME NEW d \in Dump, DumpCall(d) PROVE File!Next \/ UNCHANGED File!vars
    <3>1. CASE open
      <4>1. Len(requested') = Len(requested) + 1
        BY <2>2, <3>1, AddLast DEF DumpCall, Inv, TypeOK
      <4>2. call = "none" /\ call' \in {"dump", "full"} /\ open' = open /\ written' = written
        BY <2>2, <3>1 DEF DumpCall, Inv, Control
      <4>3. File!Begin(call')
        BY <3>1, <4>1, <4>2 DEF File!Begin
      <4> QED
        BY <4>2, <4>3 DEF File!Next, File!Call
    <3>2. CASE ~open
      BY <2>2, <3>2 DEF DumpCall, File!vars
    <3> QED
      BY <3>1, <3>2
  <2>3. CASE Flush
    <3>1. call = "none" /\ call' = "flush" /\ UNCHANGED <<open, written, requested>>
      BY <2>3 DEF Flush, Inv, Control
    <3>2. File!Begin("flush")
      BY <3>1 DEF File!Begin
    <3> QED
      BY <3>2 DEF File!Next, File!Call
  <2>4. CASE Close
    <3>1. call = "none" /\ call' = "close" /\ UNCHANGED <<open, written, requested>>
      BY <2>4 DEF Close, Inv, Control
    <3>2. File!Begin("close")
      BY <3>1 DEF File!Begin
    <3> QED
      BY <3>2 DEF File!Next, File!Call
  <2>5. CASE PutBuffer
    <3>1. UNCHANGED <<open, written, requested>>
      BY <2>5 DEF PutBuffer
    <3>2. CASE call = "dump"
      <4>1. call' = "none" /\ open' = (open /\ call # "close")
        BY <2>5, <3>1, <3>2 DEF PutBuffer, Inv, TypeOK
      <4> QED
        BY <3>1, <3>2, <4>1 DEF File!Next, File!Return
    <3>3. CASE call # "dump"
      BY <2>5, <3>1, <3>3 DEF PutBuffer, File!vars
    <3> QED
      BY <3>2, <3>3
  <2>6. CASE FlushFile
    <3>1. call = "flush" /\ call' = "none" /\ UNCHANGED <<open, written, requested>>
      BY <2>6 DEF FlushFile
    <3>2. written = Len(requested)
      BY <2>6, <3>1, AllWritten DEF FlushFile, One, Inv, TypeOK
    <3>3. open' = (open /\ call # "close")
      BY <3>1 DEF Inv, TypeOK
    <3> QED
      BY <3>1, <3>2, <3>3 DEF File!Next, File!Return
  <2>7. CASE FullDump
    <3>1. call = "full" /\ call' = "none" /\ UNCHANGED <<open, requested>> /\ written' = written + 1
      BY <2>7 DEF FullDump
    <3>2. Len(requested) = written + 1 /\ written \in Nat
      BY <2>7, <3>1, AllWritten DEF FullDump, One, Inv, TypeOK
    <3>3. written = Len(requested) - 1 /\ written' = Len(requested)
      BY <3>1, <3>2
    <3> QED
      BY <3>1, <3>3 DEF File!Next, File!WriteAndReturn
  <2>8. CASE CloseFile
    <3>1. call = "close" /\ call' = "none" /\ open' = FALSE /\ UNCHANGED <<written, requested>>
      BY <2>8 DEF CloseFile, Inv, Control
    <3>2. written = Len(requested)
      BY <2>8, <3>1, AllWritten DEF CloseFile, One, Inv, TypeOK
    <3>3. open' = (open /\ call # "close")
      BY <3>1
    <3> QED
      BY <3>1, <3>2, <3>3 DEF File!Next, File!Return
  <2>9. CASE WorkerChange
    <3>1. worker = "chg" /\ written' = written + 1 /\ UNCHANGED <<open, call, requested>>
      BY <2>9 DEF WorkerChange
    <3>2. written < Len(requested)
      <4>1. written \in Nat /\ Len(toWorker) \in Nat /\ (toWorker # <<>> => Len(toWorker) > 0)
        BY EmptySeq, LenProperties DEF Inv, TypeOK
      <4>2. Len(requested) = written + Len(toWorker) - One(pc = "wait" /\ toWorker # <<>>)
                               + 1 + One(call \in {"dump", "full"})
        BY <3>1 DEF Inv, Dumps, One
      <4> QED
        BY <4>1, <4>2 DEF One
    <3> QED
      BY <3>1, <3>2 DEF File!Next, File!Write
  <2>10. CASE \/ GetReturned \/ GetNew \/ Wait \/ Restore \/ Restored \/ Join \/ Drain
              \/ WorkerGet \/ WorkerTime \/ WorkerEnd
    <3>1. UNCHANGED <<open, call, requested, written>>
      BY <2>10 DEF GetReturned, GetNew, Wait, Restore, Restored, Join, Drain, WorkerGet,
                   WorkerTime, WorkerEnd
    <3> QED
      BY <3>1 DEF File!vars
  <2>11. CASE UNCHANGED vars
    BY <2>11 DEF vars, File!vars
  <2> QED
    BY <2>1, <2>2, <2>3, <2>4, <2>5, <2>6, <2>7, <2>8, <2>9, <2>10, <2>11
       DEF Next, UserCall, CallStep, WorkerStep
<1> QED
  BY <1>1, <1>2, Invariance, PTL DEF Spec, ImplementsFile, File!Spec

--------------------------------------------------------------------------------
(* The waveform. *)

LEMMA DumpFields ==
  /\ \A d \in Dump : d.t \in Int /\ d.t \in Time /\ d.v \in Value
  /\ \A R \in Seq(Dump) : \A i \in 1 .. Len(R) : R[i] \in Dump /\ R[i].t \in Int /\ R[i].v \in Value
  /\ \A t \in Time : t \in Int
<1>1. \A t \in Time : t \in Int
  BY TraceAssumption DEF TraceAssumption, Time
<1>2. \A d \in Dump : d.t \in Int /\ d.t \in Time /\ d.v \in Value
  BY <1>1 DEF Dump
<1>3. \A R \in Seq(Dump) : \A i \in 1 .. Len(R) : R[i] \in Dump
  BY ElementOfSeq
<1> QED
  BY <1>1, <1>2, <1>3

\* A value that is written behind all others, at a later time.
LEMMA ShowsChange ==
  ASSUME NEW R \in Seq(Dump), NEW F \in Seq(Dump), NEW w \in Nat, w + 1 <= Len(R), Increasing(R),
         NEW o, Shows(R, w, F, o), NEW e \in Dump, e.t = R[w + 1].t, e.v = R[w + 1].v
  PROVE  Shows(R, w + 1, Append(F, e), e.v)
<1> DEFINE n == Len(F)
           G == Append(F, e)
<1>1. n \in Nat /\ Len(G) = n + 1 /\ (\A k \in 1 .. n : G[k] = F[k]) /\ G[n + 1] = e /\ G # <<>>
  BY AddLast
<1>2. Len(R) \in Nat /\ (\A i \in 1 .. w : i \in 1 .. Len(R)) /\ w + 1 \in 1 .. Len(R)
  BY LenProperties
<1>3. /\ \A k \in 1 .. n : F[k].t \in Int
      /\ \A i \in 1 .. w + 1 : R[i].t \in Int
  <2>1. \A i \in 1 .. w + 1 : i \in 1 .. Len(R)
    BY <1>2
  <2> QED
    BY <2>1, DumpFields
<1>4. \A k \in 1 .. n : w > 0 /\ F[k].t <= R[w].t
  BY DEF Shows
<1> HIDE DEF G, n
<1>5. \A i \in 1 .. w : R[i].t < e.t
  <2> TAKE i \in 1 .. w
  <2>1. i < w + 1 /\ i \in 1 .. Len(R)
    BY <1>2
  <2> QED
    BY <1>2, <2>1 DEF Increasing
<1>6. \A k \in 1 .. n : F[k].t < e.t
  <2> TAKE k \in 1 .. n
  <2>1. w \in 1 .. w /\ w \in 1 .. w + 1 /\ F[k].t <= R[w].t
    BY <1>4
  <2>2. R[w].t < e.t /\ R[w].t \in Int /\ e.t \in Int /\ F[k].t \in Int
    BY <1>3, <1>5, <2>1, DumpFields
  <2> QED
    BY <2>1, <2>2
<1>7. e.t \in Int /\ n + 1 \in 1 .. n + 1 /\ \A k \in 1 .. n + 1 : k = n + 1 \/ k \in 1 .. n
  BY <1>1, DumpFields
<1>8. ASSUME NEW i \in 1 .. w
      PROVE  \E j \in 1 .. Len(G) : LastIn(G, j, R[i].t) /\ G[j].v = R[i].v
  <2>1. PICK j \in 1 .. n : LastIn(F, j, R[i].t) /\ F[j].v = R[i].v
    BY DEF Shows, n
  <2>2. F[j].t <= R[i].t /\ \A k \in 1 .. n : F[k].t <= R[i].t => k <= j
    BY <2>1 DEF LastIn, n
  <2>3. j \in 1 .. n + 1 /\ G[j] = F[j]
    BY <1>1
  <2>4. R[i].t < e.t /\ R[i].t \in Int
    <3>1. i \in 1 .. w + 1
      OBVIOUS
    <3> QED
      BY <1>3, <1>5, <3>1
  <2>5. ~(G[n + 1].t <= R[i].t)
    BY <1>1, <1>7, <2>4
  <2>6. ASSUME NEW k \in 1 .. n + 1, G[k].t <= R[i].t PROVE k <= j
    <3>1. k \in 1 .. n
      BY <1>7, <2>5, <2>6
    <3>2. G[k] = F[k]
      BY <1>1, <3>1
    <3> QED
      BY <2>2, <2>6, <3>1, <3>2
  <2>7. LastIn(G, j, R[i].t)
    BY <1>1, <2>2, <2>3, <2>6 DEF LastIn
  <2> QED
    BY <1>1, <2>1, <2>3, <2>7
<1>9. LastIn(G, n + 1, R[w + 1].t) /\ G[n + 1].v = R[w + 1].v /\ n + 1 \in 1 .. Len(G)
  <2>1. \A k \in 1 .. n + 1 : k <= n + 1
    BY <1>1
  <2>2. G[n + 1].t <= R[w + 1].t
    BY <1>1, <1>7
  <2> QED
    BY <1>1, <1>7, <2>1, <2>2 DEF LastIn
<1>10. \A i \in 1 .. w + 1 : \E j \in 1 .. Len(G) : LastIn(G, j, R[i].t) /\ G[j].v = R[i].v
  <2>1. \A i \in 1 .. w + 1 : i = w + 1 \/ i \in 1 .. w
    OBVIOUS
  <2> QED
    BY <1>8, <1>9, <2>1
<1>11. ASSUME NEW k \in 1 .. Len(G) PROVE w + 1 > 0 /\ G[k].t <= R[w + 1].t
  <2>1. CASE k = n + 1
    BY <1>1, <1>7, <2>1
  <2>2. CASE k # n + 1
    <3>1. k \in 1 .. n /\ G[k] = F[k]
      BY <1>1, <1>7, <2>2
    <3> QED
      BY <1>3, <1>6, <1>7, <3>1
  <2> QED
    BY <2>1, <2>2
<1>12. G # <<>> /\ G[Len(G)].v = e.v /\ R[w + 1].v = e.v
  BY <1>1 DEF G
<1> QED
  BY <1>10, <1>11, <1>12 DEF Shows, G

\* A value that did not change needs no entry.
LEMMA ShowsSame ==
  ASSUME NEW R \in Seq(Dump), NEW F \in Seq(Dump), NEW w \in Nat \ {0}, w + 1 <= Len(R), Increasing(R),
         NEW o, Shows(R, w, F, o), R[w + 1].v = o
  PROVE  Shows(R, w + 1, F, o)
<1> DEFINE n == Len(F)
<1>1. n \in Nat \ {0} /\ n \in 1 .. n /\ F # <<>> /\ F[n].v = o
  BY EmptySeq, LenProperties DEF Shows
<1>2. Len(R) \in Nat /\ w \in 1 .. Len(R) /\ w + 1 \in 1 .. Len(R)
  BY LenProperties
<1>3. R[w].t < R[w + 1].t /\ R[w].t \in Int /\ R[w + 1].t \in Int /\ \A k \in 1 .. n : F[k].t \in Int
  BY <1>2, DumpFields DEF Increasing
<1>4. \A k \in 1 .. n : F[k].t <= R[w + 1].t
  <2>1. \A k \in 1 .. n : F[k].t <= R[w].t
    BY DEF Shows
  <2> QED
    BY <1>3, <2>1
<1>5. LastIn(F, n, R[w + 1].t) /\ F[n].v = R[w + 1].v
  BY <1>1, <1>4 DEF LastIn
<1>6. \A i \in 1 .. w + 1 : i = w + 1 \/ i \in 1 .. w
  OBVIOUS
<1>7. \A i \in 1 .. w + 1 : \E j \in 1 .. n : LastIn(F, j, R[i].t) /\ F[j].v = R[i].v
  BY <1>1, <1>5, <1>6 DEF Shows
<1> QED
  BY <1>1, <1>4, <1>7 DEF Shows

\* Another dump is requested.
LEMMA ShowsRequest ==
  ASSUME NEW R \in Seq(Dump), NEW F, NEW w \in Nat, w <= Len(R), NEW o, Shows(R, w, F, o), NEW d \in Dump
  PROVE  Shows(Append(R, d), w, F, o)
<1> DEFINE S == Append(R, d)
<1>1. Len(R) \in Nat /\ \A i \in 1 .. Len(R) : S[i] = R[i]
  BY AddLast
<1> HIDE DEF S
<1>2. \A i \in 1 .. w : S[i] = R[i]
  BY <1>1
<1>3. w > 0 => w \in 1 .. w
  OBVIOUS
<1>4. Shows(S, w, F, o)
  BY <1>2, <1>3 DEF Shows
<1> QED
  BY <1>4 DEF S

LEMMA WaveParts ==
  /\ Inv => /\ TypeOK /\ Control /\ Unique /\ InOrder /\ Dumps /\ requested \in Seq(Dump) /\ file \in Seq(Dump)
            /\ toWorker \in Seq(Buffer) /\ written \in Nat /\ arg \in Dump /\ timeLastDump \in Int
            /\ oldval \in Value /\ timeui \in Time /\ fileTime \in Time
  /\ Wave <=> Pending /\ FirstFull /\ Content
<1>1. TypeOK => timeLastDump \in Int
  BY DumpFields DEF TypeOK, NoTime
<1> QED
  BY <1>1 DEF Inv, TypeOK, Wave

\* The dumps on their way have been requested.
LEMMA OnTheWay ==
  ASSUME Inv
  PROVE  /\ Len(requested) \in Nat /\ written <= Len(requested) /\ Taken \in {0, 1}
         /\ worker \in {"time", "chg"} => written + 1 <= Len(requested) - One(call \in {"dump", "full"})
         /\ \A i \in 1 .. Len(toWorker) :
              (pc = "wait" /\ i = Len(toWorker)) \/ written + Taken + i \in 1 .. Len(requested)
         /\ call \in {"dump", "full"} /\ pc # "wait" =>
              Len(requested) = written + Taken + Len(toWorker) + 1
<1>1. /\ Len(requested) \in Nat /\ Len(toWorker) \in Nat /\ written \in Nat
      /\ (toWorker # <<>> <=> Len(toWorker) > 0)
  BY WaveParts, EmptySeq, LenProperties
<1>2. PICK m \in Nat, w \in Nat, r \in Nat : m = Len(toWorker) /\ w = written /\ r = Len(requested)
  BY <1>1
<1>3. PICK x \in {0, 1}, y \in {0, 1}, z \in {0, 1} :
        /\ x = One(pc = "wait" /\ toWorker # <<>>) /\ y = Taken /\ z = One(call \in {"dump", "full"})
  BY DEF One, Taken
<1>4. r = w + m - x + y + z
  BY <1>2, <1>3, WaveParts DEF Dumps, Taken
<1>5. (x = 1 => m > 0) /\ (x = 1 => pc = "wait") /\ (worker \in {"time", "chg"} => y = 1)
  BY <1>1, <1>2, <1>3 DEF One, Taken
<1>6. (call \in {"dump", "full"} => z = 1) /\ (pc # "wait" => x = 0)
  BY <1>3 DEF One
<1>7. w <= r /\ (y = 1 => w + 1 <= r - z) /\ (x = 0 /\ z = 1 => r = w + y + m + 1)
  BY <1>4, <1>5
<1>8. ASSUME NEW i \in 1 .. m, x = 0 \/ i # m PROVE w + y + i \in 1 .. r
  BY <1>4, <1>8
<1>9. ASSUME NEW i \in 1 .. m PROVE (pc = "wait" /\ i = m) \/ w + y + i \in 1 .. r
  BY <1>5, <1>8
<1> QED
  BY <1>1, <1>2, <1>3, <1>5, <1>6, <1>7, <1>9

\* The steps that neither request nor write a dump, nor pass one on.
LEMMA WaveKeeps ==
  ASSUME Inv, Inv', Wave,
         UNCHANGED <<requested, written, file, oldval, timeLastDump, fullDump, arg, toWorker, mem>>,
         call' = call \/ {call, call'} \cap {"dump", "full"} = {},
         open' => open,
         Taken' = Taken,
         worker' \in {"time", "chg"} => UNCHANGED <<worker, wbuf, timeui, fileTime>>,
         pc = "wait" => pc' = "wait" \/ toWorker = <<>>
  PROVE  Wave'
<1>1. Len(<<>>) = 0
  OBVIOUS
<1>2. \A i \in 1 .. Len(toWorker) : pc = "wait" => pc' = "wait"
  BY <1>1
<1>3. Pending'
  BY <1>2, WaveParts DEF Pending
<1>4. FirstFull'
  BY WaveParts DEF FirstFull, One
<1>5. Content'
  BY WaveParts DEF Content
<1> QED
  BY <1>3, <1>4, <1>5 DEF Wave

LEMMA WaveQuiet ==
  ASSUME Inv, Inv', Wave,
         \/ GetReturned \/ GetNew \/ Wait \/ Restore \/ Restored \/ FlushFile \/ Join \/ Drain
         \/ CloseFile \/ Flush \/ Close \/ WorkerEnd \/ UNCHANGED vars
  PROVE  Wave'
<1> USE DEF callVars, queueVars, workerVars, fileVars, userVars
<1>1. UNCHANGED <<requested, written, file, oldval, timeLastDump, fullDump, arg, toWorker, mem>>
  BY DEF GetReturned, GetNew, Wait, Restore, Restored, FlushFile, Join, Drain, CloseFile, Flush,
     Close, WorkerEnd, vars
<1>2. call' = call \/ {call, call'} \cap {"dump", "full"} = {}
  BY WaveParts DEF Control, GetReturned, GetNew, Wait, Restore, Restored, FlushFile, Join, Drain, CloseFile, Flush,
     Close, WorkerEnd, vars
<1>3. open' => open
  BY DEF GetReturned, GetNew, Wait, Restore, Restored, FlushFile, Join, Drain, CloseFile, Flush,
     Close, WorkerEnd, vars
<1>4. /\ worker' \in {"time", "chg"} <=> worker \in {"time", "chg"}
      /\ worker' \in {"time", "chg"} => UNCHANGED <<worker, wbuf>>
  BY DEF GetReturned, GetNew, Wait, Restore, Restored, FlushFile, Join, Drain, CloseFile, Flush,
     Close, WorkerEnd, vars
<1>5. worker' \in {"time", "chg"} => UNCHANGED <<timeui, fileTime>>
  <2>1. CASE FlushFile \/ CloseFile
    BY <2>1, <1>4, WaveParts DEF InOrder, Busy, FlushFile, CloseFile
  <2>2. CASE ~(FlushFile \/ CloseFile)
    BY <2>2 DEF GetReturned, GetNew, Wait, Restore, Restored, Join, Drain, Flush, Close, WorkerEnd, vars
  <2> QED
    BY <2>1, <2>2
<1>6. pc = "wait" => pc' = "wait" \/ toWorker = <<>>
  <2>1. pc = "wait" => pc' \in {"wait", "restore"}
    BY DEF GetReturned, GetNew, Wait, Restore, Restored, FlushFile, Join, Drain, CloseFile, Flush,
     Close, WorkerEnd, vars
  <2>2. pc' = "restore" => toWorker' = <<>>
    BY DEF Inv, InOrder
  <2> QED
    BY <1>1, <2>1, <2>2
<1>7. Taken' = Taken
  BY <1>4 DEF Taken, One
<1> QED
  BY <1>1, <1>2, <1>3, <1>4, <1>5, <1>6, <1>7, WaveKeeps

LEMMA WaveOpen ==
  ASSUME Inv, Wave, Open
  PROVE  Wave'
<1>1. /\ pc = "idle" /\ ~open /\ open' = TRUE /\ fullDump' = TRUE /\ file' = <<>>
      /\ requested' = <<>> /\ written' = 0 /\ worker' = "idle" /\ UNCHANGED <<call, pc, toWorker>>
  BY DEF Open, callVars, queueVars
<1>2. call = "none" /\ toWorker = <<>>
  BY <1>1, WaveParts DEF Control
<1>3. Len(<<>>) = 0
  OBVIOUS
<1>4. Pending'
  BY <1>1, <1>2, <1>3 DEF Pending, Increasing
<1>5. FirstFull'
  BY <1>1, <1>2, <1>3 DEF FirstFull, One
<1>6. Content'
  BY <1>1, <1>3 DEF Content, Shows
<1> QED
  BY <1>4, <1>5, <1>6 DEF Wave

LEMMA WaveDumpCall ==
  ASSUME Inv, Wave, NEW d \in Dump, DumpCall(d)
  PROVE  Wave'
<1> USE DEF queueVars, workerVars, fileVars
<1>1. /\ pc = "idle" /\ d.t > timeLastDump /\ timeLastDump' = d.t /\ call = "none"
      /\ UNCHANGED <<toWorker, mem, worker, wbuf, written, file, oldval, timeui, fileTime, open, fullDump>>
  BY WaveParts DEF DumpCall, Control
<1>2. d.t \in Int /\ timeLastDump \in Int /\ Len(requested) \in Nat
      /\ \A i \in 1 .. Len(requested) : requested[i].t \in Int /\ requested[i].t <= timeLastDump
  BY WaveParts, DumpFields, LenProperties DEF Pending
<1>3. CASE ~open
  <2>1. UNCHANGED <<call, pc, arg, requested>>
    BY <1>3 DEF DumpCall
  <2>2. \A i \in 1 .. Len(requested) : requested[i].t <= d.t
    BY <1>1, <1>2
  <2>3. Pending'
    BY <1>1, <2>1, <2>2, WaveParts DEF Pending, Taken
  <2>4. FirstFull' /\ Content'
    BY <1>1, <2>1, WaveParts DEF FirstFull, Content
  <2> QED
    BY <2>3, <2>4 DEF Wave
<1>4. CASE open
  <2>1. /\ call' = IF fullDump THEN "full" ELSE "dump"
        /\ pc' = "get" /\ arg' = d /\ requested' = Append(requested, d)
    BY <1>4 DEF DumpCall
  <2>2. PICK n \in Nat : n = Len(requested)
    BY <1>2
  <2>3. /\ requested' \in Seq(Dump) /\ Len(requested') = n + 1
        /\ \A i \in 1 .. n : requested'[i] = requested[i]
        /\ requested'[n + 1] = d
    BY <2>1, <2>2, WaveParts, AddLast
  <2>4. \A i \in 1 .. n + 1 : i = n + 1 \/ i \in 1 .. n
    OBVIOUS
  <2>5. Increasing(requested')
    <3> SUFFICES ASSUME NEW i \in 1 .. n + 1, NEW j \in 1 .. n + 1, i < j
                 PROVE  requested'[i].t < requested'[j].t
      BY <2>3 DEF Increasing
    <3>1. i \in 1 .. n /\ requested'[i] = requested[i]
      BY <2>3, <2>4
    <3>2. CASE j = n + 1
      BY <1>1, <1>2, <2>2, <2>3, <3>1, <3>2
    <3>3. CASE j \in 1 .. n
      BY <2>2, <2>3, <3>1, <3>3, WaveParts DEF Pending, Increasing
    <3> QED
      BY <2>4, <3>2, <3>3
  <2>6. \A i \in 1 .. n + 1 : requested'[i].t <= d.t
    <3> TAKE i \in 1 .. n + 1
    <3>1. CASE i = n + 1
      BY <1>2, <2>3, <3>1
    <3>2. CASE i \in 1 .. n
      BY <1>1, <1>2, <2>2, <2>3, <3>2
    <3> QED
      BY <2>4, <3>1, <3>2
  <2>7. /\ \A i \in 1 .. Len(toWorker) : written + Taken + i \in 1 .. n
        /\ worker \in {"time", "chg"} => written + 1 \in 1 .. n
    <3>1. \A i \in 1 .. Len(toWorker) : written + Taken + i \in 1 .. n
      BY <1>1, <2>2, OnTheWay
    <3>2. worker \in {"time", "chg"} => written + 1 <= n - 0
      BY <1>1, <2>2, OnTheWay DEF One
    <3>3. worker \in {"time", "chg"} => written + 1 \in 1 .. n
      BY <3>2, WaveParts
    <3> QED
      BY <3>1, <3>3
  <2>8. Taken' = Taken
    BY <1>1 DEF Taken
  <2>9. Pending'
    <3>1. \A i \in 1 .. Len(toWorker) : mem[toWorker[i]].dump = <<requested'[written + Taken + i]>>
      BY <1>1, <2>3, <2>7, WaveParts DEF Pending
    <3>2. worker \in {"time", "chg"} => mem[wbuf].dump = <<requested'[written + 1]>>
      BY <2>3, <2>7, WaveParts DEF Pending
    <3>3. worker = "chg" => timeui = requested'[written + 1].t /\ (timeui = 0 => fileTime = 0)
      BY <2>3, <2>7, WaveParts DEF Pending
    <3> QED
      BY <1>1, <2>1, <2>3, <2>5, <2>6, <2>8, <3>1, <3>2, <3>3 DEF Pending
  <2>10. FirstFull'
    <3>1. fullDump => n = 0
      BY <1>1, <1>4, <2>2, WaveParts DEF FirstFull, One
    <3> QED
      BY <1>1, <1>4, <2>1, <2>3, <3>1, WaveParts DEF FirstFull, One
  <2>11. Content'
    <3>1. written <= Len(requested)
      BY OnTheWay
    <3> QED
      BY <1>1, <2>1, <3>1, WaveParts, ShowsRequest DEF Content
  <2> QED
    BY <2>9, <2>10, <2>11 DEF Wave
<1> QED
  BY <1>3, <1>4

LEMMA WavePutBuffer ==
  ASSUME Inv, Wave, PutBuffer
  PROVE  Wave'
<1> USE DEF workerVars, fileVars, userVars
<1>1. /\ pc = "fill" /\ toWorker' = Append(toWorker, buf) /\ buf \in Buffer
      /\ UNCHANGED <<arg, worker, wbuf, requested, written, file, oldval, timeLastDump, fullDump, open,
                     timeui, fileTime>>
      /\ (call = "dump" => pc' = "idle" /\ call' = "none") /\ (call # "dump" => pc' = "wait" /\ call' = call)
  BY WaveParts DEF PutBuffer, Control
<1>2. PICK n \in Nat : n = Len(toWorker)
  BY WaveParts, LenProperties
<1>3. /\ Len(toWorker') = n + 1 /\ toWorker'[n + 1] = buf
      /\ \A i \in 1 .. n : toWorker'[i] = toWorker[i] /\ toWorker[i] \in Buffer
  BY <1>1, <1>2, WaveParts, AddLast, ElementOfSeq
<1>4. /\ \A b \in Buffer : b # buf => mem'[b] = mem[b]
      /\ call = "dump" => mem'[buf].dump = <<arg>>
  BY <1>1, WaveParts DEF PutBuffer, TypeOK
<1>5. ~Holds(toWorker, buf) /\ ~WorkerHas(buf)
  BY <1>1, WaveParts DEF Unique, UniqueAt, CallerHas
<1>6. \A i \in 1 .. n : toWorker[i] # buf
  BY <1>2, <1>5 DEF Holds
<1>7. \A i \in 1 .. n : mem'[toWorker'[i]].dump = <<requested[written + Taken + i]>>
  <2> TAKE i \in 1 .. n
  <2>1. mem[toWorker[i]].dump = <<requested[written + Taken + i]>>
    BY <1>1, <1>2, WaveParts DEF Pending
  <2> QED
    BY <1>3, <1>4, <1>6, <2>1
<1>8. Taken' = Taken
  BY <1>1 DEF Taken
<1>9. worker \in {"time", "chg"} => wbuf \in Buffer /\ wbuf # buf
  BY <1>1, <1>5, WaveParts DEF Control, Busy, WorkerHas
<1>10. \A i \in 1 .. n + 1 : i = n + 1 \/ i \in 1 .. n
  OBVIOUS
<1>11. call = "dump" => mem'[buf].dump = <<requested[written + Taken + (n + 1)]>>
  <2> SUFFICES ASSUME call = "dump" PROVE mem'[buf].dump = <<requested[written + Taken + (n + 1)]>>
    OBVIOUS
  <2>1. Len(requested) = written + Taken + n + 1 /\ arg = requested[Len(requested)]
    BY <1>1, <1>2, OnTheWay, WaveParts DEF Pending
  <2>2. written + Taken + n + 1 = written + Taken + (n + 1)
    <3>1. PICK w \in Nat, t \in {0, 1} : w = written /\ t = Taken
      BY WaveParts, OnTheWay
    <3>2. w + t + n + 1 = w + t + (n + 1)
      OBVIOUS
    <3> QED
      BY <3>1, <3>2
  <2> QED
    BY <1>4, <2>1, <2>2
<1>12. Pending'
  <2>1. \A i \in 1 .. Len(toWorker') : \/ pc' = "wait" /\ i = Len(toWorker')
                                       \/ mem'[toWorker'[i]].dump = <<requested[written + Taken + i]>>
    BY <1>1, <1>3, <1>7, <1>10, <1>11
  <2>2. worker \in {"time", "chg"} => mem'[wbuf].dump = <<requested[written + 1]>>
    BY <1>4, <1>9, WaveParts DEF Pending
  <2>3. call' \in {"dump", "full"} => call \in {"dump", "full"}
    BY <1>1
  <2> QED
    BY <1>1, <1>8, <2>1, <2>2, <2>3, WaveParts DEF Pending
<1>13. FirstFull'
  BY <1>1, WaveParts DEF FirstFull, One
<1>14. Content'
  BY <1>1, WaveParts DEF Content
<1> QED
  BY <1>12, <1>13, <1>14 DEF Wave

LEMMA WaveFullDump ==
  ASSUME Inv, Wave, FullDump
  PROVE  Wave'
<1> USE DEF queueVars, workerVars
<1>1. /\ pc = "direct" /\ call = "full" /\ oldval' = arg.v /\ file' = Append(file, [t |-> arg.t, v |-> arg.v])
      /\ written' = written + 1 /\ fullDump' = FALSE /\ call' = "none"
      /\ UNCHANGED <<toWorker, worker, timeLastDump, requested>>
  BY DEF FullDump
<1>2. toWorker = <<>> /\ worker \notin {"time", "chg"} /\ Len(requested) = written + 1
  BY <1>1, WaveParts, AllWritten DEF InOrder, Busy, One
<1>3. PICK e : e = [t |-> arg.t, v |-> arg.v]
  OBVIOUS
<1>4. e \in Dump /\ e.t = arg.t /\ e.v = arg.v
  BY <1>3, WaveParts DEF Dump
<1>5. arg = requested[written + 1]
  BY <1>1, <1>2, WaveParts DEF Pending
<1>6. Len(<<>>) = 0
  OBVIOUS
<1>7. Pending'
  BY <1>1, <1>2, <1>6, WaveParts DEF Pending
<1>8. FirstFull'
  BY <1>1, WaveParts DEF FirstFull
<1>9. Content'
  <2>1. written + 1 <= Len(requested) /\ Increasing(requested)
    BY <1>2, WaveParts DEF Pending
  <2>2. Shows(requested, written + 1, Append(file, e), e.v)
    BY <1>4, <1>5, <2>1, WaveParts, ShowsChange DEF Content
  <2> QED
    BY <1>1, <1>3, <1>4, <2>2 DEF Content
<1> QED
  BY <1>7, <1>8, <1>9 DEF Wave

LEMMA WaveWorkerGet ==
  ASSUME Inv, Wave, WorkerGet
  PROVE  Wave'
<1> USE DEF callVars, fileVars, userVars
<1>1. /\ worker = "idle" /\ toWorker # <<>> /\ wbuf' = Head(toWorker) /\ toWorker' = Tail(toWorker)
      /\ worker' = IF mem[wbuf'].dump = <<>> THEN "end" ELSE "time"
      /\ UNCHANGED <<call, pc, arg, mem, requested, written, file, oldval, timeLastDump, fullDump, open>>
  BY DEF WorkerGet
<1>2. PICK n \in Nat \ {0} : n = Len(toWorker)
  BY <1>1, WaveParts, TakeHead
<1>3. /\ Len(toWorker') = n - 1 /\ wbuf' = toWorker[1]
      /\ \A i \in 1 .. n - 1 : toWorker'[i] = toWorker[i + 1]
  BY <1>1, <1>2, WaveParts, TakeHead
<1>4. Taken = 0 /\ written \in Nat
  BY <1>1, WaveParts DEF Taken, One
<1>5. \A i \in 1 .. n : (pc = "wait" /\ i = n) \/ mem[toWorker[i]].dump = <<requested[written + i]>>
  <2>1. \A i \in 1 .. n : (pc = "wait" /\ i = n) \/ mem[toWorker[i]].dump = <<requested[written + Taken + i]>>
    BY <1>2, WaveParts DEF Pending
  <2> QED
    BY <1>4, <2>1
<1>6. 1 \in 1 .. n /\ \A i \in 1 .. n - 1 : i + 1 \in 1 .. n /\ (i = n - 1 <=> i + 1 = n)
  BY <1>2
<1>7. CASE mem[wbuf'].dump # <<>>
  <2>1. worker' = "time" /\ Taken' = 1
    BY <1>1, <1>7 DEF Taken, One
  <2>2. mem[wbuf'].dump = <<requested[written + 1]>>
    <3>1. ~(pc = "wait" /\ 1 = n)
      <4> SUFFICES ASSUME pc = "wait", n = 1 PROVE FALSE
        OBVIOUS
      <4>1. toWorker[1] = buf
        BY <1>1, <1>2, WaveParts DEF InOrder
      <4>2. mem[buf].dump = <<>>
        BY WaveParts DEF Dumps
      <4> QED
        BY <1>3, <1>7, <4>1, <4>2
    <3> QED
      BY <1>3, <1>5, <1>6, <3>1
  <2>3. \A i \in 1 .. n - 1 :
            (pc = "wait" /\ i = n - 1) \/ mem[toWorker'[i]].dump = <<requested[written + 1 + i]>>
    <3> TAKE i \in 1 .. n - 1
    <3>1. written + (i + 1) = written + 1 + i
      BY <1>4
    <3> QED
      BY <1>3, <1>5, <1>6, <3>1
  <2> QED
    <3>1. Pending'
      BY <1>1, <1>3, <2>1, <2>2, <2>3, WaveParts DEF Pending
    <3>2. FirstFull' /\ Content'
      BY <1>1, WaveParts DEF FirstFull, Content
    <3> QED
      BY <3>1, <3>2 DEF Wave
<1>8. CASE mem[wbuf'].dump = <<>>
  <2>1. worker' = "end"
    BY <1>1, <1>8
  <2>2. n = 1
    <3>1. (pc = "wait" /\ 1 = n) \/ mem[toWorker[1]].dump # <<>>
      BY <1>2, <1>6, WaveParts DEF Dumps
    <3> QED
      BY <1>3, <1>8, <3>1
  <2>3. Len(toWorker') = 0
    BY <1>3, <2>2
  <2>4. Pending'
    BY <1>1, <2>1, <2>3, WaveParts DEF Pending
  <2>5. FirstFull' /\ Content'
    BY <1>1, WaveParts DEF FirstFull, Content
  <2> QED
    BY <2>4, <2>5 DEF Wave
<1> QED
  BY <1>7, <1>8

LEMMA WaveWorkerTime ==
  ASSUME Inv, Wave, WorkerTime
  PROVE  Wave'
<1> USE DEF callVars, queueVars, userVars
<1>1. /\ worker = "time" /\ worker' = "chg"
      /\ fileTime' = (IF mem[wbuf].dump[1].t = 0 THEN 0 ELSE fileTime) /\ timeui' = mem[wbuf].dump[1].t
      /\ UNCHANGED <<call, pc, arg, toWorker, mem, wbuf, requested, written, file, oldval, timeLastDump,
                     fullDump, open>>
  BY DEF WorkerTime, EmitTimeChange
<1>2. mem[wbuf].dump = <<requested[written + 1]>>
  BY <1>1, WaveParts DEF Pending
<1>3. mem[wbuf].dump[1] = requested[written + 1]
  BY <1>2
<1>4. Taken' = Taken
  BY <1>1 DEF Taken, One
<1>5. Pending'
  BY <1>1, <1>2, <1>3, <1>4, WaveParts DEF Pending
<1>6. FirstFull' /\ Content'
  BY <1>1, WaveParts DEF FirstFull, Content
<1> QED
  BY <1>5, <1>6 DEF Wave

\* The worker leaves out a value that has not changed, and else has the right time for it.
LEMMA WaveWorkerChange ==
  ASSUME Inv, Wave, WorkerChange
  PROVE  Wave'
<1> USE DEF callVars, queueVars, userVars
<1>1. /\ worker = "chg" /\ worker' = "end" /\ written' = written + 1
      /\ UNCHANGED <<call, pc, arg, toWorker, mem, requested, timeLastDump, fullDump, open>>
  BY DEF WorkerChange
<1>2. PICK d : d = requested[written + 1]
  OBVIOUS
<1>3. mem[wbuf].dump[1] = d
  <2>1. mem[wbuf].dump = <<d>>
    BY <1>1, <1>2, WaveParts DEF Pending
  <2> QED
    BY <2>1
<1>4. written + 1 <= Len(requested) - One(call \in {"dump", "full"}) /\ Len(requested) \in Nat
  BY <1>1, OnTheWay
<1>5. written \in Nat /\ written + 1 <= Len(requested) /\ written + 1 \in 1 .. Len(requested)
  BY <1>4, WaveParts DEF One
<1>6. d \in Dump /\ d.t \in Int /\ Increasing(requested)
  BY <1>2, <1>5, WaveParts, DumpFields DEF Pending
<1>7. written # 0
  <2>1. open
    BY <1>1, WaveParts DEF Control
  <2>2. fullDump => Len(requested) = One(call = "full")
    BY <2>1, WaveParts DEF FirstFull
  <2>3. ~(Len(requested) = One(call = "full"))
    <3>1. PICK r \in Nat, w \in Nat : r = Len(requested) /\ w = written
      BY <1>4, <1>5
    <3>2. call = "full" => w + 1 <= r - 1
      BY <1>4, <3>1 DEF One
    <3>3. w + 1 <= r
      BY <1>5, <3>1
    <3>4. r = One(call = "full") => call = "full" /\ r = 1
      BY <3>3 DEF One
    <3> QED
      BY <3>1, <3>2, <3>3, <3>4
  <2> QED
    BY <2>1, <2>2, <2>3, <1>5, WaveParts DEF FirstFull
<1>8. /\ d.v # oldval => /\ oldval' = d.v
                         /\ file' = Append(file, [t |-> IF timeui # 0 THEN timeui ELSE fileTime, v |-> d.v])
      /\ d.v = oldval => UNCHANGED <<oldval, file>>
  BY <1>3 DEF WorkerChange, EmitValue, EmitTimeChangeMaybe
<1>9. (IF timeui # 0 THEN timeui ELSE fileTime) = d.t
  BY <1>1, <1>2, WaveParts DEF Pending
<1>10. Content'
  <2>1. CASE d.v = oldval
    <3>1. Shows(requested, written + 1, file, oldval)
      BY <1>2, <1>5, <1>6, <1>7, <2>1, WaveParts, ShowsSame DEF Content
    <3> QED
      BY <1>1, <1>8, <2>1, <3>1 DEF Content
  <2>2. CASE d.v # oldval
    <3>1. PICK e : e = [t |-> d.t, v |-> d.v]
      OBVIOUS
    <3>2. e \in Dump /\ e.t = d.t /\ e.v = d.v
      BY <1>6, <3>1, DumpFields DEF Dump
    <3>3. Shows(requested, written + 1, Append(file, e), e.v)
      BY <1>2, <1>5, <1>6, <3>2, WaveParts, ShowsChange DEF Content
    <3>4. file' = Append(file, e) /\ oldval' = e.v
      BY <1>8, <1>9, <2>2, <3>1, <3>2
    <3> QED
      BY <1>1, <3>3, <3>4 DEF Content
  <2> QED
    BY <2>1, <2>2
<1>11. Pending'
  <2>1. Taken = 1 /\ Taken' = 0
    BY <1>1 DEF Taken, One
  <2>2. \A i : i \in Nat => (written + 1) + 0 + i = written + 1 + i
    BY <1>5
  <2>3. \A i \in 1 .. Len(toWorker) : (pc = "wait" /\ i = Len(toWorker))
                                      \/ mem[toWorker[i]].dump = <<requested[(written + 1) + 0 + i]>>
    <3>1. \A i \in 1 .. Len(toWorker) : (pc = "wait" /\ i = Len(toWorker))
                                      \/ mem[toWorker[i]].dump = <<requested[written + 1 + i]>>
      BY <2>1, WaveParts DEF Pending
    <3>2. \A i \in 1 .. Len(toWorker) : i \in Nat
      OBVIOUS
    <3> QED
      BY <2>2, <3>1, <3>2
  <2> QED
    BY <1>1, <2>1, <2>3, WaveParts DEF Pending
<1>12. FirstFull'
  BY <1>1, <1>5, WaveParts DEF FirstFull
<1> QED
  BY <1>10, <1>11, <1>12 DEF Wave

\* At the time of every dump that was written the file shows the value dumped, for any
\* values, times and number of buffers, although the worker leaves out values that
\* have not changed, keeps a time back until a value does, and compares the first
\* value of a reopened file with one of the file before.
THEOREM WaveformRight == Spec => []WaveformExact
<1>1. ASSUME Init PROVE Wave
  <2>1. /\ requested = <<>> /\ written = 0 /\ file = <<>> /\ toWorker = <<>> /\ worker = "none"
        /\ call = "none" /\ open = FALSE
    BY <1>1 DEF Init
  <2>2. Len(<<>>) = 0
    OBVIOUS
  <2> QED
    BY <2>1, <2>2 DEF Wave, Pending, Increasing, FirstFull, Content, Shows
<1>2. ASSUME Inv, Wave, [Next]_vars PROVE Wave'
  <2>1. Inv'
    BY <1>2, NextInv
  <2> QED
    BY <1>2, <2>1, WaveQuiet, WaveOpen, WaveDumpCall, WavePutBuffer, WaveFullDump, WaveWorkerGet,
       WaveWorkerTime, WaveWorkerChange DEF Next, UserCall, CallStep, WorkerStep
<1>3. ASSUME Inv, Wave PROVE WaveformExact
  <2> SUFFICES ASSUME NEW i \in 1 .. written
               PROVE  /\ \E j \in 1 .. Len(file) : file[j].t <= requested[i].t
                      /\ Shown(requested[i].t) = requested[i].v
    BY DEF WaveformExact
  <2>1. PICK j \in 1 .. Len(file) : LastIn(file, j, requested[i].t) /\ file[j].v = requested[i].v
    BY <1>3, WaveParts DEF Content, Shows
  <2> DEFINE js == {k \in 1 .. Len(file) : file[k].t <= requested[i].t}
  <2>2. j \in js /\ \A k \in js : k <= j
    BY <2>1 DEF LastIn
  <2>3. \A m \in js : (\A k \in js : k <= m) => m = j
    BY <2>2
  <2>4. (CHOOSE m \in js : \A k \in js : k <= m) = j
    BY <2>2, <2>3
  <2>5. Shown(requested[i].t) = file[j].v
    BY <2>4 DEF Shown
  <2> QED
    BY <2>1, <2>2, <2>5
<1> QED
  BY <1>1, <1>2, <1>3, Invariance, PTL DEF Spec
================================================================================
