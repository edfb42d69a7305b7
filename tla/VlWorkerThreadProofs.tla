------------------------- MODULE VlWorkerThreadProofs -------------------------
(***************************************************************************)
(* Proofs about VlWorkerThread, for every set of callers and every number  *)
(* of calls.                                                               *)
(***************************************************************************)
EXTENDS VlWorkerThread, SequenceTheorems, TLAPS

\* Taking the head of the last part moves it into an empty middle part.
LEMMA HeadToMiddle ==
  ASSUME NEW S, NEW s \in Seq(S), NEW u \in Seq(S), u # <<>>
  PROVE  s \o <<>> \o u = s \o <<Head(u)>> \o Tail(u)
<1>1. Head(u) \in S /\ Tail(u) \in Seq(S)
  BY HeadTailProperties
<1>2. <<Head(u)>> \in Seq(S)
  BY <1>1
<1>3. u = <<Head(u)>> \o Tail(u)
  <2> DEFINE v == <<Head(u)>> \o Tail(u)
  <2>1. v \in Seq(S) /\ Len(v) = Len(u)
    BY <1>1, <1>2, ConcatProperties, HeadTailProperties, LenProperties
  <2>2. \A i \in 1 .. Len(u) : u[i] = v[i]
    BY <1>1, <1>2, ConcatProperties, HeadTailProperties, LenProperties
  <2> QED
    BY <2>1, <2>2, SeqEqual
<1>4. s \o <<>> = s
  BY ConcatEmptySeq
<1> QED
  BY <1>1, <1>2, <1>3, <1>4, ConcatAssociative

\* Finishing the middle part moves it to the end of the first.
LEMMA MiddleToFirst ==
  ASSUME NEW S, NEW s \in Seq(S), NEW u \in Seq(S), NEW e \in S
  PROVE  s \o <<e>> \o u = Append(s, e) \o <<>> \o u
<1>1. Append(s, e) = s \o <<e>> /\ Append(s, e) \in Seq(S)
  BY AppendIsConcat, AppendProperties
<1> QED
  BY <1>1, ConcatEmptySeq

--------------------------------------------------------------------------------
\* The shape of the queues in a state of the right types.
LEMMA QueueShape ==
  ASSUME TypeOK
  PROVE  /\ Len(ready) \in Nat /\ Len(executed) \in Nat
         /\ \A i \in 1 .. Len(ready) : ready[i] \in ExecRec
         /\ \A i \in 1 .. Len(executed) : executed[i] \in ExecRec
BY LenProperties, ElementOfSeq DEF TypeOK

\* What the worker takes from a queue that is not empty, and what it leaves.
LEMMA TakeShape ==
  ASSUME TypeOK, ready # <<>>
  PROVE  /\ Head(ready) = ready[1] /\ Head(ready) \in ExecRec
         /\ Tail(ready) \in Seq(ExecRec)
         /\ Len(ready) >= 1 /\ Len(Tail(ready)) = Len(ready) - 1
         /\ \A i \in 1 .. Len(Tail(ready)) : Tail(ready)[i] = ready[i + 1]
BY HeadTailProperties, EmptySeq, LenProperties DEF TypeOK

\* The queue after a record has been added.
LEMMA AddShape ==
  ASSUME TypeOK, NEW rec \in ExecRec, ready' = Append(ready, rec)
  PROVE  /\ ready' \in Seq(ExecRec) /\ ready' # <<>>
         /\ Len(ready) \in Nat /\ Len(ready') = Len(ready) + 1
         /\ \A i \in 1 .. Len(ready) : ready'[i] = ready[i]
         /\ ready'[Len(ready) + 1] = rec
<1>1. ready \in Seq(ExecRec)
  BY DEF TypeOK
<1>2. Len(ready) \in Nat
  BY <1>1, LenProperties
<1> QED
  BY <1>1, <1>2, AppendProperties

\* The record being run, if any: the middle part of what has been added.
Running == IF wpc = "run" THEN <<work>> ELSE <<>>

\* The middle part is a sequence of records.
LEMMA RunningType ==
  ASSUME TypeOK, WorkerInv
  PROVE  Running \in Seq(ExecRec)
<1>1. CASE wpc = "run"
  <2>1. work \in ExecRec
    BY <1>1 DEF WorkerInv
  <2> QED
    BY <1>1, <2>1 DEF Running
<1>2. CASE wpc # "run"
  BY <1>2, EmptySeq DEF Running
<1> QED
  BY <1>1, <1>2

--------------------------------------------------------------------------------
(* Steps that add a record. *)

\* Adding a record keeps the order and the wake-up, whoever does it.
LEMMA AddKeeps ==
  ASSUME IInv, NEW t \in Thread, NEW rec \in ExecRec, AddTask(t, rec),
         UNCHANGED <<waiting, wpc, work, executed>>
  PROVE  /\ ready' \in Seq(ExecRec) /\ added' \in Seq(ExecRec)
         /\ notify' \in [Thread -> BOOLEAN]
         /\ WorkerInv' /\ NoLostWakeup' /\ InOrder'
<1> USE DEF IInv
<1>1. ready' \in Seq(ExecRec)
  BY AddShape DEF AddTask
<1>2. added' \in Seq(ExecRec)
  BY AppendProperties DEF AddTask, TypeOK
<1>3. notify' \in [Thread -> BOOLEAN]
  BY DEF AddTask, TypeOK
<1>4. WorkerInv'
  BY DEF WorkerInv
<1>5. NoLostWakeup'
  <2> SUFFICES ASSUME wpc' = "cv"
               PROVE  pc'[t] = "notify" /\ notify'[t]
    BY DEF NoLostWakeup
  <2>1. waiting
    BY DEF WorkerInv
  <2> QED
    BY <2>1 DEF AddTask, TypeOK
<1>6. InOrder'
  <2>1. added = executed \o Running \o ready
    BY DEF InOrder, Running
  <2>2. Append(added, rec) = executed \o Running \o Append(ready, rec)
    <3>1. Running \in Seq(ExecRec)
      BY RunningType
    <3>2. executed \in Seq(ExecRec) /\ ready \in Seq(ExecRec)
      BY DEF TypeOK
    <3>3. Append(executed \o Running \o ready, rec) = executed \o Running \o Append(ready, rec)
      <4>1. /\ executed \o Running \in Seq(ExecRec) /\ <<rec>> \in Seq(ExecRec)
            /\ (executed \o Running) \o ready \in Seq(ExecRec)
        BY <3>1, <3>2, ConcatProperties
      <4>2. /\ Append((executed \o Running) \o ready, rec)
                   = ((executed \o Running) \o ready) \o <<rec>>
            /\ Append(ready, rec) = ready \o <<rec>>
        BY <3>2, <4>1, AppendIsConcat
      <4> QED
        BY <3>1, <3>2, <4>1, <4>2, ConcatAssociative
    <3> QED
      BY <2>1, <3>3
  <2>3. Running' = Running /\ executed' = executed
    BY DEF Running
  <2>4. added' = Append(added, rec) /\ ready' = Append(ready, rec)
    BY DEF AddTask
  <2>5. added' = executed' \o Running' \o ready'
    BY <2>2, <2>3, <2>4
  <2> QED
    BY <2>5 DEF InOrder, Running
<1> QED
  BY <1>1, <1>2, <1>3, <1>4, <1>5, <1>6

\* addTask() keeps the invariant.
LEMMA CallAddTaskInv ==
  ASSUME IInv, NEW c \in Caller, CallAddTask(c)
  PROVE  IInv'
<1> DEFINE rec == [by |-> c, k |-> calls'[c], kind |-> "task"]
<1> USE DEF IInv
<1>1. c \in Thread /\ Owner \in Thread /\ c # Owner
  BY CallerAssumption DEF Thread, CallerAssumption
<1>2. calls' \in [Thread -> 0 .. MaxCalls] /\ \A d \in Thread \ {c} : calls'[d] = calls[d]
  BY <1>1, CallerAssumption DEF CallAddTask, TypeOK, CallerAssumption
<1>3. rec \in ExecRec /\ rec # ShutdownTask /\ \A d \in Caller : ~FlagOf(rec, d)
  BY <1>1, <1>2 DEF ExecRec, ShutdownTask, FlagOf
<1>4. /\ AddTask(c, rec)
      /\ ready' = Append(ready, rec) /\ pc' = [pc EXCEPT ![c] = "notify"]
      /\ pc[Owner] = "idle" /\ pc[c] = "idle"
      /\ inWait' = [inWait EXCEPT ![c] = FALSE]
      /\ UNCHANGED <<waiting, wpc, work, flag, executed>>
  BY DEF CallAddTask, AddTask, Live
<1> HIDE DEF rec
<1>5. /\ ready' \in Seq(ExecRec) /\ added' \in Seq(ExecRec)
      /\ notify' \in [Thread -> BOOLEAN]
      /\ WorkerInv' /\ NoLostWakeup' /\ InOrder'
  BY <1>1, <1>3, <1>4, AddKeeps
<1>6. TypeOK'
  BY <1>1, <1>2, <1>4, <1>5 DEF TypeOK
<1>7. /\ Len(ready) \in Nat /\ Len(ready') = Len(ready) + 1
      /\ \A i \in 1 .. Len(ready) : ready'[i] = ready[i]
      /\ ready'[Len(ready) + 1] = rec
  BY <1>3, <1>4, AddShape
<1>8. ShutdownInv'
  BY <1>1, <1>3, <1>4, <1>7 DEF ShutdownInv, TypeOK
<1>9. ASSUME NEW d \in Caller
      PROVE  /\ \A i \in 1 .. Len(ready') : FlagOf(ready'[i], d) =>
                    i \in 1 .. Len(ready) /\ FlagOf(ready[i], d) /\ ready'[i] = ready[i]
             /\ wpc = "run" /\ FlagOf(work, d) => d # c
             /\ \A i \in 1 .. Len(ready) : FlagOf(ready[i], d) => d # c
  <2>1. \A i \in 1 .. Len(ready') : i \in 1 .. Len(ready) \/ i = Len(ready) + 1
    BY <1>7
  <2> QED
    BY <1>3, <1>4, <1>7, <2>1 DEF FlagFrameAlive, FlagOf
<1>10. FlagFrameAlive'
  <2> SUFFICES ASSUME NEW d \in Caller,
                      \/ wpc' = "run" /\ FlagOf(work', d)
                      \/ \E i \in 1 .. Len(ready') : FlagOf(ready'[i], d)
               PROVE  inWait'[d] /\ pc'[d] \in {"notify", "flag"} /\ ~flag'[d]
    BY DEF FlagFrameAlive, FlagOf
  <2>1. d # c /\ d \in Thread
    BY <1>4, <1>9 DEF Thread
  <2>2. inWait[d] /\ pc[d] \in {"notify", "flag"} /\ ~flag[d]
    BY <1>4, <1>9 DEF FlagFrameAlive, FlagOf
  <2> QED
    BY <1>1, <1>4, <2>1, <2>2 DEF TypeOK
<1>11. FlagInv'
  <2> SUFFICES ASSUME NEW d \in Caller
               PROVE  /\ wpc' = "run" /\ FlagOf(work', d) =>
                             /\ work'.k = calls'[d]
                             /\ \A i \in 1 .. Len(ready') : ~FlagOf(ready'[i], d)
                      /\ \A i \in 1 .. Len(ready') : FlagOf(ready'[i], d) =>
                             /\ ready'[i].k = calls'[d]
                             /\ \A j \in 1 .. Len(ready') : FlagOf(ready'[j], d) => i = j
                      /\ pc'[d] = "flag" => inWait'[d]
                      /\ inWait'[d] /\ pc'[d] \in {"notify", "flag"} /\ flag'[d] =>
                             \E n \in 1 .. Len(executed') :
                                 executed'[n] = [by |-> d, k |-> calls'[d], kind |-> "flag"]
    BY DEF FlagInv, FlagOf
  <2>0. d \in Thread
    BY DEF Thread
  <2>1. CASE d = c
    BY <1>1, <1>4, <1>9, <2>0, <2>1 DEF TypeOK
  <2>2. CASE d # c
    <3>1. calls'[d] = calls[d] /\ inWait'[d] = inWait[d] /\ pc'[d] = pc[d]
      BY <1>2, <1>4, <2>0, <2>2 DEF TypeOK
    <3> QED
      BY <1>4, <1>9, <3>1 DEF FlagInv
  <2> QED
    BY <2>1, <2>2
<1> QED
  BY <1>5, <1>6, <1>8, <1>10, <1>11

\* wait() keeps the invariant: the caller had no flag task before.
LEMMA CallWaitInv ==
  ASSUME IInv, NEW c \in Caller, CallWait(c)
  PROVE  IInv'
<1> DEFINE rec == [by |-> c, k |-> calls'[c], kind |-> "flag"]
<1> USE DEF IInv
<1>1. c \in Thread /\ Owner \in Thread /\ c # Owner
  BY CallerAssumption DEF Thread, CallerAssumption
<1>2. calls' \in [Thread -> 0 .. MaxCalls] /\ \A d \in Thread \ {c} : calls'[d] = calls[d]
  BY <1>1, CallerAssumption DEF CallWait, TypeOK, CallerAssumption
<1>3. /\ rec \in ExecRec /\ rec # ShutdownTask /\ rec.k = calls'[c]
      /\ \A d \in Caller : FlagOf(rec, d) <=> d = c
  BY <1>1, <1>2 DEF ExecRec, ShutdownTask, FlagOf
<1>4. /\ AddTask(c, rec)
      /\ ready' = Append(ready, rec) /\ pc' = [pc EXCEPT ![c] = "notify"]
      /\ pc[Owner] = "idle" /\ pc[c] = "idle"
      /\ inWait' = [inWait EXCEPT ![c] = TRUE] /\ flag' = [flag EXCEPT ![c] = FALSE]
      /\ UNCHANGED <<waiting, wpc, work, executed>>
  BY DEF CallWait, AddTask, Live
<1> HIDE DEF rec
<1>5. /\ ready' \in Seq(ExecRec) /\ added' \in Seq(ExecRec)
      /\ notify' \in [Thread -> BOOLEAN]
      /\ WorkerInv' /\ NoLostWakeup' /\ InOrder'
  BY <1>1, <1>3, <1>4, AddKeeps
<1>6. TypeOK'
  BY <1>1, <1>2, <1>4, <1>5 DEF TypeOK
<1>7. /\ Len(ready) \in Nat /\ Len(ready') = Len(ready) + 1
      /\ \A i \in 1 .. Len(ready) : ready'[i] = ready[i]
      /\ ready'[Len(ready) + 1] = rec
  BY <1>3, <1>4, AddShape
<1>8. ShutdownInv'
  BY <1>1, <1>3, <1>4, <1>7 DEF ShutdownInv, TypeOK
<1>9. ~(wpc = "run" /\ FlagOf(work, c)) /\ \A i \in 1 .. Len(ready) : ~FlagOf(ready[i], c)
  BY <1>4 DEF FlagFrameAlive, FlagOf
<1>10. ASSUME NEW d \in Caller \ {c}, NEW i \in 1 .. Len(ready'), FlagOf(ready'[i], d)
       PROVE  i \in 1 .. Len(ready) /\ FlagOf(ready[i], d) /\ ready'[i] = ready[i]
  <2>1. i \in 1 .. Len(ready) \/ i = Len(ready) + 1
    BY <1>7
  <2> QED
    BY <1>3, <1>7, <1>10, <2>1
<1>11. ASSUME NEW i \in 1 .. Len(ready'), FlagOf(ready'[i], c)
       PROVE  i = Len(ready) + 1 /\ ready'[i] = rec
  <2>1. i \in 1 .. Len(ready) \/ i = Len(ready) + 1
    BY <1>7
  <2> QED
    BY <1>7, <1>9, <1>11, <2>1
<1>12. ASSUME NEW d \in Caller \ {c}
       PROVE  /\ d \in Caller /\ d \in Thread
              /\ calls'[d] = calls[d] /\ inWait'[d] = inWait[d] /\ pc'[d] = pc[d]
              /\ flag'[d] = flag[d]
  BY <1>2, <1>4 DEF TypeOK, Thread
<1>13. pc'[c] = "notify" /\ inWait'[c] = TRUE /\ flag'[c] = FALSE
  BY <1>1, <1>4 DEF TypeOK
<1>14. FlagFrameAlive'
  <2> SUFFICES ASSUME NEW d \in Caller,
                      \/ wpc' = "run" /\ FlagOf(work', d)
                      \/ \E i \in 1 .. Len(ready') : FlagOf(ready'[i], d)
               PROVE  inWait'[d] /\ pc'[d] \in {"notify", "flag"} /\ ~flag'[d]
    BY DEF FlagFrameAlive, FlagOf
  <2>1. CASE d = c
    BY <1>13, <2>1
  <2>2. CASE d # c
    <3>1. inWait[d] /\ pc[d] \in {"notify", "flag"} /\ ~flag[d]
      BY <1>4, <1>10, <2>2 DEF FlagFrameAlive, FlagOf
    <3> QED
      BY <1>12, <2>2, <3>1
  <2> QED
    BY <2>1, <2>2
<1>15. FlagInv'
  <2> SUFFICES ASSUME NEW d \in Caller
               PROVE  /\ wpc' = "run" /\ FlagOf(work', d) =>
                             /\ work'.k = calls'[d]
                             /\ \A i \in 1 .. Len(ready') : ~FlagOf(ready'[i], d)
                      /\ \A i \in 1 .. Len(ready') : FlagOf(ready'[i], d) =>
                             /\ ready'[i].k = calls'[d]
                             /\ \A j \in 1 .. Len(ready') : FlagOf(ready'[j], d) => i = j
                      /\ pc'[d] = "flag" => inWait'[d]
                      /\ inWait'[d] /\ pc'[d] \in {"notify", "flag"} /\ flag'[d] =>
                             \E n \in 1 .. Len(executed') :
                                 executed'[n] = [by |-> d, k |-> calls'[d], kind |-> "flag"]
    BY DEF FlagInv, FlagOf
  <2>1. CASE d = c
    BY <1>3, <1>4, <1>9, <1>11, <1>13, <2>1
  <2>2. CASE d # c
    BY <1>4, <1>10, <1>12, <2>2 DEF FlagInv
  <2> QED
    BY <2>1, <2>2
<1> QED
  BY <1>5, <1>6, <1>8, <1>14, <1>15

\* shutdown() keeps the invariant: its record is the last one.
LEMMA ShutdownStepInv ==
  ASSUME IInv, Shutdown
  PROVE  IInv'
<1> USE DEF IInv
<1>1. Owner \in Thread /\ \A c \in Caller : c \in Thread /\ c # Owner
  BY CallerAssumption DEF Thread, CallerAssumption
<1>2. ShutdownTask \in ExecRec /\ \A d \in Caller : ~FlagOf(ShutdownTask, d)
  BY <1>1, CallerAssumption DEF ExecRec, ShutdownTask, FlagOf, CallerAssumption
<1>3. /\ AddTask(Owner, ShutdownTask)
      /\ ready' = Append(ready, ShutdownTask) /\ pc' = [pc EXCEPT ![Owner] = "notify"]
      /\ pc[Owner] = "idle"
      /\ UNCHANGED <<waiting, wpc, work, inWait, flag, calls, executed>>
  BY DEF Shutdown, AddTask, Live
<1>4. /\ ready' \in Seq(ExecRec) /\ added' \in Seq(ExecRec)
      /\ notify' \in [Thread -> BOOLEAN]
      /\ WorkerInv' /\ NoLostWakeup' /\ InOrder'
  BY <1>1, <1>2, <1>3, AddKeeps
<1>5. TypeOK'
  BY <1>1, <1>3, <1>4 DEF TypeOK
<1>6. /\ Len(ready) \in Nat /\ Len(ready') = Len(ready) + 1
      /\ \A i \in 1 .. Len(ready) : ready'[i] = ready[i]
      /\ ready'[Len(ready) + 1] = ShutdownTask
  BY <1>2, <1>3, AddShape
<1>7. ShutdownInv'
  <2>1. pc'[Owner] = "notify"
    BY <1>1, <1>3 DEF TypeOK
  <2> QED
    BY <1>3, <1>6, <2>1 DEF ShutdownInv
<1>8. ASSUME NEW d \in Caller, NEW i \in 1 .. Len(ready'), FlagOf(ready'[i], d)
      PROVE  i \in 1 .. Len(ready) /\ FlagOf(ready[i], d) /\ ready'[i] = ready[i]
  <2>1. i \in 1 .. Len(ready) \/ i = Len(ready) + 1
    BY <1>6
  <2> QED
    BY <1>2, <1>6, <1>8, <2>1
<1>9. \A d \in Caller : pc'[d] = pc[d]
  BY <1>1, <1>3 DEF TypeOK
<1>10. FlagFrameAlive'
  BY <1>3, <1>8, <1>9 DEF FlagFrameAlive, FlagOf
<1>11. FlagInv'
  <2> SUFFICES ASSUME NEW d \in Caller
               PROVE  /\ wpc' = "run" /\ FlagOf(work', d) =>
                             /\ work'.k = calls'[d]
                             /\ \A i \in 1 .. Len(ready') : ~FlagOf(ready'[i], d)
                      /\ \A i \in 1 .. Len(ready') : FlagOf(ready'[i], d) =>
                             /\ ready'[i].k = calls'[d]
                             /\ \A j \in 1 .. Len(ready') : FlagOf(ready'[j], d) => i = j
                      /\ pc'[d] = "flag" => inWait'[d]
                      /\ inWait'[d] /\ pc'[d] \in {"notify", "flag"} /\ flag'[d] =>
                             \E n \in 1 .. Len(executed') :
                                 executed'[n] = [by |-> d, k |-> calls'[d], kind |-> "flag"]
    BY DEF FlagInv, FlagOf
  <2> QED
    BY <1>3, <1>8, <1>9 DEF FlagInv
<1> QED
  BY <1>4, <1>5, <1>7, <1>10, <1>11

--------------------------------------------------------------------------------
(* Other steps of the threads. *)

\* A step that leaves the queues alone and neither begins nor ends a task keeps the order.
LEMMA SameQueues ==
  ASSUME IInv, UNCHANGED <<ready, work, executed, added>>,
         wpc' = wpc \/ (wpc' = "lock" /\ wpc \in {"cv", "spin"})
  PROVE  InOrder'
<1> USE DEF IInv
<1>1. wpc' = "run" <=> wpc = "run"
  OBVIOUS
<1> QED
  BY <1>1 DEF InOrder

\* The notification keeps the invariant.
LEMMA NotifyOneInv ==
  ASSUME IInv, NEW t \in Thread, NotifyOne(t)
  PROVE  IInv'
<1> USE DEF IInv
<1>1. /\ pc[t] = "notify"
      /\ wpc' = IF notify[t] /\ wpc = "cv" THEN "lock" ELSE wpc
      /\ UNCHANGED <<ready, waiting, work, notify, inWait, flag, calls, added, executed>>
  BY DEF NotifyOne
<1>2. /\ pc' = [pc EXCEPT ![t] = pc'[t]]
      /\ pc'[t] \in {"idle", "flag", "join"}
      /\ t = Owner => pc'[t] = "join"
      /\ t # Owner => pc'[t] = IF inWait[t] THEN "flag" ELSE "idle"
  <2> DEFINE to == CASE t = Owner -> "join"
                     [] t # Owner /\ inWait[t] -> "flag"
                     [] OTHER -> "idle"
  <2>1. /\ t = Owner => to = "join"
        /\ t # Owner => to = IF inWait[t] THEN "flag" ELSE "idle"
    <3>1. CASE t = Owner
      BY <3>1
    <3>2. CASE t # Owner /\ inWait[t]
      BY <3>2
    <3>3. CASE t # Owner /\ ~inWait[t]
      BY <3>3
    <3> QED
      BY <3>1, <3>2, <3>3
  <2>2. pc' = [pc EXCEPT ![t] = to]
    BY DEF NotifyOne
  <2> HIDE DEF to
  <2> QED
    BY <2>1, <2>2 DEF TypeOK
<1>3. /\ wpc' = wpc \/ (wpc' = "lock" /\ wpc = "cv")
      /\ wpc' = "run" <=> wpc = "run"
      /\ wpc' = "exit" <=> wpc = "exit"
      /\ wpc' = "cv" => wpc = "cv" /\ ~notify[t]
  BY <1>1
<1>4. TypeOK'
  <2>1. pc' \in [Thread -> {"idle", "notify", "flag", "join", "done"}]
    BY <1>2 DEF TypeOK
  <2>2. wpc' \in {"spin", "lock", "cv", "run", "exit"}
    BY <1>3 DEF TypeOK
  <2> QED
    BY <1>1, <2>1, <2>2 DEF TypeOK
<1>5. WorkerInv'
  BY <1>1, <1>3 DEF WorkerInv
<1>6. NoLostWakeup'
  BY <1>1, <1>2, <1>3 DEF NoLostWakeup, TypeOK
<1>7. InOrder'
  BY <1>1, <1>3, SameQueues
<1>8. pc'[Owner] = "idle" => pc[Owner] = "idle"
  BY <1>2 DEF TypeOK, Thread
<1>9. ShutdownInv'
  BY <1>1, <1>3, <1>8 DEF ShutdownInv
<1>10. FlagFrameAlive'
  BY <1>1, <1>2, <1>3, CallerAssumption DEF FlagFrameAlive, TypeOK, CallerAssumption, Thread
<1>11. FlagInv'
  BY <1>1, <1>2, <1>3, CallerAssumption DEF FlagInv, TypeOK, CallerAssumption, Thread
<1> QED
  BY <1>4, <1>5, <1>6, <1>7, <1>9, <1>10, <1>11

\* wait() returning keeps the invariant: its flag is set, so no task will set it.
LEMMA WaitReturnsInv ==
  ASSUME IInv, NEW c \in Caller, WaitReturns(c)
  PROVE  IInv'
<1> USE DEF IInv
<1>1. /\ pc[c] = "flag" /\ flag[c] /\ pc' = [pc EXCEPT ![c] = "idle"]
      /\ UNCHANGED <<ready, waiting, wpc, work, notify, inWait, flag, calls, added, executed>>
  BY DEF WaitReturns
<1>2. c \in Thread /\ Owner \in Thread /\ c # Owner
  BY CallerAssumption DEF Thread, CallerAssumption
<1>3. TypeOK'
  BY <1>1, <1>2 DEF TypeOK
<1>4. WorkerInv' /\ InOrder'
  BY <1>1 DEF WorkerInv, InOrder
<1>5. NoLostWakeup'
  BY <1>1, <1>2 DEF NoLostWakeup, TypeOK
<1>6. ShutdownInv'
  BY <1>1, <1>2 DEF ShutdownInv, TypeOK
<1>7. FlagFrameAlive'
  BY <1>1, <1>2 DEF FlagFrameAlive, TypeOK, Thread
<1>8. FlagInv'
  BY <1>1, <1>2 DEF FlagInv, TypeOK, Thread
<1> QED
  BY <1>3, <1>4, <1>5, <1>6, <1>7, <1>8

\* The join of the thread keeps the invariant.
LEMMA JoinThreadInv ==
  ASSUME IInv, JoinThread
  PROVE  IInv'
<1> USE DEF IInv
<1>1. /\ pc[Owner] = "join" /\ pc' = [pc EXCEPT ![Owner] = "done"]
      /\ UNCHANGED <<ready, waiting, wpc, work, notify, inWait, flag, calls, added, executed>>
  BY DEF JoinThread
<1>2. Owner \in Thread /\ \A c \in Caller : c \in Thread /\ c # Owner
  BY CallerAssumption DEF Thread, CallerAssumption
<1>3. TypeOK'
  BY <1>1, <1>2 DEF TypeOK
<1>4. WorkerInv' /\ InOrder'
  BY <1>1 DEF WorkerInv, InOrder
<1>5. NoLostWakeup'
  BY <1>1, <1>2 DEF NoLostWakeup, TypeOK
<1>6. ShutdownInv'
  BY <1>1, <1>2 DEF ShutdownInv, TypeOK
<1>7. FlagFrameAlive'
  BY <1>1, <1>2 DEF FlagFrameAlive, TypeOK
<1>8. FlagInv'
  BY <1>1, <1>2 DEF FlagInv, TypeOK
<1> QED
  BY <1>3, <1>4, <1>5, <1>6, <1>7, <1>8

--------------------------------------------------------------------------------
(* The worker's own steps. *)

\* Leaving the spin loop or waking up for no reason keeps the invariant.
LEMMA ToLockInv ==
  ASSUME IInv, SpinEnds \/ SpuriousWake
  PROVE  IInv'
<1> USE DEF IInv
<1>1. /\ wpc \in {"cv", "spin"} /\ wpc' = "lock"
      /\ UNCHANGED <<ready, waiting, work, pc, notify, inWait, flag, calls, added, executed>>
  BY DEF SpinEnds, SpuriousWake
<1>2. TypeOK'
  BY <1>1 DEF TypeOK
<1>3. WorkerInv' /\ NoLostWakeup'
  BY <1>1 DEF WorkerInv, NoLostWakeup
<1>4. InOrder'
  BY <1>1, SameQueues
<1>5. ShutdownInv' /\ FlagFrameAlive' /\ FlagInv'
  BY <1>1 DEF ShutdownInv, FlagFrameAlive, FlagInv
<1> QED
  BY <1>2, <1>3, <1>4, <1>5

\* dequeWork keeps the invariant.
LEMMA DequeWorkInv ==
  ASSUME IInv, DequeWork
  PROVE  IInv'
<1> USE DEF IInv
<1>1. /\ wpc = "lock"
      /\ UNCHANGED <<pc, notify, inWait, flag, calls, added, executed>>
  BY DEF DequeWork
<1>2. CASE ready = <<>> /\ waiting' = TRUE /\ wpc' = "cv" /\ UNCHANGED <<ready, work>>
  <2>1. TypeOK'
    BY <1>1, <1>2 DEF TypeOK
  <2>2. WorkerInv' /\ NoLostWakeup'
    BY <1>1, <1>2 DEF WorkerInv, NoLostWakeup
  <2>3. InOrder'
    BY <1>1, <1>2 DEF InOrder
  <2>4. ShutdownInv' /\ FlagFrameAlive' /\ FlagInv'
    BY <1>1, <1>2 DEF ShutdownInv, FlagFrameAlive, FlagInv
  <2> QED
    BY <2>1, <2>2, <2>3, <2>4
<1>3. CASE /\ ready # <<>> /\ waiting' = FALSE /\ work' = Head(ready)
           /\ ready' = Tail(ready) /\ wpc' = "run"
  <2>1. /\ work' = ready[1] /\ work' \in ExecRec /\ ready' \in Seq(ExecRec)
        /\ Len(ready) \in Nat /\ Len(ready) >= 1 /\ Len(ready') = Len(ready) - 1
        /\ \A i \in 1 .. Len(ready') : ready'[i] = ready[i + 1]
    BY <1>3, TakeShape, QueueShape
  <2>2. \A i \in 1 .. Len(ready') : i + 1 \in 1 .. Len(ready)
    BY <2>1
  <2>3. TypeOK'
    BY <1>1, <1>3, <2>1 DEF TypeOK
  <2>4. WorkerInv' /\ NoLostWakeup'
    BY <1>3, <2>1 DEF WorkerInv, NoLostWakeup
  <2>5. InOrder'
    <3>1. executed \in Seq(ExecRec) /\ ready \in Seq(ExecRec)
      BY DEF TypeOK
    <3>2. added = executed \o <<>> \o ready
      BY <1>1 DEF InOrder
    <3>3. added = executed \o <<Head(ready)>> \o Tail(ready)
      BY <1>3, <3>1, <3>2, HeadToMiddle
    <3> QED
      BY <1>1, <1>3, <3>3 DEF InOrder
  <2>6. ShutdownInv'
    <3>1. pc'[Owner] = "idle" => work' # ShutdownTask /\ \A i \in 1 .. Len(ready') : ready'[i] # ShutdownTask
      BY <1>1, <2>1, <2>2 DEF ShutdownInv
    <3>2. \A i \in 1 .. Len(ready') : ready'[i] = ShutdownTask => i = Len(ready')
      BY <2>1, <2>2 DEF ShutdownInv
    <3>3. work' = ShutdownTask => ready' = <<>>
      <4> SUFFICES ASSUME work' = ShutdownTask PROVE ready' = <<>>
        OBVIOUS
      <4>1. Len(ready) = 1
        BY <2>1 DEF ShutdownInv
      <4> QED
        BY <2>1, <4>1, EmptySeq
    <3> QED
      BY <1>3, <3>1, <3>2, <3>3 DEF ShutdownInv
  <2>7. FlagFrameAlive'
    BY <1>1, <1>3, <2>1, <2>2 DEF FlagFrameAlive
  <2>8. FlagInv'
    <3> SUFFICES ASSUME NEW d \in Caller
                 PROVE  /\ FlagOf(work', d) =>
                               /\ work'.k = calls[d]
                               /\ \A i \in 1 .. Len(ready') : ~FlagOf(ready'[i], d)
                        /\ \A i \in 1 .. Len(ready') : FlagOf(ready'[i], d) =>
                               /\ ready'[i].k = calls[d]
                               /\ \A j \in 1 .. Len(ready') : FlagOf(ready'[j], d) => i = j
      BY <1>1, <1>3 DEF FlagInv, FlagOf
    <3>1. \A i \in 1 .. Len(ready) : FlagOf(ready[i], d) =>
              /\ ready[i].k = calls[d]
              /\ \A j \in 1 .. Len(ready) : FlagOf(ready[j], d) => i = j
      BY DEF FlagInv
    <3>2. FlagOf(ready[1], d) =>
              ready[1].k = calls[d] /\ \A i \in 2 .. Len(ready) : ~FlagOf(ready[i], d)
      <4>1. 1 \in 1 .. Len(ready) /\ \A i \in 2 .. Len(ready) : i \in 1 .. Len(ready) /\ i # 1
        BY <2>1
      <4> QED
        BY <3>1, <4>1
    <3> QED
      BY <2>1, <2>2, <3>1, <3>2
  <2> QED
    BY <2>3, <2>4, <2>5, <2>6, <2>7, <2>8
<1> QED
  BY <1>2, <1>3 DEF DequeWork

\* The end of a task keeps the invariant: a flag task sets the flag of a live frame,
\* and the shutdown task leaves an empty queue.
LEMMA RunTaskInv ==
  ASSUME IInv, RunTask
  PROVE  IInv'
<1> USE DEF IInv
<1>1. /\ wpc = "run"
      /\ wpc' = IF work = ShutdownTask THEN "exit" ELSE "spin"
      /\ flag' = IF work.kind = "flag" THEN [flag EXCEPT ![work.by] = TRUE] ELSE flag
      /\ executed' = Append(executed, work) /\ work' = Idle
      /\ UNCHANGED <<ready, waiting, pc, notify, inWait, calls, added>>
  BY DEF RunTask
<1>2. work \in ExecRec
  BY <1>1 DEF WorkerInv
<1>3. /\ executed' \in Seq(ExecRec) /\ Len(executed) \in Nat
      /\ Len(executed') = Len(executed) + 1
      /\ \A n \in 1 .. Len(executed) : executed'[n] = executed[n]
      /\ executed'[Len(executed) + 1] = work
  BY <1>1, <1>2, AppendProperties, LenProperties DEF TypeOK
<1>4. flag' \in [Thread -> BOOLEAN]
  BY <1>1, <1>2 DEF TypeOK, ExecRec
<1>5. TypeOK'
  BY <1>1, <1>3, <1>4 DEF TypeOK
<1>6. WorkerInv' /\ NoLostWakeup'
  BY <1>1 DEF WorkerInv, NoLostWakeup
<1>7. InOrder'
  <2>1. executed \in Seq(ExecRec) /\ ready \in Seq(ExecRec)
    BY DEF TypeOK
  <2>2. added = executed \o <<work>> \o ready
    BY <1>1 DEF InOrder
  <2>3. added = Append(executed, work) \o <<>> \o ready
    BY <1>2, <2>1, <2>2, MiddleToFirst
  <2> QED
    BY <1>1, <2>3 DEF InOrder
<1>8. ShutdownInv'
  BY <1>1 DEF ShutdownInv
<1>9. ASSUME NEW d \in Caller
      PROVE  /\ FlagOf(work, d) => \A i \in 1 .. Len(ready) : ~FlagOf(ready[i], d)
             /\ ~FlagOf(work, d) => flag'[d] = flag[d]
  <2>1. d \in Thread
    BY DEF Thread
  <2> QED
    BY <1>1, <1>2, <2>1 DEF FlagInv, FlagOf, TypeOK, ExecRec
<1>10. FlagFrameAlive'
  BY <1>1, <1>9 DEF FlagFrameAlive, FlagOf
<1>11. FlagInv'
  <2> SUFFICES ASSUME NEW d \in Caller, inWait[d], pc[d] \in {"notify", "flag"}, flag'[d]
               PROVE  \E n \in 1 .. Len(executed') :
                          executed'[n] = [by |-> d, k |-> calls[d], kind |-> "flag"]
    BY <1>1 DEF FlagInv, FlagOf
  <2>1. CASE FlagOf(work, d)
    <3>1. work = [by |-> d, k |-> calls[d], kind |-> "flag"]
      BY <1>1, <1>2, <2>1 DEF FlagInv, FlagOf, ExecRec
    <3> QED
      BY <1>3, <3>1
  <2>2. CASE ~FlagOf(work, d)
    <3>1. PICK n \in 1 .. Len(executed) :
              executed[n] = [by |-> d, k |-> calls[d], kind |-> "flag"]
      BY <1>9, <2>2 DEF FlagInv
    <3> QED
      BY <1>3, <3>1
  <2> QED
    BY <2>1, <2>2
<1> QED
  BY <1>5, <1>6, <1>7, <1>8, <1>10, <1>11

--------------------------------------------------------------------------------
(* Theorems *)

\* The initial state satisfies the invariant.
LEMMA InitInv ==
  ASSUME Init
  PROVE  IInv
<1> USE DEF Init
<1>1. TypeOK
  <2>1. <<>> \in Seq(ExecRec)
    BY EmptySeq
  <2>2. 0 \in 0 .. MaxCalls
    BY CallerAssumption DEF CallerAssumption
  <2>3. calls \in [Thread -> 0 .. MaxCalls]
    BY <2>2
  <2>4. /\ pc \in [Thread -> {"idle", "notify", "flag", "join", "done"}]
        /\ notify \in [Thread -> BOOLEAN] /\ inWait \in [Thread -> BOOLEAN]
        /\ flag \in [Thread -> BOOLEAN]
    OBVIOUS
  <2> QED
    BY <2>1, <2>3, <2>4 DEF TypeOK
<1>2. InOrder
  <2>1. <<>> \o <<>> = <<>>
    BY EmptySeq, ConcatEmptySeq
  <2> QED
    BY <2>1 DEF InOrder
<1>3. Len(ready) = 0
  BY EmptySeq
<1>4. WorkerInv /\ NoLostWakeup /\ ShutdownInv /\ FlagFrameAlive
  BY <1>3 DEF WorkerInv, NoLostWakeup, ShutdownInv, FlagFrameAlive
<1>5. FlagInv
  <2>1. \A c \in Caller : pc[c] = "idle" /\ ~inWait[c]
    BY DEF Thread
  <2>2. wpc # "run" /\ 1 .. Len(ready) = {}
    BY <1>3
  <2> QED
    BY <2>1, <2>2 DEF FlagInv
<1> QED
  BY <1>1, <1>2, <1>4, <1>5 DEF IInv

\* A step that changes nothing keeps the invariant.
LEMMA StutterInv ==
  ASSUME IInv, UNCHANGED vars
  PROVE  IInv'
<1> USE DEF IInv, vars
<1>1. TypeOK' /\ WorkerInv' /\ NoLostWakeup' /\ InOrder'
  BY DEF TypeOK, WorkerInv, NoLostWakeup, InOrder
<1>2. ShutdownInv' /\ FlagFrameAlive' /\ FlagInv'
  BY DEF ShutdownInv, FlagFrameAlive, FlagInv, FlagOf
<1> QED
  BY <1>1, <1>2

\* The invariant of the worker and its callers is inductive.
THEOREM Invariance == Spec => []IInv
<1>1. Init => IInv
  BY InitInv
<1>2. IInv /\ [Next]_vars => IInv'
  <2> SUFFICES ASSUME IInv, [Next]_vars PROVE IInv'
    OBVIOUS
  <2>1. CASE \E c \in Caller : CallAddTask(c) \/ CallWait(c) \/ WaitReturns(c)
    BY <2>1, CallAddTaskInv, CallWaitInv, WaitReturnsInv
  <2>2. CASE \E t \in Thread : NotifyOne(t)
    BY <2>2, NotifyOneInv
  <2>3. CASE Shutdown
    BY <2>3, ShutdownStepInv
  <2>4. CASE JoinThread
    BY <2>4, JoinThreadInv
  <2>5. CASE SpinEnds \/ SpuriousWake
    BY <2>5, ToLockInv
  <2>6. CASE DequeWork
    BY <2>6, DequeWorkInv
  <2>7. CASE RunTask
    BY <2>7, RunTaskInv
  <2>8. CASE UNCHANGED vars
    BY <2>8, StutterInv
  <2> QED
    BY <2>1, <2>2, <2>3, <2>4, <2>5, <2>6, <2>7, <2>8 DEF Next, WorkerLoop, Finished
<1> QED
  BY <1>1, <1>2, PTL DEF Spec

\* Every variable of the worker and its callers keeps its type; in particular
\* dequeWork never takes a record from an empty vector.
THEOREM WorkerTypeCorrect == Spec => []TypeOK
<1>1. IInv => TypeOK
  BY DEF IInv
<1> QED
  BY <1>1, Invariance, PTL

\* For any number of callers, m_waiting loses no wake-up: a worker asleep over a task
\* is about to be notified.
THEOREM WakeupKept == Spec => []NoLostWakeup
<1>1. IInv => NoLostWakeup
  BY DEF IInv
<1> QED
  BY <1>1, Invariance, PTL

\* For any number of callers and calls, tasks run in the order in which addTask()
\* queued them, none lost and none run twice.
THEOREM FifoOrder == Spec => []InOrder
<1>1. IInv => InOrder
  BY DEF IInv
<1> QED
  BY <1>1, Invariance, PTL

\* The task of wait() never outlives the stack frame that holds its flag.
THEOREM FlagFrame == Spec => []FlagFrameAlive
<1>1. IInv => FlagFrameAlive
  BY DEF IInv
<1> QED
  BY <1>1, Invariance, PTL

\* The thread exits only when everything added has been run.
THEOREM ExitIsDrained == Spec => []ExitDrained
<1>1. IInv => ExitDrained
  BY DEF IInv, ShutdownInv, ExitDrained
<1> QED
  BY <1>1, Invariance, PTL

\* What has been executed is what was added first.
LEMMA ExecutedIsPrefix ==
  ASSUME IInv, NEW i \in 1 .. Len(executed)
  PROVE  added[i] = executed[i]
<1> USE DEF IInv
<1>1. executed \in Seq(ExecRec) /\ ready \in Seq(ExecRec) /\ Running \in Seq(ExecRec)
  BY RunningType DEF TypeOK
<1>2. added = (executed \o Running) \o ready
  BY DEF InOrder, Running
<1>3. /\ executed \o Running \in Seq(ExecRec)
      /\ Len(executed \o Running) = Len(executed) + Len(Running)
      /\ Len(executed) \in Nat /\ Len(Running) \in Nat /\ Len(ready) \in Nat
  BY <1>1, ConcatProperties, LenProperties
<1>4. (executed \o Running)[i] = executed[i]
  BY <1>1, <1>3, ConcatProperties
<1>5. ((executed \o Running) \o ready)[i] = (executed \o Running)[i]
  BY <1>1, <1>3, ConcatProperties
<1> QED
  BY <1>2, <1>4, <1>5

\* wait() returns only after everything added before its own task has been executed,
\* whatever other threads add meanwhile.
THEOREM WaitIsBarrier == Spec => WaitDrains
<1> DEFINE A == \A c \in Caller :
          pc[c] = "flag" /\ pc'[c] = "idle" =>
              \E n \in 1 .. Len(executed) :
                  /\ executed[n] = [by |-> c, k |-> calls[c], kind |-> "flag"]
                  /\ \A i \in 1 .. n : added[i] = executed[i]
<1>1. IInv /\ [Next]_vars => [A]_vars
  <2> SUFFICES ASSUME IInv, [Next]_vars, NEW c \in Caller, pc[c] = "flag", pc'[c] = "idle"
               PROVE  \E n \in 1 .. Len(executed) :
                        /\ executed[n] = [by |-> c, k |-> calls[c], kind |-> "flag"]
                        /\ \A i \in 1 .. n : added[i] = executed[i]
    OBVIOUS
  <2>0. c \in Thread /\ Owner \in Thread /\ c # Owner /\ pc \in [Thread -> {"idle", "notify", "flag", "join", "done"}]
    BY CallerAssumption DEF CallerAssumption, Thread, IInv, TypeOK
  <2>1. flag[c]
    <3>1. ASSUME NEW d \in Caller, CallAddTask(d) \/ CallWait(d) PROVE FALSE
      BY <2>0, <3>1 DEF CallAddTask, CallWait, AddTask, Thread
    <3>2. ASSUME NEW t \in Thread, NotifyOne(t) PROVE FALSE
      BY <2>0, <3>2 DEF NotifyOne
    <3>3. ASSUME Shutdown \/ JoinThread PROVE FALSE
      BY <2>0, <3>3 DEF Shutdown, JoinThread, AddTask
    <3>4. ASSUME WorkerLoop \/ SpuriousWake \/ UNCHANGED vars PROVE FALSE
      BY <3>4 DEF WorkerLoop, SpinEnds, DequeWork, RunTask, SpuriousWake, vars
    <3>5. PICK d \in Caller : WaitReturns(d)
      BY <3>1, <3>2, <3>3, <3>4 DEF Next, Finished
    <3> QED
      BY <2>0, <3>5 DEF WaitReturns, Thread
  <2>2. PICK n \in 1 .. Len(executed) :
            executed[n] = [by |-> c, k |-> calls[c], kind |-> "flag"]
    BY <2>1 DEF IInv, FlagInv
  <2>3. \A i \in 1 .. n : i \in 1 .. Len(executed)
    BY QueueShape DEF IInv
  <2> QED
    BY <2>2, <2>3, ExecutedIsPrefix
<1>2. WaitDrains <=> [][A]_vars
  BY DEF WaitDrains
<1> HIDE DEF A
<1> QED
  BY <1>1, <1>2, Invariance, PTL DEF Spec

\* Every step of the worker and its callers is a step of the abstract task queue, or
\* changes nothing there: the safety part of ImplementsTaskQueue.
THEOREM RefinesTaskQueue == Spec => TQ!QInit /\ [][TQ!QNext]_(TQ!qvars)
<1>1. Init => TQ!QInit
  BY DEF Init, TQ!QInit
<1>2. IInv /\ [Next]_vars => [TQ!QNext]_(TQ!qvars)
  <2> SUFFICES ASSUME IInv, [Next]_vars PROVE [TQ!QNext]_(TQ!qvars)
    OBVIOUS
  <2>1. CASE \E c \in Caller : CallAddTask(c) \/ CallWait(c)
    <3>1. PICK c \in Caller : CallAddTask(c) \/ CallWait(c)
      BY <2>1
    <3>2. c \in Thread /\ calls'[c] \in 0 .. MaxCalls
      BY <3>1, CallerAssumption DEF CallAddTask, CallWait, IInv, TypeOK, Thread, CallerAssumption
    <3>3. PICK kind \in {"task", "flag"} :
              ready' = Append(ready, [by |-> c, k |-> calls'[c], kind |-> kind])
      BY <3>1 DEF CallAddTask, CallWait, AddTask
    <3>4. [by |-> c, k |-> calls'[c], kind |-> kind] \in ExecRec
      BY <3>2, <3>3 DEF ExecRec
    <3>5. wpc' = wpc /\ work' = work
      BY <3>1 DEF CallAddTask, CallWait
    <3> QED
      BY <3>3, <3>4, <3>5 DEF TQ!QNext, TQ!Add
  <2>2. CASE Shutdown
    <3>1. ShutdownTask \in ExecRec
      BY CallerAssumption DEF ShutdownTask, ExecRec, Thread, CallerAssumption
    <3> QED
      BY <2>2, <3>1 DEF Shutdown, AddTask, TQ!QNext, TQ!Add
  <2>3. CASE \/ \E c \in Caller : WaitReturns(c)
             \/ \E t \in Thread : NotifyOne(t)
             \/ JoinThread \/ SpinEnds \/ SpuriousWake \/ UNCHANGED vars
    <3>1. /\ UNCHANGED <<ready, work>>
          /\ wpc' = wpc \/ (wpc' = "lock" /\ wpc \in {"cv", "spin"})
      BY <2>3 DEF WaitReturns, NotifyOne, JoinThread, SpinEnds, SpuriousWake, vars
    <3> QED
      BY <3>1 DEF TQ!qvars
  <2>4. CASE DequeWork
    <3>1. work = Idle
      BY <2>4 DEF DequeWork, IInv, WorkerInv
    <3>2. CASE ready = <<>> /\ wpc' = "cv" /\ UNCHANGED <<ready, work>>
      BY <2>4, <3>2 DEF DequeWork, TQ!qvars
    <3>3. CASE ready # <<>> /\ work' = Head(ready) /\ ready' = Tail(ready) /\ wpc' = "run"
      BY <2>4, <3>1, <3>3 DEF DequeWork, TQ!QNext, TQ!Begin
    <3> QED
      BY <2>4, <3>2, <3>3 DEF DequeWork
  <2>5. CASE RunTask
    <3>1. work # Idle
      BY <2>5, IdleAssumption DEF RunTask, IInv, WorkerInv, IdleAssumption
    <3> QED
      BY <2>5, <3>1 DEF RunTask, TQ!QNext, TQ!End
  <2> QED
    BY <2>1, <2>2, <2>3, <2>4, <2>5 DEF Next, WorkerLoop, Finished
<1> QED
  BY <1>1, <1>2, Invariance, PTL DEF Spec
================================================================================
