---------------------------- MODULE ExecGraphProofs ----------------------------
(***************************************************************************)
(* Proofs about ExecGraph, for every dependency graph and every static     *)
(* schedule that satisfies the assumptions of that module.                 *)
(***************************************************************************)
EXTENDS ExecGraph, FiniteSetTheorems, TLAPS

\* A thread function is the pair of its schedule and its number.
LEMMA FnPair ==
    /\ \A f \in Fn : /\ f = <<f[1], f[2]>>
                     /\ f[1] \in 1 .. NSched
                     /\ f[2] \in 1 .. NFuncs[f[1]]
                     /\ f[2] \in 1 .. NWorkers + 1
    /\ \A s \in 1 .. NSched : \A i \in 1 .. NFuncs[s] : <<s, i>> \in Fn
    /\ \A s \in 1 .. NSched : NFuncs[s] \in Nat /\ NFuncs[s] >= 1
BY ScheduleAssumption DEF Fn

\* Positions count from one.
LEMMA Positions ==
    \A m \in MTask : /\ FnOf[m] \in Fn
                     /\ Len(Body[FnOf[m]]) \in Nat
                     /\ PosOf[m] \in Nat
                     /\ PosOf[m] >= 1
                     /\ PosOf[m] <= Len(Body[FnOf[m]])
<1> TAKE m \in MTask
<1>1. FnOf[m] \in Fn /\ PosOf[m] \in 1 .. Len(Body[FnOf[m]])
  BY BodyAssumption DEF BodyAssumption
<1>2. Body[FnOf[m]] \in Seq(MTask)
  BY <1>1, BodyAssumption DEF BodyAssumption
<1>3. QED
  BY <1>1, <1>2

\* The current mtask of a busy thread is the one at its position.
LEMMA CurMTask ==
    ASSUME TypeOK, NEW q \in Proc, idx[q] \in 1 .. Len(Body[fn[q]])
    PROVE  /\ Cur(q) \in MTask
           /\ FnOf[Cur(q)] = fn[q]
           /\ PosOf[Cur(q)] = idx[q]
           /\ \A m \in MTask : FnOf[m] = fn[q] /\ PosOf[m] = idx[q] => m = Cur(q)
<1>1. fn[q] \in Fn /\ Body[fn[q]] \in Seq(MTask)
  BY BodyAssumption DEF TypeOK, BodyAssumption
<1>2. Cur(q) \in MTask
  BY <1>1 DEF Cur
<1>3. QED
  BY <1>1, <1>2, BodyAssumption DEF Cur, BodyAssumption

\* A thread is the main thread or a worker, never both.
LEMMA ProcSplit ==
    /\ Main \in Proc
    /\ \A q \in Proc : q = Main \/ q \in Worker
    /\ \A w \in Worker : w \in Proc /\ w # Main /\ w \in Nat
BY ScheduleAssumption DEF ScheduleAssumption, Proc, Worker, Main

\* No two threads are in the same function.
LEMMA OneThreadPerFunction ==
    ASSUME TypeOK, MainInv, WorkerInv,
           NEW q \in Proc, NEW r \in Proc, Busy(q), Busy(r), fn[q] = fn[r]
    PROVE  q = r
<1>1. \A w \in Worker : Busy(w) => fn[w] = <<sched, w>> /\ w < NFuncs[sched]
  BY DEF WorkerInv, Dispatched
<1>2. Busy(Main) => fn[Main] = <<sched, NFuncs[sched]>>
  BY DEF MainInv
<1>3. \A w \in Proc : w = Main \/ w \in Worker
  BY ProcSplit
<1>4. NFuncs[sched] \in Nat
  BY FnPair DEF TypeOK
<1>5. CASE q \in Worker /\ r \in Worker
  BY <1>1, <1>5
<1>6. CASE q = Main /\ r \in Worker
  BY <1>1, <1>2, <1>4, <1>6 DEF Worker
<1>7. CASE q \in Worker /\ r = Main
  BY <1>1, <1>2, <1>4, <1>7 DEF Worker
<1>8. QED
  BY <1>3, <1>5, <1>6, <1>7

\* The sets the counters count are finite.
LEMMA CrossFinite ==
    \A m \in MTask : /\ IsFiniteSet(CrossPreds(m))
                     /\ CrossThreadDependencies(m) \in Nat
BY GraphAssumption, FS_Subset, FS_CardinalityType DEF CrossPreds, CrossThreadDependencies

\* The signals an mtask has received are among those it can receive.
LEMMA SentFinite ==
    ASSUME TypeOK, NEW m \in MTask
    PROVE  /\ SentTo(m) \subseteq CrossPreds(m)
           /\ IsFiniteSet(SentTo(m))
           /\ Cardinality(SentTo(m)) \in 0 .. CrossThreadDependencies(m)
           /\ Cardinality(SentTo(m)) = CrossThreadDependencies(m) => SentTo(m) = CrossPreds(m)
<1>1. SentTo(m) \in SUBSET CrossPreds(m)
  BY DEF TypeOK, SentTo, CrossPreds
<1>2. QED
  BY <1>1, CrossFinite, FS_Subset, FS_CardinalityType DEF CrossThreadDependencies

\* A schedule of n functions has n function numbers.
LEMMA IntervalCard ==
    ASSUME NEW s \in 1 .. NSched
    PROVE  IsFiniteSet(1 .. NFuncs[s]) /\ Cardinality(1 .. NFuncs[s]) = NFuncs[s]
<1>1. NFuncs[s] \in Int /\ NFuncs[s] >= 1
  BY FnPair
<1>2. QED
  BY <1>1, FS_Interval

\* A schedule has no more functions over than it has functions.
LEMMA FinalsFinite ==
    ASSUME TypeOK, NEW s \in 1 .. NSched
    PROVE  /\ IsFiniteSet(FinalsSent(s))
           /\ Cardinality(FinalsSent(s)) \in 0 .. NFuncs[s]
           /\ Cardinality(FinalsSent(s)) = NFuncs[s] => FinalsSent(s) = 1 .. NFuncs[s]
<1>1. IsFiniteSet(1 .. NFuncs[s]) /\ Cardinality(1 .. NFuncs[s]) = NFuncs[s]
  BY IntervalCard
<1>2. FinalsSent(s) \in SUBSET (1 .. NFuncs[s])
  BY DEF FinalsSent
<1>3. QED
  BY <1>1, <1>2, FnPair, FS_Subset, FS_CardinalityType

--------------------------------------------------------------------------------
\* The initial state looks like the end of an odd evaluation.
LEMMA InitIInv == Init => IInv
<1> SUFFICES ASSUME Init PROVE IInv
  OBVIOUS
<1>0. 1 \in 1 .. NSched /\ <<1, 1>> \in Fn
  BY FnPair, ScheduleAssumption DEF ScheduleAssumption
<1>1. TypeOK
  <2>1. even \in BOOLEAN /\ ev \in [Proc -> BOOLEAN]
    BY DEF Init
  <2>2. depsDone \in [MTask -> Int] /\ finalDone \in [1 .. NSched -> Int]
    BY DEF Init
  <2>3. queue \in [Worker -> Seq(ExecRec)]
    BY DEF Init
  <2>4. pc \in [Proc -> {"idle", "dispatch", "wait", "body", "signal", "join"}]
    BY DEF Init
  <2>5. fn \in [Proc -> Fn] /\ idx \in [Proc -> Nat]
    BY <1>0 DEF Init
  <2>6. pend \in [Proc -> SUBSET MTask]
    BY DEF Init
  <2>7. QED
    BY <1>0, <2>1, <2>2, <2>3, <2>4, <2>5, <2>6 DEF Init, TypeOK
<1>2. MainInv
  BY FnPair, ScheduleAssumption DEF Init, MainInv, Busy, Main, Proc
<1>3. WorkerInv
  BY DEF Init, WorkerInv, Busy, Worker, Proc
<1>4. ProgressInv
  BY BodyAssumption, GraphAssumption
     DEF Init, ProgressInv, Busy, CrossSuccs, CrossEdge
<1>5. CounterInv
  <2>1. \A m \in MTask : SentTo(m) = CrossPreds(m)
    BY DEF Init, SentTo, CrossPreds
  <2>2. \A s \in 1 .. NSched : FinalsSent(s) = 1 .. NFuncs[s]
    BY FnPair DEF Init, FinalsSent
  <2>3. \A s \in 1 .. NSched : Cardinality(1 .. NFuncs[s]) = NFuncs[s]
    BY IntervalCard
  <2>4. QED
    BY <2>1, <2>2, <2>3, CrossFinite, FnPair
       DEF Init, CounterInv, CrossThreadDependencies
<1>6. DependenciesRespected
  BY GraphAssumption DEF Init, DependenciesRespected, InBody
<1>7. QED
  BY <1>1, <1>2, <1>3, <1>4, <1>5, <1>6 DEF IInv
--------------------------------------------------------------------------------
(* Steps of the main thread. *)

\* Flipping the cycle flag turns every counter that is done into one that has
\* received nothing, so a new evaluation starts from a consistent state.
LEMMA StartEvalIInv == IInv /\ StartEval => IInv'
<1> SUFFICES ASSUME IInv, StartEval PROVE IInv'
  OBVIOUS
<1> USE DEF IInv
<1>0. /\ \A w \in Worker : pc[w] = "idle" /\ queue[w] = <<>>
      /\ pc'[Main] = "dispatch"
      /\ \A w \in Worker : pc'[w] = pc[w]
      /\ pc' \in [Proc -> {"idle", "dispatch", "wait", "body", "signal", "join"}]
  <2>1. pc[Main] = "idle" /\ pc' = [pc EXCEPT ![Main] = "dispatch"]
    BY DEF StartEval
  <2>2. \A w \in Worker : pc[w] = "idle" /\ queue[w] = <<>>
    BY <2>1 DEF WorkerInv, Dispatched, Busy
  <2>3. QED
    BY <2>1, <2>2, ProcSplit DEF TypeOK
<1>1. 1 \in 1 .. NSched /\ NFuncs[1] \in Nat /\ NFuncs[1] >= 1
  BY FnPair, ScheduleAssumption DEF ScheduleAssumption
<1>2. TypeOK'
  BY <1>0, <1>1 DEF StartEval, TypeOK
<1>3. MainInv'
  BY <1>0, <1>1, FnPair DEF StartEval, MainInv, TypeOK, Busy
<1>4. WorkerInv'
  BY <1>0 DEF StartEval, WorkerInv, TypeOK, Busy, Dispatched
<1>5. \A q \in Proc : ~Busy(q)' /\ pc'[q] # "body"
  BY <1>0, ProcSplit DEF Busy
<1>6. ProgressInv'
  BY <1>5 DEF StartEval, ProgressInv, Busy
<1>7. CounterInv'
  <2>1. \A m \in MTask : SentTo(m) = CrossPreds(m) /\ SentTo(m)' = {}
    BY BodyAssumption
       DEF BodyAssumption, StartEval, MainInv, ProgressInv, TypeOK, SentTo, CrossPreds, CrossSuccs, CrossEdge
  <2>2. \A s \in 1 .. NSched : FinalsSent(s) = 1 .. NFuncs[s] /\ FinalsSent(s)' = {}
    BY FnPair DEF StartEval, MainInv, FinalsSent
  <2>3. \A s \in 1 .. NSched : Cardinality(1 .. NFuncs[s]) = NFuncs[s]
    BY IntervalCard
  <2>4. Cardinality({}) = 0
    BY FS_EmptySet
  <2>5. \A m \in MTask : depsDone'[m] = depsDone[m] /\ finalDone' = finalDone
    BY DEF StartEval
  <2>6. even' = ~even /\ even \in BOOLEAN
    BY DEF StartEval, TypeOK
  <2>7. \A m \in MTask : depsDone'[m] = IF even THEN CrossThreadDependencies(m) ELSE 0
    BY <2>1, <2>5, CrossFinite DEF CounterInv, CrossThreadDependencies
  <2>8. \A s \in 1 .. NSched : finalDone'[s] = IF even THEN NFuncs[s] ELSE 0
    BY <2>2, <2>3, FnPair DEF CounterInv, StartEval
  <2>9. \A m \in MTask : Cardinality(SentTo(m)') = 0
    BY <2>1, <2>4
  <2>10. \A s \in 1 .. NSched : Cardinality(FinalsSent(s)') = 0
    BY <2>2, <2>4
  <2>11. CASE even
    <3>1. ~even'
      BY <2>6, <2>11
    <3>2. QED
      BY <2>7, <2>8, <2>9, <2>10, <2>11, <3>1, CrossFinite, FnPair
         DEF CounterInv
  <2>12. CASE ~even
    <3>1. even'
      BY <2>6, <2>12
    <3>2. QED
      BY <2>7, <2>8, <2>9, <2>10, <2>12, <3>1, CrossFinite, FnPair
         DEF CounterInv
  <2>13. QED
    BY <2>6, <2>11, <2>12
<1>8. DependenciesRespected'
  BY <1>5 DEF StartEval, DependenciesRespected, InBody
<1>9. QED
  BY <1>2, <1>3, <1>4, <1>6, <1>7, <1>8

\* A function is handed only to an idle worker with an empty queue.
LEMMA AddTaskIInv == IInv /\ AddTask => IInv'
<1> SUFFICES ASSUME IInv, AddTask PROVE IInv'
  OBVIOUS
<1> USE DEF IInv
<1>0. /\ <<sched, disp>> \in Fn
      /\ disp \in Worker
      /\ NFuncs[sched] \in Nat
      /\ <<sched, disp>> \notin sentFinal
      /\ queue[disp] = <<>> /\ pc[disp] = "idle"
  <2>1. disp \in 1 .. NFuncs[sched] /\ sched \in 1 .. NSched /\ NFuncs[sched] \in Nat
    BY FnPair DEF TypeOK, MainInv
  <2>2. <<sched, disp>> \in Fn /\ disp \in Worker
    BY <2>1, FnPair, ScheduleAssumption DEF ScheduleAssumption, AddTask, Worker
  <2>3. QED
    BY <2>1, <2>2 DEF AddTask, TypeOK, MainInv, WorkerInv, Dispatched, Busy
<1>1. TypeOK'
  <2>1. [fn |-> <<sched, disp>>, even |-> even] \in ExecRec
    BY <1>0 DEF TypeOK, ExecRec
  <2>2. queue' \in [Worker -> Seq(ExecRec)] /\ disp' \in Nat
    BY <1>0, <2>1 DEF AddTask, TypeOK
  <2>3. QED
    BY <2>2 DEF AddTask, TypeOK
<1>2. MainInv'
  <2>1. disp' \in 1 .. NFuncs[sched]
    BY <1>0, FnPair DEF AddTask, MainInv, TypeOK
  <2>2. disp' >= disp
    BY DEF AddTask, TypeOK
  <2>3. \A f \in Fn : f[1] = sched /\ f[2] >= disp' => f \notin sentFinal
    BY <2>2, FnPair DEF AddTask, MainInv, TypeOK
  <2>4. QED
    BY <2>1, <2>3 DEF AddTask, MainInv, Busy
<1>3. WorkerInv'
  <2>1. queue' = [queue EXCEPT ![disp] = <<[fn |-> <<sched, disp>>, even |-> even]>>]
    BY <1>0 DEF AddTask, TypeOK
  <2>2. ASSUME NEW w \in Worker, Dispatched(w) PROVE Dispatched(w)'
    BY <1>0, <2>2 DEF AddTask, Dispatched, TypeOK, Worker
  <2>3. disp < NFuncs[sched]' /\ disp < disp' /\ pc'[Main] = "dispatch"
    BY <1>0 DEF AddTask, TypeOK
  <2>4. ASSUME NEW w \in Worker, w # disp
        PROVE queue'[w] = queue[w]
    BY <2>1, <2>4 DEF TypeOK
  <2>5. queue'[disp] = <<[fn |-> <<sched, disp>>, even |-> even]>>
    BY <1>0, <2>1 DEF TypeOK
  <2>6. ASSUME NEW w \in Worker, w # disp
        PROVE  /\ pc'[w] \in {"idle", "wait", "body", "signal"}
               /\ queue'[w] # <<>> => /\ queue'[w] = <<[fn |-> <<sched', w>>, even |-> even']>>
                                      /\ pc'[w] = "idle"
                                      /\ Dispatched(w)'
                                      /\ <<sched', w>> \notin sentFinal'
               /\ Busy(w)' => /\ fn'[w] = <<sched', w>>
                              /\ ev'[w] = even'
                              /\ Dispatched(w)'
                              /\ fn'[w] \notin sentFinal'
    BY <2>2, <2>4, <2>6 DEF AddTask, WorkerInv, Busy
  <2>7. QED
    BY <1>0, <2>2, <2>3, <2>5, <2>6 DEF AddTask, WorkerInv, Busy, Dispatched
<1>4. ProgressInv'
  BY DEF AddTask, ProgressInv, Busy, Cur
<1>5. CounterInv'
  BY DEF AddTask, CounterInv, SentTo, FinalsSent
<1>6. DependenciesRespected'
  BY DEF AddTask, DependenciesRespected, InBody, Cur
<1>7. QED
  BY <1>1, <1>2, <1>3, <1>4, <1>5, <1>6

\* The main thread enters the last function of the schedule.
LEMMA CallLastIInv == IInv /\ CallLast => IInv'
<1> SUFFICES ASSUME IInv, CallLast PROVE IInv'
  OBVIOUS
<1> USE DEF IInv
<1>0. /\ <<sched, disp>> \in Fn
      /\ NFuncs[sched] \in Nat
      /\ <<sched, disp>> \notin sentFinal
      /\ disp = NFuncs[sched]
  BY FnPair DEF TypeOK, MainInv, CallLast
<1>1. /\ pc' = [pc EXCEPT ![Main] = "wait"]
      /\ fn' = [fn EXCEPT ![Main] = <<sched, disp>>]
      /\ ev' = [ev EXCEPT ![Main] = even]
      /\ idx' = [idx EXCEPT ![Main] = 1]
      /\ pc[Main] = "dispatch"
  BY DEF CallLast, Enter
<1>2. /\ pc'[Main] = "wait" /\ fn'[Main] = <<sched, disp>> /\ ev'[Main] = even /\ idx'[Main] = 1
      /\ \A w \in Worker : /\ pc'[w] = pc[w] /\ fn'[w] = fn[w]
                           /\ ev'[w] = ev[w] /\ idx'[w] = idx[w]
  BY <1>1, ProcSplit DEF TypeOK
<1>3. TypeOK'
  <2>1. pc' \in [Proc -> {"idle", "dispatch", "wait", "body", "signal", "join"}]
    BY <1>1 DEF TypeOK
  <2>2. fn' \in [Proc -> Fn] /\ idx' \in [Proc -> Nat]
    BY <1>0, <1>1 DEF TypeOK
  <2>3. ev' \in [Proc -> BOOLEAN]
    BY <1>1 DEF TypeOK
  <2>4. QED
    BY <2>1, <2>2, <2>3 DEF CallLast, TypeOK
<1>4. MainInv'
  BY <1>0, <1>1, <1>2 DEF CallLast, MainInv, Busy
<1>5. WorkerInv'
  <2>1. \A w \in Worker : Dispatched(w) => Dispatched(w)'
    BY <1>2 DEF CallLast, Dispatched
  <2>2. \A w \in Worker : Busy(w)' <=> Busy(w)
    BY <1>2 DEF Busy
  <2>3. QED
    BY <1>2, <2>1, <2>2 DEF CallLast, WorkerInv
<1>6. \A q \in Proc : q # Main => Cur(q)' = Cur(q) /\ (Busy(q)' <=> Busy(q))
  BY <1>2, ProcSplit DEF Cur, Busy
<1>7. \A m \in MTask : FnOf[m] = <<sched, disp>> => m \notin ran /\ PosOf[m] >= 1
  <2>1. ASSUME NEW q \in Worker, Busy(q) PROVE fn[q] # <<sched, disp>>
    <3>1. fn[q] = <<sched, q>> /\ q < disp
      BY <1>0, <2>1 DEF WorkerInv, Dispatched
    <3>2. QED
      BY <1>0, <3>1, ProcSplit DEF TypeOK
  <2>2. ~Busy(Main)
    BY <1>1 DEF Busy
  <2>3. \A m \in MTask : FnOf[m] = <<sched, disp>> => m \notin ran
    BY <1>0, <2>1, <2>2, ProcSplit DEF ProgressInv
  <2>4. QED
    BY <2>3, Positions
<1>8. ProgressInv'
  <2>1. \A m \in MTask : FnOf[m] \in sentFinal' =>
           m \in ran' /\ \A n \in CrossSuccs(m) : <<m, n>> \in sent'
    BY DEF ProgressInv, CallLast
  <2>2. \A m \in MTask : m \in ran' =>
           FnOf[m] \in sentFinal' \/ \E q \in Proc : Busy(q)' /\ fn'[q] = FnOf[m]
    BY <1>1, <1>2, <1>6, ProcSplit DEF ProgressInv, CallLast, Busy
  <2>3. idx'[Main] \in 1 .. Len(Body[fn'[Main]])
    BY <1>0, <1>2, BodyAssumption DEF BodyAssumption
  <2>4. ASSUME NEW q \in Proc, Busy(q)'
        PROVE  /\ idx'[q] \in 1 .. Len(Body[fn'[q]])
               /\ \A m \in MTask : FnOf[m] = fn'[q] =>
                  /\ m \in ran' <=> \/ PosOf[m] < idx'[q]
                                    \/ PosOf[m] = idx'[q] /\ pc'[q] = "signal"
                  /\ PosOf[m] < idx'[q] => \A n \in CrossSuccs(m) : <<m, n>> \in sent'
    <3>1. CASE q = Main
      BY <1>2, <1>7, <2>3, <3>1, Positions DEF CallLast
    <3>2. CASE q # Main
      BY <1>2, <1>6, <2>4, <3>2, ProcSplit DEF CallLast, ProgressInv
    <3>3. QED
      BY <3>1, <3>2
  <2>5. \A q \in Proc : pc'[q] = "signal" =>
           /\ pend'[q] \subseteq CrossSuccs(Cur(q)')
           /\ \A n \in CrossSuccs(Cur(q)') : n \in pend'[q] <=> <<Cur(q)', n>> \notin sent'
    BY <1>2, <1>6, ProcSplit DEF CallLast, ProgressInv
  <2>6. \A e \in sent' : e[1] \in ran'
    BY DEF CallLast, ProgressInv
  <2>7. QED
    BY <2>1, <2>2, <2>4, <2>5, <2>6 DEF ProgressInv, CrossSuccs
<1>9. CounterInv'
  BY DEF CallLast, CounterInv, SentTo, FinalsSent
<1>10. DependenciesRespected'
  <2>1. \A m \in MTask : InBody(m)' => InBody(m)
    BY <1>2, <1>6, ProcSplit DEF InBody
  <2>2. QED
    BY <2>1, GraphAssumption DEF GraphAssumption, CallLast, DependenciesRespected
<1>11. QED
  BY <1>3, <1>4, <1>5, <1>8, <1>9, <1>10

\* When the final vertex is done every function of the schedule is over.
LEMMA JoinIInv == IInv /\ Join => IInv'
<1> SUFFICES ASSUME IInv, Join PROVE IInv'
  OBVIOUS
<1> USE DEF IInv
<1>0. sched \in 1 .. NSched /\ NFuncs[sched] \in Nat /\ NFuncs[sched] >= 1
  BY FnPair DEF TypeOK
<1>1. \A f \in Fn : f[1] <= sched => f \in sentFinal
  <2>1. Cardinality(FinalsSent(sched)) = NFuncs[sched]
    <3>1. CASE even
      BY <1>0, <3>1 DEF Join, CounterInv, Target
    <3>2. CASE ~even
      BY <1>0, <3>2, FinalsFinite DEF Join, CounterInv, Target
    <3>3. QED
      BY <3>1, <3>2
  <2>2. FinalsSent(sched) = 1 .. NFuncs[sched]
    BY <1>0, <2>1, FinalsFinite
  <2>3. \A f \in Fn : f[1] = sched => f \in sentFinal
    BY <2>2, FnPair DEF FinalsSent
  <2>4. \A f \in Fn : f[1] < sched => f \in sentFinal
    BY DEF Join, MainInv
  <2>5. QED
    BY <1>0, <2>3, <2>4, FnPair
<1>2. \A w \in Worker : pc[w] = "idle" /\ queue[w] = <<>>
  <2> TAKE w \in Worker
  <2>1. Dispatched(w) => <<sched, w>> \in Fn
    BY <1>0, FnPair DEF Dispatched, Worker
  <2>2. Dispatched(w) => <<sched, w>> \in sentFinal
    BY <1>0, <1>1, <2>1
  <2>3. QED
    BY <2>2 DEF WorkerInv, Busy
<1>3. /\ pc' \in [Proc -> {"idle", "dispatch", "wait", "body", "signal", "join"}]
      /\ pc'[Main] \in {"idle", "dispatch"}
      /\ \A w \in Worker : pc'[w] = "idle"
  BY <1>2, ProcSplit DEF Join, TypeOK
<1>4. \A q \in Proc : ~Busy(q) /\ ~Busy(q)' /\ pc'[q] # "body" /\ pc'[q] # "signal"
  BY <1>2, <1>3, ProcSplit DEF Busy, Join
<1>5. sched' \in 1 .. NSched /\ NFuncs[sched'] \in Nat /\ NFuncs[sched'] >= 1 /\ disp' \in Nat
  BY <1>0, FnPair, ScheduleAssumption DEF ScheduleAssumption, Join, TypeOK
<1>6. TypeOK'
  BY <1>3, <1>5 DEF Join, TypeOK
<1>7. MainInv'
  <2>1. CASE sched = NSched
    <3>1. sentFinal = Fn
      <4>1. \A f \in Fn : f[1] <= sched
        BY <1>0, <2>1, FnPair
      <4>2. QED
        BY <1>1, <4>1 DEF TypeOK
    <3>2. pc'[Main] = "idle" /\ sched' = sched /\ disp' = disp
      BY <2>1, ProcSplit, ScheduleAssumption DEF ScheduleAssumption, Join, TypeOK
    <3>3. QED
      BY <3>1, <3>2 DEF Join, MainInv, Busy
  <2>2. CASE sched # NSched
    <3>1. pc'[Main] = "dispatch" /\ sched' = sched + 1 /\ disp' = 1
      BY <2>2, ProcSplit DEF Join, TypeOK
    <3>2. \A f \in Fn : f[1] < sched + 1 => f \in sentFinal
      BY <1>0, <1>1, FnPair
    <3>3. \A f \in Fn : f[1] >= sched + 1 => f \notin sentFinal
      BY <1>0, FnPair DEF Join, MainInv
    <3>4. sentFinal' = sentFinal
      BY DEF Join
    <3>5. disp' \in 1 .. NFuncs[sched'] /\ ~Busy(Main)'
      BY <1>5, <3>1 DEF Busy
    <3>6. \A f \in Fn : /\ f[1] < sched' => f \in sentFinal'
                        /\ f[1] > sched' => f \notin sentFinal'
                        /\ f[1] = sched' => f \notin sentFinal'
      BY <1>0, <3>1, <3>2, <3>3, <3>4, FnPair
    <3>7. QED
      BY <3>1, <3>5, <3>6 DEF MainInv
  <2>3. QED
    BY <2>1, <2>2
<1>8. WorkerInv'
  BY <1>2, <1>3 DEF Join, WorkerInv, Busy
<1>9. ProgressInv'
  BY <1>4 DEF Join, ProgressInv
<1>10. CounterInv'
  BY DEF Join, CounterInv, SentTo, FinalsSent
<1>11. DependenciesRespected'
  BY <1>4 DEF Join, DependenciesRespected, InBody
<1>12. QED
  BY <1>6, <1>7, <1>8, <1>9, <1>10, <1>11
--------------------------------------------------------------------------------
(* Steps of any thread inside its function. *)

\* The thread functions a busy thread can be in.
LEMMA BusyFacts ==
    ASSUME IInv, NEW q \in Proc, Busy(q)
    PROVE  /\ fn[q] \in Fn /\ fn[q][1] = sched /\ ev[q] = even
           /\ fn[q] \notin sentFinal
           /\ idx[q] \in 1 .. Len(Body[fn[q]])
           /\ pc[Main] # "idle"
           /\ q # Main => Dispatched(q) /\ fn[q] = <<sched, q>> /\ queue[q] = <<>>
           /\ q = Main => fn[q] = <<sched, NFuncs[sched]>>
<1>0. fn[q] \in Fn /\ idx[q] \in 1 .. Len(Body[fn[q]])
  BY DEF IInv, TypeOK, ProgressInv
<1>1. CASE q = Main
  <2>1. /\ fn[q] = <<sched, NFuncs[sched]>> /\ ev[q] = even /\ fn[q] \notin sentFinal
        /\ pc[Main] # "idle"
    BY <1>1 DEF IInv, MainInv, Busy
  <2>2. fn[q][1] = sched
    BY <2>1
  <2>3. QED
    BY <1>0, <1>1, <2>1, <2>2
<1>2. CASE q \in Worker
  <2>1. /\ fn[q] = <<sched, q>> /\ ev[q] = even /\ fn[q] \notin sentFinal /\ Dispatched(q)
        /\ queue[q] # <<>> => pc[q] = "idle"
    BY <1>2 DEF IInv, WorkerInv
  <2>2. queue[q] = <<>> /\ pc[Main] # "idle" /\ fn[q][1] = sched
    BY <2>1 DEF Busy, Dispatched
  <2>3. QED
    BY <1>0, <1>2, <2>1, <2>2, ProcSplit
<1>3. QED
  BY <1>1, <1>2, ProcSplit

\* Between the call and the return of its function a thread moves through
\* "wait", "body" and "signal" and leaves the threads' bookkeeping alone.
LEMMA InsideFunction ==
    ASSUME IInv, NEW q \in Proc, Busy(q), NEW p \in {"wait", "body", "signal"},
           pc' = [pc EXCEPT ![q] = p],
           UNCHANGED <<even, finalDone, queue, fn, ev, sched, disp, sentFinal>>
    PROVE  /\ pc' \in [Proc -> {"idle", "dispatch", "wait", "body", "signal", "join"}]
           /\ pc'[q] = p
           /\ \A r \in Proc : r # q => pc'[r] = pc[r]
           /\ \A r \in Proc : Busy(r)' <=> Busy(r)
           /\ MainInv'
           /\ WorkerInv'
<1> USE DEF IInv
<1>1. pc' \in [Proc -> {"idle", "dispatch", "wait", "body", "signal", "join"}]
  BY DEF TypeOK
<1>2. pc'[q] = p /\ \A r \in Proc : r # q => pc'[r] = pc[r]
  BY DEF TypeOK
<1>3. \A r \in Proc : Busy(r)' <=> Busy(r)
  BY <1>2 DEF Busy
<1>4. MainInv'
  BY <1>2, <1>3, ProcSplit DEF MainInv, Busy
<1>5. \A w \in Worker : Dispatched(w)' <=> Dispatched(w)
  BY <1>2, ProcSplit DEF Dispatched, Busy
<1>6. ASSUME NEW w \in Worker
      PROVE  /\ pc'[w] \in {"idle", "wait", "body", "signal"}
             /\ queue[w] # <<>> => pc'[w] = "idle"
  BY <1>2, ProcSplit DEF WorkerInv, Busy
<1>7. WorkerInv'
  BY <1>3, <1>5, <1>6, ProcSplit DEF WorkerInv
<1>8. QED
  BY <1>1, <1>2, <1>3, <1>4, <1>7

\* A body starts only after all the mtasks it depends on have run.
LEMMA WaitIInv ==
    ASSUME IInv, NEW q \in Proc, WaitUntilUpstreamDone(q) PROVE IInv'
<1> USE DEF IInv
<1>0. Busy(q) /\ pc' = [pc EXCEPT ![q] = "body"]
  BY DEF WaitUntilUpstreamDone, Busy
<1>1. /\ pc' \in [Proc -> {"idle", "dispatch", "wait", "body", "signal", "join"}]
      /\ pc'[q] = "body"
      /\ \A r \in Proc : r # q => pc'[r] = pc[r]
      /\ \A r \in Proc : Busy(r)' <=> Busy(r)
      /\ MainInv'
      /\ WorkerInv'
  BY <1>0, InsideFunction DEF WaitUntilUpstreamDone
<1>2. TypeOK'
  BY <1>1 DEF WaitUntilUpstreamDone, TypeOK
<1>3. /\ fn[q] \in Fn /\ fn[q][1] = sched /\ ev[q] = even /\ pc[Main] # "idle"
      /\ idx[q] \in 1 .. Len(Body[fn[q]])
  BY <1>0, BusyFacts
<1>4. /\ Cur(q) \in MTask /\ FnOf[Cur(q)] = fn[q] /\ PosOf[Cur(q)] = idx[q]
  BY <1>3, CurMTask
<1>5. \A p \in CrossPreds(Cur(q)) : <<p, Cur(q)>> \in sent
  <2>1. CASE CrossThreadDependencies(Cur(q)) = 0
    BY <1>4, <2>1, CrossFinite, FS_EmptySet DEF CrossThreadDependencies
  <2>2. CASE depsDone[Cur(q)] = Target(CrossThreadDependencies(Cur(q)), even)
    <3>1. Cardinality(SentTo(Cur(q))) = CrossThreadDependencies(Cur(q))
      <4>1. CASE even
        BY <1>4, <2>2, <4>1 DEF CounterInv, Target
      <4>2. CASE ~even
        BY <1>4, <2>2, <4>2, SentFinite, CrossFinite DEF CounterInv, Target
      <4>3. QED
        BY <4>1, <4>2
    <3>2. QED
      BY <1>4, <3>1, SentFinite DEF SentTo
  <2>3. QED
    BY <1>3, <2>1, <2>2 DEF WaitUntilUpstreamDone
<1>6. ProgressInv'
  BY <1>1, <1>0 DEF WaitUntilUpstreamDone, ProgressInv, Cur
<1>7. CounterInv'
  BY DEF WaitUntilUpstreamDone, CounterInv, SentTo, FinalsSent
<1>8. Cur(q) \notin ran
  BY <1>0, <1>3, <1>4 DEF ProgressInv, WaitUntilUpstreamDone
<1>9. \A e \in Edge : e[2] = Cur(q) => e[1] \in ran
  <2> TAKE e \in Edge
  <2> HAVE e[2] = Cur(q)
  <2>1. e[1] \in MTask /\ e = <<e[1], e[2]>>
    BY GraphAssumption DEF GraphAssumption
  <2>2. FnOf[e[1]][1] <= sched /\ (FnOf[e[1]] = fn[q] => PosOf[e[1]] < idx[q])
    BY <1>3, <1>4, <2>1, OrderAssumption DEF OrderAssumption
  <2>3. CASE FnOf[e[1]] = fn[q]
    BY <1>0, <2>1, <2>2, <2>3 DEF ProgressInv
  <2>4. CASE FnOf[e[1]] # fn[q] /\ FnOf[e[1]][1] = sched
    <3>1. e \in CrossEdge
      BY <1>3, <1>4, <2>4 DEF CrossEdge
    <3>2. QED
      BY <1>5, <2>1, <3>1 DEF CrossPreds, ProgressInv
  <2>5. CASE FnOf[e[1]][1] # sched
    <3>1. FnOf[e[1]] \in Fn /\ FnOf[e[1]][1] < sched
      BY <2>1, <2>2, <2>5, Positions, FnPair DEF TypeOK
    <3>2. QED
      BY <1>3, <2>1, <3>1 DEF MainInv, ProgressInv
  <2>6. QED
    BY <2>3, <2>4, <2>5
<1>10. DependenciesRespected'
  <2>1. \A m \in MTask : InBody(m)' => InBody(m) \/ m = Cur(q)
    BY <1>1 DEF InBody, WaitUntilUpstreamDone, Cur
  <2>2. ran' = ran
    BY DEF WaitUntilUpstreamDone
  <2>3. \A e \in Edge : e[2] \in MTask
    BY GraphAssumption DEF GraphAssumption
  <2>4. QED
    BY <1>8, <1>9, <2>1, <2>2, <2>3 DEF DependenciesRespected
<1>11. QED
  BY <1>1, <1>2, <1>6, <1>7, <1>10

\* The end of a body leaves exactly its cross-thread successors to signal.
LEMMA EndBodyIInv ==
    ASSUME IInv, NEW q \in Proc, EndBody(q) PROVE IInv'
<1> USE DEF IInv
<1>0. Busy(q) /\ pc[q] = "body" /\ pc' = [pc EXCEPT ![q] = "signal"]
  BY DEF EndBody, Busy
<1>1. /\ pc' \in [Proc -> {"idle", "dispatch", "wait", "body", "signal", "join"}]
      /\ pc'[q] = "signal"
      /\ \A r \in Proc : r # q => pc'[r] = pc[r]
      /\ \A r \in Proc : Busy(r)' <=> Busy(r)
      /\ MainInv'
      /\ WorkerInv'
  BY <1>0, InsideFunction DEF EndBody
<1>2. /\ fn[q] \in Fn /\ fn[q] \notin sentFinal
      /\ idx[q] \in 1 .. Len(Body[fn[q]])
  BY <1>0, BusyFacts
<1>3. /\ Cur(q) \in MTask /\ FnOf[Cur(q)] = fn[q] /\ PosOf[Cur(q)] = idx[q]
      /\ \A m \in MTask : FnOf[m] = fn[q] /\ PosOf[m] = idx[q] => m = Cur(q)
  BY <1>2, CurMTask
<1>4. /\ pend'[q] = CrossSuccs(Cur(q))
      /\ \A r \in Proc : r # q => pend'[r] = pend[r]
      /\ pend' \in [Proc -> SUBSET MTask]
  BY DEF EndBody, TypeOK, CrossSuccs
<1>5. /\ ran' = ran \cup {Cur(q)} /\ sent' = sent /\ sentFinal' = sentFinal
      /\ fn' = fn /\ idx' = idx
      /\ \A r \in Proc : Cur(r)' = Cur(r)
  BY DEF EndBody, Cur
<1>6. TypeOK'
  BY <1>1, <1>3, <1>4, <1>5 DEF EndBody, TypeOK
<1>7. \A r \in Proc : Busy(r) /\ r # q => fn[r] # fn[q]
  BY <1>0, OneThreadPerFunction
<1>8. Cur(q) \notin ran /\ \A n \in CrossSuccs(Cur(q)) : <<Cur(q), n>> \notin sent
  BY <1>0, <1>2, <1>3 DEF ProgressInv
<1>9. ProgressInv'
  <2>1. \A m \in MTask : FnOf[m] \in sentFinal' =>
           m \in ran' /\ \A n \in CrossSuccs(m) : <<m, n>> \in sent'
    BY <1>5 DEF ProgressInv
  <2>2. \A m \in MTask : m \in ran' =>
           FnOf[m] \in sentFinal' \/ \E r \in Proc : Busy(r)' /\ fn'[r] = FnOf[m]
    BY <1>0, <1>1, <1>3, <1>5 DEF ProgressInv
  <2>3. ASSUME NEW r \in Proc, Busy(r)'
        PROVE  /\ idx'[r] \in 1 .. Len(Body[fn'[r]])
               /\ \A m \in MTask : FnOf[m] = fn'[r] =>
                  /\ m \in ran' <=> \/ PosOf[m] < idx'[r]
                                    \/ PosOf[m] = idx'[r] /\ pc'[r] = "signal"
                  /\ PosOf[m] < idx'[r] => \A n \in CrossSuccs(m) : <<m, n>> \in sent'
    <3>1. CASE r = q
      BY <1>0, <1>1, <1>2, <1>3, <1>5, <3>1 DEF ProgressInv
    <3>2. CASE r # q
      BY <1>1, <1>3, <1>5, <1>7, <2>3, <3>2 DEF ProgressInv
    <3>3. QED
      BY <3>1, <3>2
  <2>4. ASSUME NEW r \in Proc, pc'[r] = "signal"
        PROVE  /\ pend'[r] \subseteq CrossSuccs(Cur(r)')
               /\ \A n \in CrossSuccs(Cur(r)') : n \in pend'[r] <=> <<Cur(r)', n>> \notin sent'
    <3>1. CASE r = q
      BY <1>4, <1>5, <1>8, <3>1
    <3>2. CASE r # q
      BY <1>1, <1>4, <1>5, <2>4, <3>2 DEF ProgressInv
    <3>3. QED
      BY <3>1, <3>2
  <2>5. \A e \in sent' : e[1] \in ran'
    BY <1>5 DEF ProgressInv
  <2>6. QED
    BY <2>1, <2>2, <2>3, <2>4, <2>5 DEF ProgressInv, CrossSuccs
<1>10. CounterInv'
  BY DEF EndBody, CounterInv, SentTo, FinalsSent
<1>11. DependenciesRespected'
  <2>1. \A m \in MTask : InBody(m)' => InBody(m) /\ m # Cur(q)
    <3> TAKE m \in MTask
    <3> HAVE InBody(m)'
    <3>1. PICK r \in Proc : pc'[r] = "body" /\ Cur(r) = m
      BY <1>5 DEF InBody
    <3>2. r # q /\ pc[r] = "body" /\ Busy(r)
      BY <1>1, <3>1 DEF Busy
    <3>3. FnOf[Cur(r)] = fn[r]
      BY <3>2, BusyFacts, CurMTask
    <3>4. QED
      BY <1>3, <1>7, <3>1, <3>2, <3>3 DEF InBody
  <2>2. InBody(Cur(q))
    BY <1>0 DEF InBody
  <2>3. \A e \in Edge : e[2] \in MTask
    BY GraphAssumption DEF GraphAssumption
  <2>4. QED
    BY <1>5, <2>1, <2>2, <2>3 DEF DependenciesRespected
<1>12. QED
  BY <1>1, <1>6, <1>9, <1>10, <1>11

\* One signal moves the counter of one vertex by one.
LEMMA SignalSuccessorIInv ==
    ASSUME IInv, NEW q \in Proc, NEW n \in MTask, SignalSuccessor(q, n) PROVE IInv'
<1> USE DEF IInv
<1>0. Busy(q) /\ pc[q] = "signal" /\ pc' = pc /\ n \in pend[q]
  BY DEF SignalSuccessor, Busy
<1>1. /\ fn[q] \in Fn /\ fn[q] \notin sentFinal /\ ev[q] = even
      /\ idx[q] \in 1 .. Len(Body[fn[q]])
  BY <1>0, BusyFacts
<1>2. /\ Cur(q) \in MTask /\ FnOf[Cur(q)] = fn[q] /\ PosOf[Cur(q)] = idx[q]
      /\ \A m \in MTask : FnOf[m] = fn[q] /\ PosOf[m] = idx[q] => m = Cur(q)
  BY <1>1, CurMTask
<1>3. /\ n \in CrossSuccs(Cur(q)) /\ <<Cur(q), n>> \notin sent /\ Cur(q) \in ran
  BY <1>0, <1>1, <1>2 DEF ProgressInv
<1>4. <<Cur(q), n>> \in CrossEdge
  BY <1>3 DEF CrossSuccs
<1>5. /\ pend'[q] = pend[q] \ {n}
      /\ \A r \in Proc : r # q => pend'[r] = pend[r]
      /\ pend' \in [Proc -> SUBSET MTask]
  BY DEF SignalSuccessor, TypeOK
<1>6. /\ ran' = ran /\ sent' = sent \cup {<<Cur(q), n>>} /\ sentFinal' = sentFinal
      /\ fn' = fn /\ idx' = idx /\ even' = even
      /\ \A r \in Proc : Cur(r)' = Cur(r)
      /\ \A r \in Proc : Busy(r)' <=> Busy(r)
  BY <1>0 DEF SignalSuccessor, Cur, Busy
<1>7. depsDone' \in [MTask -> Int]
  BY DEF SignalSuccessor, SignalUpstreamDone, TypeOK
<1>8. TypeOK'
  BY <1>0, <1>4, <1>5, <1>6, <1>7 DEF SignalSuccessor, TypeOK
<1>9. MainInv' /\ WorkerInv'
  BY <1>0, <1>6 DEF SignalSuccessor, MainInv, WorkerInv, Dispatched, Busy
<1>10. \A r \in Proc : Busy(r) /\ r # q => Cur(r) # Cur(q)
  BY <1>0, <1>2, OneThreadPerFunction, BusyFacts, CurMTask
<1>11. ProgressInv'
  <2>1. \A m \in MTask : FnOf[m] \in sentFinal' =>
           m \in ran' /\ \A k \in CrossSuccs(m) : <<m, k>> \in sent'
    BY <1>6 DEF ProgressInv
  <2>2. \A m \in MTask : m \in ran' =>
           FnOf[m] \in sentFinal' \/ \E r \in Proc : Busy(r)' /\ fn'[r] = FnOf[m]
    BY <1>6 DEF ProgressInv
  <2>3. \A r \in Proc : Busy(r)' =>
           /\ idx'[r] \in 1 .. Len(Body[fn'[r]])
           /\ \A m \in MTask : FnOf[m] = fn'[r] =>
                  /\ m \in ran' <=> \/ PosOf[m] < idx'[r]
                                    \/ PosOf[m] = idx'[r] /\ pc'[r] = "signal"
                  /\ PosOf[m] < idx'[r] => \A k \in CrossSuccs(m) : <<m, k>> \in sent'
    BY <1>0, <1>6 DEF ProgressInv
  <2>4. ASSUME NEW r \in Proc, pc'[r] = "signal"
        PROVE  /\ pend'[r] \subseteq CrossSuccs(Cur(r)')
               /\ \A k \in CrossSuccs(Cur(r)') : k \in pend'[r] <=> <<Cur(r)', k>> \notin sent'
    <3>0. Busy(r) /\ pc[r] = "signal"
      BY <1>0, <2>4 DEF Busy
    <3>1. CASE r = q
      BY <1>0, <1>5, <1>6, <3>1 DEF ProgressInv
    <3>2. CASE r # q
      BY <1>5, <1>6, <1>10, <3>0, <3>2 DEF ProgressInv
    <3>3. QED
      BY <3>1, <3>2
  <2>5. \A e \in sent' : e[1] \in ran'
    BY <1>3, <1>6 DEF ProgressInv
  <2>6. QED
    BY <2>1, <2>2, <2>3, <2>4, <2>5 DEF ProgressInv, CrossSuccs
<1>12. CounterInv'
  <2>1. \A m \in MTask : m # n => SentTo(m)' = SentTo(m) /\ depsDone'[m] = depsDone[m]
    BY <1>6 DEF SentTo, SignalSuccessor, TypeOK
  <2>2. SentTo(n)' = SentTo(n) \cup {Cur(q)} /\ Cur(q) \notin SentTo(n)
    BY <1>2, <1>3, <1>6 DEF SentTo
  <2>3. Cardinality(SentTo(n)') = Cardinality(SentTo(n)) + 1
    BY <2>2, SentFinite, FS_AddElement
  <2>4. depsDone'[n] = IF even THEN depsDone[n] + 1 ELSE depsDone[n] - 1
    BY <1>1 DEF SignalSuccessor, SignalUpstreamDone, TypeOK
  <2>5. Cardinality(SentTo(n)) \in Nat /\ CrossThreadDependencies(n) \in Nat
    BY SentFinite, CrossFinite
  <2>6. depsDone'[n] = IF even THEN Cardinality(SentTo(n)')
                       ELSE CrossThreadDependencies(n) - Cardinality(SentTo(n)')
    BY <2>3, <2>4, <2>5 DEF CounterInv
  <2>7. \A s \in 1 .. NSched : FinalsSent(s)' = FinalsSent(s) /\ finalDone' = finalDone
    BY DEF SignalSuccessor, FinalsSent
  <2>8. QED
    BY <1>6, <2>1, <2>6, <2>7 DEF CounterInv
<1>13. DependenciesRespected'
  BY <1>0, <1>6 DEF DependenciesRespected, InBody
<1>14. QED
  BY <1>8, <1>9, <1>11, <1>12, <1>13

\* A thread moves on once every successor has been signalled.
LEMMA NextMTaskIInv ==
    ASSUME IInv, NEW q \in Proc, NextMTask(q) PROVE IInv'
<1> USE DEF IInv
<1>0. Busy(q) /\ pc[q] = "signal" /\ pc' = [pc EXCEPT ![q] = "wait"] /\ pend[q] = {}
  BY DEF NextMTask, Busy
<1>1. /\ pc' \in [Proc -> {"idle", "dispatch", "wait", "body", "signal", "join"}]
      /\ pc'[q] = "wait"
      /\ \A r \in Proc : r # q => pc'[r] = pc[r]
      /\ \A r \in Proc : Busy(r)' <=> Busy(r)
      /\ MainInv'
      /\ WorkerInv'
  BY <1>0, InsideFunction DEF NextMTask
<1>2. /\ fn[q] \in Fn /\ fn[q] \notin sentFinal
      /\ idx[q] \in 1 .. Len(Body[fn[q]])
  BY <1>0, BusyFacts
<1>3. /\ Cur(q) \in MTask /\ FnOf[Cur(q)] = fn[q] /\ PosOf[Cur(q)] = idx[q]
      /\ \A m \in MTask : FnOf[m] = fn[q] /\ PosOf[m] = idx[q] => m = Cur(q)
  BY <1>2, CurMTask
<1>4. /\ idx'[q] = idx[q] + 1
      /\ \A r \in Proc : r # q => idx'[r] = idx[r]
      /\ idx' \in [Proc -> Nat]
      /\ idx'[q] \in 1 .. Len(Body[fn[q]])
  <2>1. Len(Body[fn[q]]) \in Nat /\ idx[q] \in Nat
    BY <1>3, Positions
  <2>2. QED
    BY <1>2, <2>1 DEF NextMTask, TypeOK
<1>5. /\ ran' = ran /\ sent' = sent /\ sentFinal' = sentFinal /\ fn' = fn /\ pend' = pend
      /\ \A r \in Proc : r # q => Cur(r)' = Cur(r)
  BY <1>4 DEF NextMTask, Cur
<1>6. TypeOK'
  BY <1>1, <1>4, <1>5 DEF NextMTask, TypeOK
<1>7. \A n \in CrossSuccs(Cur(q)) : <<Cur(q), n>> \in sent
  BY <1>0 DEF ProgressInv
<1>8. ProgressInv'
  <2>1. \A m \in MTask : FnOf[m] \in sentFinal' =>
           m \in ran' /\ \A k \in CrossSuccs(m) : <<m, k>> \in sent'
    BY <1>5 DEF ProgressInv
  <2>2. \A m \in MTask : m \in ran' =>
           FnOf[m] \in sentFinal' \/ \E r \in Proc : Busy(r)' /\ fn'[r] = FnOf[m]
    BY <1>1, <1>5 DEF ProgressInv
  <2>3. ASSUME NEW r \in Proc, Busy(r)'
        PROVE  /\ idx'[r] \in 1 .. Len(Body[fn'[r]])
               /\ \A m \in MTask : FnOf[m] = fn'[r] =>
                  /\ m \in ran' <=> \/ PosOf[m] < idx'[r]
                                    \/ PosOf[m] = idx'[r] /\ pc'[r] = "signal"
                  /\ PosOf[m] < idx'[r] => \A k \in CrossSuccs(m) : <<m, k>> \in sent'
    <3>1. CASE r = q
      <4>1. idx'[r] \in 1 .. Len(Body[fn'[r]])
        BY <1>4, <1>5, <3>1
      <4>2. ASSUME NEW m \in MTask, FnOf[m] = fn[q]
            PROVE  PosOf[m] < idx'[q] <=> PosOf[m] < idx[q] \/ m = Cur(q)
        BY <1>2, <1>3, <1>4, <4>2, Positions DEF TypeOK
      <4>3. QED
        BY <1>0, <1>1, <1>5, <1>7, <3>1, <4>1, <4>2, <1>3 DEF ProgressInv
    <3>2. CASE r # q
      BY <1>1, <1>4, <1>5, <2>3, <3>2 DEF ProgressInv
    <3>3. QED
      BY <3>1, <3>2
  <2>4. \A r \in Proc : pc'[r] = "signal" =>
           /\ pend'[r] \subseteq CrossSuccs(Cur(r)')
           /\ \A k \in CrossSuccs(Cur(r)') : k \in pend'[r] <=> <<Cur(r)', k>> \notin sent'
    BY <1>1, <1>5 DEF ProgressInv
  <2>5. \A e \in sent' : e[1] \in ran'
    BY <1>5 DEF ProgressInv
  <2>6. QED
    BY <2>1, <2>2, <2>3, <2>4, <2>5 DEF ProgressInv, CrossSuccs
<1>9. CounterInv'
  BY DEF NextMTask, CounterInv, SentTo, FinalsSent
<1>10. DependenciesRespected'
  <2>1. \A m \in MTask : InBody(m)' => InBody(m)
    BY <1>1, <1>5 DEF InBody
  <2>2. QED
    BY <1>5, <2>1, GraphAssumption DEF GraphAssumption, DependenciesRespected
<1>11. QED
  BY <1>1, <1>6, <1>8, <1>9, <1>10

\* The end of a function moves the counter of its final vertex by one.
LEMMA SignalFinalIInv ==
    ASSUME IInv, NEW q \in Proc, SignalFinal(q) PROVE IInv'
<1> USE DEF IInv
<1>0. Busy(q) /\ pc[q] = "signal" /\ pend[q] = {} /\ idx[q] = Len(Body[fn[q]])
  BY DEF SignalFinal, Busy
<1>1. /\ fn[q] \in Fn /\ fn[q] \notin sentFinal /\ ev[q] = even /\ fn[q][1] = sched
      /\ idx[q] \in 1 .. Len(Body[fn[q]])
      /\ pc[Main] # "idle"
      /\ q # Main => Dispatched(q) /\ fn[q] = <<sched, q>> /\ queue[q] = <<>>
      /\ q = Main => fn[q] = <<sched, NFuncs[sched]>>
  BY <1>0, BusyFacts
<1>2. /\ Cur(q) \in MTask /\ FnOf[Cur(q)] = fn[q] /\ PosOf[Cur(q)] = idx[q]
      /\ \A m \in MTask : FnOf[m] = fn[q] /\ PosOf[m] = idx[q] => m = Cur(q)
  BY <1>1, CurMTask
<1>3. /\ pc' \in [Proc -> {"idle", "dispatch", "wait", "body", "signal", "join"}]
      /\ pc'[q] = IF q = Main THEN "join" ELSE "idle"
      /\ \A r \in Proc : r # q => pc'[r] = pc[r]
  BY DEF SignalFinal, TypeOK
<1>4. \A r \in Proc : Busy(r)' <=> Busy(r) /\ r # q
  BY <1>0, <1>3 DEF Busy
<1>5. /\ ran' = ran /\ sent' = sent /\ sentFinal' = sentFinal \cup {fn[q]}
      /\ fn' = fn /\ pend' = pend /\ idx' = idx /\ even' = even /\ sched' = sched /\ disp' = disp
      /\ queue' = queue /\ ev' = ev
      /\ \A r \in Proc : Cur(r)' = Cur(r)
  BY DEF SignalFinal, Cur
<1>6. sched \in 1 .. NSched /\ NFuncs[sched] \in Nat /\ disp \in Nat
  BY FnPair DEF TypeOK
<1>7. finalDone' \in [1 .. NSched -> Int]
  <2>1. finalDone \in [1 .. NSched -> Int] /\ finalDone[sched] \in Int
    BY <1>6 DEF TypeOK
  <2>2. SignalUpstreamDone(finalDone[sched], ev[q]) \in Int
    BY <2>1 DEF SignalUpstreamDone
  <2>3. QED
    BY <1>1, <2>1, <2>2 DEF SignalFinal
<1>8. TypeOK'
  BY <1>1, <1>3, <1>5, <1>7 DEF SignalFinal, TypeOK
<1>9. \A r \in Proc : Busy(r) /\ r # q => fn[r] # fn[q]
  BY <1>0, OneThreadPerFunction
<1>10. MainInv'
  <2>1. CASE q = Main
    BY <1>1, <1>3, <1>4, <1>5, <2>1 DEF MainInv
  <2>2. CASE q # Main
    <3>1. pc'[Main] = pc[Main] /\ (Busy(Main)' <=> Busy(Main)) /\ q \in Worker
      BY <1>3, <1>4, <2>2, ProcSplit
    <3>2. pc[Main] = "dispatch" => fn[q][2] < disp
      BY <1>1, <2>2 DEF Dispatched
    <3>3. pc[Main] = "dispatch" => \A f \in Fn : f[1] = sched /\ f[2] >= disp => f # fn[q]
      BY <1>1, <1>6, <3>2, FnPair
    <3>4. Busy(Main) => fn[Main] # fn[q]
      BY <1>9, <2>2, ProcSplit
    <3>5. \A f \in Fn : f[1] > sched => f # fn[q]
      BY <1>1, <1>6, FnPair
    <3>6. QED
      BY <1>1, <1>5, <3>1, <3>3, <3>4, <3>5 DEF MainInv
  <2>3. QED
    BY <2>1, <2>2
<1>11. WorkerInv'
  <2> SUFFICES ASSUME NEW w \in Worker
               PROVE  /\ pc'[w] \in {"idle", "wait", "body", "signal"}
                      /\ queue[w] # <<>> => /\ pc'[w] = "idle"
                                            /\ Dispatched(w)'
                                            /\ <<sched, w>> \notin sentFinal'
                      /\ Busy(w)' => Dispatched(w)' /\ fn[w] \notin sentFinal'
    BY <1>4, <1>5, ProcSplit DEF WorkerInv
  <2>1. Dispatched(w)' <=> Dispatched(w)
    BY <1>0, <1>1, <1>3, <1>5, ProcSplit DEF Dispatched, Busy
  <2>2. CASE w = q
    BY <1>1, <1>3, <1>4, <2>2, ProcSplit
  <2>3. CASE w # q
    <3>1. Dispatched(w) => <<sched, w>> # fn[q]
      <4>1. CASE q = Main
        BY <1>1, <1>6, <4>1, ProcSplit DEF Dispatched
      <4>2. CASE q # Main
        BY <1>1, <2>3, <4>2
      <4>3. QED
        BY <4>1, <4>2
    <3>2. QED
      BY <1>3, <1>4, <1>5, <2>1, <2>3, <3>1, ProcSplit DEF WorkerInv
  <2>4. QED
    BY <2>2, <2>3
<1>12. \A m \in MTask : FnOf[m] = fn[q] =>
           m \in ran /\ \A n \in CrossSuccs(m) : <<m, n>> \in sent
  <2> TAKE m \in MTask
  <2> HAVE FnOf[m] = fn[q]
  <2>1. PosOf[m] < idx[q] \/ m = Cur(q)
    BY <1>0, <1>1, <1>2, Positions DEF TypeOK
  <2>2. QED
    BY <1>0, <1>2, <2>1 DEF ProgressInv
<1>13. ProgressInv'
  <2>1. \A m \in MTask : FnOf[m] \in sentFinal' =>
           m \in ran' /\ \A k \in CrossSuccs(m) : <<m, k>> \in sent'
    BY <1>5, <1>12 DEF ProgressInv
  <2>2. \A m \in MTask : m \in ran' =>
           FnOf[m] \in sentFinal' \/ \E r \in Proc : Busy(r)' /\ fn'[r] = FnOf[m]
    BY <1>4, <1>5 DEF ProgressInv
  <2>3. \A r \in Proc : Busy(r)' =>
           /\ idx'[r] \in 1 .. Len(Body[fn'[r]])
           /\ \A m \in MTask : FnOf[m] = fn'[r] =>
                  /\ m \in ran' <=> \/ PosOf[m] < idx'[r]
                                    \/ PosOf[m] = idx'[r] /\ pc'[r] = "signal"
                  /\ PosOf[m] < idx'[r] => \A k \in CrossSuccs(m) : <<m, k>> \in sent'
    BY <1>3, <1>4, <1>5 DEF ProgressInv
  <2>4. \A r \in Proc : pc'[r] = "signal" =>
           /\ pend'[r] \subseteq CrossSuccs(Cur(r)')
           /\ \A k \in CrossSuccs(Cur(r)') : k \in pend'[r] <=> <<Cur(r)', k>> \notin sent'
    BY <1>3, <1>5 DEF ProgressInv
  <2>5. \A e \in sent' : e[1] \in ran'
    BY <1>5 DEF ProgressInv
  <2>6. QED
    BY <2>1, <2>2, <2>3, <2>4, <2>5 DEF ProgressInv, CrossSuccs
<1>14. CounterInv'
  <2>1. \A m \in MTask : SentTo(m)' = SentTo(m) /\ depsDone' = depsDone
    BY DEF SignalFinal, SentTo
  <2>2. ASSUME NEW s \in 1 .. NSched, s # sched
        PROVE  FinalsSent(s)' = FinalsSent(s) /\ finalDone'[s] = finalDone[s]
    <3>1. \A i \in 1 .. NFuncs[s] : <<s, i>> # fn[q]
      BY <1>1, <2>2, FnPair
    <3>2. QED
      BY <1>1, <1>5, <2>2, <3>1 DEF FinalsSent, SignalFinal, TypeOK
  <2>3. /\ fn[q] = <<sched, fn[q][2]>> /\ fn[q][2] \in 1 .. NFuncs[sched]
    BY <1>1, FnPair
  <2>4. FinalsSent(sched)' = FinalsSent(sched) \cup {fn[q][2]} /\ fn[q][2] \notin FinalsSent(sched)
    BY <1>1, <1>5, <2>3 DEF FinalsSent
  <2>5. Cardinality(FinalsSent(sched)') = Cardinality(FinalsSent(sched)) + 1
    BY <1>6, <2>4, FinalsFinite, FS_AddElement
  <2>6. finalDone'[sched] = IF even THEN finalDone[sched] + 1 ELSE finalDone[sched] - 1
    BY <1>1, <1>6 DEF SignalFinal, SignalUpstreamDone, TypeOK
  <2>7. Cardinality(FinalsSent(sched)) \in Nat
    BY <1>6, FinalsFinite
  <2>8. finalDone'[sched] = IF even THEN Cardinality(FinalsSent(sched)')
                            ELSE NFuncs[sched] - Cardinality(FinalsSent(sched)')
    BY <1>6, <2>5, <2>6, <2>7 DEF CounterInv
  <2>9. QED
    BY <1>5, <2>1, <2>2, <2>8 DEF CounterInv
<1>15. DependenciesRespected'
  <2>1. \A m \in MTask : InBody(m)' => InBody(m)
    BY <1>0, <1>3, <1>5 DEF InBody
  <2>2. QED
    BY <1>5, <2>1, GraphAssumption DEF GraphAssumption, DependenciesRespected
<1>16. QED
  BY <1>8, <1>10, <1>11, <1>13, <1>14, <1>15

\* A worker enters the function the main thread gave it.
LEMMA DequeWorkIInv ==
    ASSUME IInv, NEW w \in Worker, DequeWork(w) PROVE IInv'
<1> USE DEF IInv
<1>0. /\ queue[w] = <<[fn |-> <<sched, w>>, even |-> even]>>
      /\ pc[w] = "idle" /\ Dispatched(w) /\ <<sched, w>> \notin sentFinal
      /\ w \in Proc /\ w # Main /\ w \in Nat
  BY ProcSplit DEF DequeWork, WorkerInv
<1>1. /\ Head(queue[w]).fn = <<sched, w>> /\ Head(queue[w]).even = even
      /\ Tail(queue[w]) = <<>>
  BY <1>0
<1>2. /\ pc' = [pc EXCEPT ![w] = "wait"]
      /\ fn' = [fn EXCEPT ![w] = <<sched, w>>]
      /\ ev' = [ev EXCEPT ![w] = even]
      /\ idx' = [idx EXCEPT ![w] = 1]
      /\ queue' = [queue EXCEPT ![w] = <<>>]
  BY <1>1 DEF DequeWork, Enter
<1>3. /\ pc'[w] = "wait" /\ fn'[w] = <<sched, w>> /\ ev'[w] = even /\ idx'[w] = 1
      /\ queue'[w] = <<>>
      /\ \A r \in Proc : r # w => /\ pc'[r] = pc[r] /\ fn'[r] = fn[r]
                                  /\ ev'[r] = ev[r] /\ idx'[r] = idx[r]
      /\ \A r \in Worker : r # w => queue'[r] = queue[r]
  BY <1>0, <1>2 DEF TypeOK
<1>4. /\ sched \in 1 .. NSched /\ NFuncs[sched] \in Nat /\ <<sched, w>> \in Fn
  <2>1. sched \in 1 .. NSched /\ NFuncs[sched] \in Nat
    BY FnPair DEF TypeOK
  <2>2. w \in 1 .. NFuncs[sched]
    BY <1>0, <2>1 DEF Dispatched, Worker
  <2>3. QED
    BY <2>1, <2>2, FnPair
<1>5. TypeOK'
  <2>1. pc' \in [Proc -> {"idle", "dispatch", "wait", "body", "signal", "join"}]
    BY <1>2 DEF TypeOK
  <2>2. fn' \in [Proc -> Fn] /\ idx' \in [Proc -> Nat]
    BY <1>2, <1>4 DEF TypeOK
  <2>3. ev' \in [Proc -> BOOLEAN]
    BY <1>2 DEF TypeOK
  <2>4. queue' \in [Worker -> Seq(ExecRec)]
    BY <1>2 DEF TypeOK
  <2>5. QED
    BY <2>1, <2>2, <2>3, <2>4 DEF DequeWork, TypeOK
<1>6. \A r \in Proc : r # w => Cur(r)' = Cur(r) /\ (Busy(r)' <=> Busy(r))
  BY <1>3 DEF Cur, Busy
<1>7. pc'[Main] = pc[Main] /\ fn'[Main] = fn[Main] /\ ev'[Main] = ev[Main]
  BY <1>0, <1>3, ProcSplit
<1>8. MainInv'
  BY <1>7 DEF DequeWork, MainInv, Busy
<1>9. WorkerInv'
  <2>1. \A r \in Worker : Dispatched(r)' <=> Dispatched(r)
    BY <1>7 DEF DequeWork, Dispatched
  <2>2. sched' = sched /\ even' = even /\ sentFinal' = sentFinal
    BY DEF DequeWork
  <2>3. ASSUME NEW r \in Worker, r # w
        PROVE  /\ pc'[r] = pc[r] /\ fn'[r] = fn[r] /\ ev'[r] = ev[r] /\ queue'[r] = queue[r]
               /\ Busy(r)' <=> Busy(r)
    BY <1>3, <1>6, <2>3, ProcSplit
  <2>4. QED
    BY <1>0, <1>3, <2>1, <2>2, <2>3 DEF WorkerInv
<1>10. \A r \in Proc : Busy(r) => fn[r] # <<sched, w>>
  <2>1. ~Busy(w)
    BY <1>0 DEF Busy
  <2>2. ASSUME NEW r \in Worker, r # w, Busy(r) PROVE fn[r] # <<sched, w>>
    <3>1. fn[r] = <<sched, r>>
      BY <2>2 DEF WorkerInv
    <3>2. QED
      BY <2>2, <3>1
  <2>3. Busy(Main) => fn[Main] # <<sched, w>>
    BY <1>0, <1>4 DEF MainInv, Dispatched
  <2>4. QED
    BY <2>1, <2>2, <2>3, ProcSplit
<1>11. \A m \in MTask : FnOf[m] = <<sched, w>> => m \notin ran /\ PosOf[m] >= 1
  BY <1>0, <1>10, Positions DEF ProgressInv
<1>12. ProgressInv'
  <2>1. \A m \in MTask : FnOf[m] \in sentFinal' =>
           m \in ran' /\ \A n \in CrossSuccs(m) : <<m, n>> \in sent'
    BY DEF ProgressInv, DequeWork
  <2>2. \A m \in MTask : m \in ran' =>
           FnOf[m] \in sentFinal' \/ \E q \in Proc : Busy(q)' /\ fn'[q] = FnOf[m]
    <3> TAKE m \in MTask
    <3> HAVE m \in ran'
    <3>1. FnOf[m] \in sentFinal \/ \E q \in Proc : Busy(q) /\ fn[q] = FnOf[m]
      BY DEF ProgressInv, DequeWork
    <3>2. ~Busy(w)
      BY <1>0 DEF Busy
    <3>3. QED
      BY <1>3, <1>6, <3>1, <3>2 DEF DequeWork
  <2>3. idx'[w] \in 1 .. Len(Body[fn'[w]])
    <3>1. Body[<<sched, w>>] \in Seq(MTask) /\ Len(Body[<<sched, w>>]) >= 1
      BY <1>4, BodyAssumption DEF BodyAssumption
    <3>2. QED
      BY <1>3, <3>1
  <2>4. ASSUME NEW q \in Proc, Busy(q)'
        PROVE  /\ idx'[q] \in 1 .. Len(Body[fn'[q]])
               /\ \A m \in MTask : FnOf[m] = fn'[q] =>
                  /\ m \in ran' <=> \/ PosOf[m] < idx'[q]
                                    \/ PosOf[m] = idx'[q] /\ pc'[q] = "signal"
                  /\ PosOf[m] < idx'[q] => \A n \in CrossSuccs(m) : <<m, n>> \in sent'
    <3>1. CASE q = w
      BY <1>3, <1>11, <2>3, <3>1, Positions DEF DequeWork
    <3>2. CASE q # w
      BY <1>3, <1>6, <2>4, <3>2 DEF DequeWork, ProgressInv
    <3>3. QED
      BY <3>1, <3>2
  <2>5. \A q \in Proc : pc'[q] = "signal" =>
           /\ pend'[q] \subseteq CrossSuccs(Cur(q)')
           /\ \A n \in CrossSuccs(Cur(q)') : n \in pend'[q] <=> <<Cur(q)', n>> \notin sent'
    BY <1>3, <1>6 DEF DequeWork, ProgressInv
  <2>6. \A e \in sent' : e[1] \in ran'
    BY DEF DequeWork, ProgressInv
  <2>7. QED
    BY <2>1, <2>2, <2>4, <2>5, <2>6 DEF ProgressInv, CrossSuccs
<1>13. CounterInv'
  BY DEF DequeWork, CounterInv, SentTo, FinalsSent
<1>14. DependenciesRespected'
  <2>1. \A m \in MTask : InBody(m)' => InBody(m)
    BY <1>3, <1>6 DEF InBody
  <2>2. QED
    BY <2>1, GraphAssumption DEF GraphAssumption, DequeWork, DependenciesRespected
<1>15. QED
  BY <1>5, <1>8, <1>9, <1>12, <1>13, <1>14

--------------------------------------------------------------------------------
(* The theorems. *)

\* Every step of the evaluation preserves the invariant.
LEMMA NextIInv == IInv /\ [Next]_vars => IInv'
<1> SUFFICES ASSUME IInv, [Next]_vars PROVE IInv'
  OBVIOUS
<1>1. ASSUME NEW q \in Proc, RunFunction(q) PROVE IInv'
  BY <1>1, WaitIInv, EndBodyIInv, SignalSuccessorIInv, NextMTaskIInv, SignalFinalIInv
     DEF RunFunction
<1>2. CASE MainStep
  BY <1>1, <1>2, ProcSplit, StartEvalIInv, AddTaskIInv, CallLastIInv, JoinIInv DEF MainStep
<1>3. CASE \E w \in Worker : WorkerStep(w)
  BY <1>1, <1>3, ProcSplit, DequeWorkIInv DEF WorkerStep
<1>4. CASE UNCHANGED vars
  <2>1. TypeOK'
    BY <1>4 DEF vars, IInv, TypeOK
  <2>2. MainInv' /\ WorkerInv'
    BY <1>4 DEF vars, IInv, MainInv, WorkerInv, Busy, Dispatched
  <2>3. ProgressInv'
    BY <1>4 DEF vars, IInv, ProgressInv, Busy, Cur
  <2>4. CounterInv'
    BY <1>4 DEF vars, IInv, CounterInv, SentTo, FinalsSent
  <2>5. DependenciesRespected'
    BY <1>4 DEF vars, IInv, DependenciesRespected, InBody, Cur
  <2>6. QED
    BY <2>1, <2>2, <2>3, <2>4, <2>5 DEF IInv
<1>5. QED
  BY <1>2, <1>3, <1>4 DEF Next

\* The invariant holds throughout every run of the generated code.
LEMMA SpecIInv == Spec => []IInv
BY InitIInv, NextIInv, PTL DEF Spec

\* Type correctness of the generated multithreaded evaluation.
THEOREM TypeCorrect == Spec => []TypeOK
<1>1. IInv => TypeOK
  BY DEF IInv
<1>2. QED
  BY <1>1, SpecIInv, PTL

\* For every dependency graph and schedule, no mtask body overtakes one it
\* depends on: the even/odd counters, the thread order and the schedule order
\* of the generated code enforce the graph.
THEOREM DependencyOrder == Spec => []DependenciesRespected
<1>1. IInv => DependenciesRespected
  BY DEF IInv
<1>2. QED
  BY <1>1, SpecIInv, PTL

\* The two assertions of VlMTaskVertex::signalUpstreamDone never fail.
THEOREM NoCounterOverrun == Spec => []CountersInRange
<1>1. IInv => CountersInRange
  <2> SUFFICES ASSUME IInv PROVE CountersInRange
    OBVIOUS
  <2>1. \A m \in MTask : depsDone[m] \in 0 .. CrossThreadDependencies(m)
    BY SentFinite, CrossFinite DEF IInv, CounterInv
  <2>2. \A s \in 1 .. NSched : finalDone[s] \in 0 .. NFuncs[s]
    BY FinalsFinite, FnPair DEF IInv, CounterInv
  <2>3. QED
    BY <2>1, <2>2 DEF CountersInRange
<1>2. QED
  BY <1>1, SpecIInv, PTL

\* A vertex that reads as done has been signalled by all its predecessors in the
\* current cycle, whatever the parity: no reset between evaluations is needed.
THEOREM ReadinessIsCurrent == Spec => []NoStaleReadiness
<1>1. IInv => NoStaleReadiness
  <2> SUFFICES ASSUME IInv, NEW m \in MTask,
                      depsDone[m] = Target(CrossThreadDependencies(m), even)
               PROVE  \A p \in CrossPreds(m) : <<p, m>> \in sent
    BY DEF NoStaleReadiness
  <2>1. Cardinality(SentTo(m)) = CrossThreadDependencies(m)
    <3>1. CASE even
      BY <3>1 DEF IInv, CounterInv, Target
    <3>2. CASE ~even
      BY <3>2, SentFinite, CrossFinite DEF IInv, CounterInv, Target
    <3>3. QED
      BY <3>1, <3>2
  <2>2. QED
    BY <2>1, SentFinite DEF IInv, SentTo
<1>2. QED
  BY <1>1, SpecIInv, PTL

\* When the main thread leaves the ExecGraph every mtask has run and every
\* worker is idle with an empty queue.
THEOREM EvalIsComplete == Spec => []EvalComplete
<1>1. IInv => EvalComplete
  <2> SUFFICES ASSUME IInv, pc[Main] = "idle"
               PROVE  ran = MTask /\ \A w \in Worker : pc[w] = "idle" /\ queue[w] = <<>>
    BY DEF EvalComplete
  <2>1. ran = MTask
    <3>1. sentFinal = Fn /\ ran \subseteq MTask
      BY DEF IInv, TypeOK, MainInv
    <3>2. \A m \in MTask : m \in ran
      BY <3>1, Positions DEF IInv, ProgressInv
    <3>3. QED
      BY <3>1, <3>2
  <2>2. \A w \in Worker : pc[w] = "idle" /\ queue[w] = <<>>
    BY DEF IInv, WorkerInv, Dispatched, Busy
  <2>3. QED
    BY <2>1, <2>2
<1>2. QED
  BY <1>1, SpecIInv, PTL
================================================================================
