------------------------------- MODULE ExecGraph -------------------------------
(***************************************************************************)
(* One multithreaded evaluation of a Verilated model, repeated for ever:   *)
(* the code V3ExecGraph generates for the `nba' region, run on the worker  *)
(* threads of VlThreadPool with the counters of VlMTaskVertex.             *)
(*                                                                         *)
(* The static schedule (ThreadSchedule, made by PackThreads) is a constant *)
(* here: Body[<<s, i>>] is the sequence of mtasks of the i'th thread       *)
(* function of schedule s.  Functions 1 .. NFuncs[s]-1 are handed to the   *)
(* workers of that number, the last one is called on the main thread.      *)
(* A worker is seen as a FIFO of execution records; module VlWorkerThread  *)
(* has its mutex, condition variable and shutdown.                         *)
(***************************************************************************)
EXTENDS Integers, Sequences, FiniteSets

CONSTANTS
    MTask,      \* the ExecMTask vertices of the dependency graph
    Edge,       \* its edges: <<p, m>> when m depends on p
    NSched,     \* number of ThreadSchedules, run one after the other
    NFuncs,     \* [1..NSched -> Nat]: thread functions of each schedule
    Body,       \* [Fn -> Seq(MTask)]: ThreadSchedule::threads
    FnOf,       \* [MTask -> Fn]: ThreadSchedule::contains and ::threadId
    PosOf,      \* [MTask -> Nat]: position in the thread's sequence
    NWorkers    \* workers of the pool, beside the main thread

Fn == {f \in (1 .. NSched) \X (1 .. NWorkers + 1) : f[2] <= NFuncs[f[1]]}

ASSUME GraphAssumption ==
    /\ IsFiniteSet(MTask)
    /\ Edge \subseteq MTask \X MTask

ASSUME ScheduleAssumption ==
    /\ NSched \in Nat \ {0}
    /\ NWorkers \in Nat
    /\ NFuncs \in [1 .. NSched -> Nat \ {0}]
    /\ \A s \in 1 .. NSched : NFuncs[s] <= NWorkers + 1

\* Threads without mtasks get no function; the two views of a schedule agree.
ASSUME BodyAssumption ==
    /\ Body \in [Fn -> Seq(MTask)]
    /\ \A f \in Fn : Len(Body[f]) >= 1
    /\ FnOf \in [MTask -> Fn]
    /\ PosOf \in [MTask -> Nat]
    /\ \A m \in MTask : /\ PosOf[m] \in 1 .. Len(Body[FnOf[m]])
                        /\ Body[FnOf[m]][PosOf[m]] = m
    /\ \A f \in Fn : \A k \in 1 .. Len(Body[f]) :
           FnOf[Body[f][k]] = f /\ PosOf[Body[f][k]] = k

\* What PackThreads promises of the order: a dependency lies in an earlier
\* schedule, or on another thread, or earlier on the same thread.
ASSUME OrderAssumption ==
    \A p, m \in MTask : <<p, m>> \in Edge =>
        /\ FnOf[p][1] <= FnOf[m][1]
        /\ FnOf[p] = FnOf[m] => PosOf[p] < PosOf[m]

Main == 0
Worker == 1 .. NWorkers
Proc == 0 .. NWorkers

VARIABLES
    even,       \* vlSymsp->__Vm_even_cycle
    depsDone,   \* m_upstreamDepsDone of __Vm_mtaskstate_<id>
    finalDone,  \* m_upstreamDepsDone of __Vm_mtaskstate_final__<sched>
    queue,      \* pending execution records of every worker
    pc,         \* what each thread is doing
    fn,         \* the thread function a thread is in
    ev,         \* its even_cycle argument
    idx,        \* the position of its current mtask
    pend,       \* mtasks the current mtask has still to signal
    sched,      \* main thread: the schedule being run
    disp        \* main thread: the next function to start

\* History of the current evaluation: mtasks run, signals sent, functions over.
VARIABLES ran, sent, sentFinal

mainVars == <<even, sched, disp>>
vars == <<even, depsDone, finalDone, queue, pc, fn, ev, idx, pend, sched, disp,
          ran, sent, sentFinal>>

ExecRec == [fn : Fn, even : BOOLEAN]

--------------------------------------------------------------------------------
(* The counters of VlMTaskVertex. *)

\* crossThreadDependencies: only these predecessors signal through a vertex.
CrossEdge == {e \in Edge : FnOf[e[1]] # FnOf[e[2]] /\ FnOf[e[1]][1] = FnOf[e[2]][1]}
CrossPreds(m) == {p \in MTask : <<p, m>> \in CrossEdge}

CrossSuccs(m) == {n \in MTask : <<m, n>> \in CrossEdge}
CrossThreadDependencies(m) == Cardinality(CrossPreds(m))

\* A faulty variant: the count does not run backwards in odd cycles.
TargetAlwaysCount(count, evenCycle) == count

\* signalUpstreamDone: the counter after one predecessor has signalled.
SignalUpstreamDone(v, evenCycle) == IF evenCycle THEN v + 1 ELSE v - 1

\* areUpstreamDepsDone compares the counter with this value.
Target(count, evenCycle) == IF evenCycle THEN count ELSE 0

--------------------------------------------------------------------------------
Init ==
    /\ even = FALSE
    /\ depsDone = [m \in MTask |-> 0]
    /\ finalDone = [s \in 1 .. NSched |-> 0]
    /\ queue = [w \in Worker |-> <<>>]
    /\ pc = [q \in Proc |-> "idle"]
    /\ fn = [q \in Proc |-> <<1, 1>>]
    /\ ev = [q \in Proc |-> FALSE]
    /\ idx = [q \in Proc |-> 1]
    /\ pend = [q \in Proc |-> {}]
    /\ sched = 1
    /\ disp = 1
    \* as at the end of an odd evaluation
    /\ ran = MTask
    /\ sent = CrossEdge
    /\ sentFinal = Fn

\* Faulty variants of the main thread's steps.
StartEvalNoFlip ==
    /\ pc[Main] = "idle"
    /\ sched' = 1
    /\ disp' = 1
    /\ pc' = [pc EXCEPT ![Main] = "dispatch"]
    /\ ran' = {} /\ sent' = {} /\ sentFinal' = {}
    /\ UNCHANGED <<even, depsDone, finalDone, queue, fn, ev, idx, pend>>

JoinNoWait ==
    /\ pc[Main] = "join"
    /\ \/ /\ sched < NSched
          /\ sched' = sched + 1
          /\ disp' = 1
          /\ pc' = [pc EXCEPT ![Main] = "dispatch"]
       \/ /\ sched = NSched
          /\ pc' = [pc EXCEPT ![Main] = "idle"]
          /\ UNCHANGED <<sched, disp>>
    /\ UNCHANGED <<even, depsDone, finalDone, queue, fn, ev, idx, pend,
                   ran, sent, sentFinal>>

\* The eval function reaches the ExecGraph and flips the cycle flag.
StartEval ==
    /\ pc[Main] = "idle"
    /\ even' = ~even
    /\ sched' = 1
    /\ disp' = 1
    /\ pc' = [pc EXCEPT ![Main] = "dispatch"]
    /\ ran' = {} /\ sent' = {} /\ sentFinal' = {}
    /\ UNCHANGED <<depsDone, finalDone, queue, fn, ev, idx, pend>>

\* workerp(i)->addTask(&function, vlSelf, even_cycle), for all but the last.
AddTask ==
    /\ pc[Main] = "dispatch"
    /\ disp < NFuncs[sched]
    /\ queue' = [queue EXCEPT ![disp] = Append(@, [fn |-> <<sched, disp>>, even |-> even])]
    /\ disp' = disp + 1
    /\ UNCHANGED <<even, depsDone, finalDone, pc, fn, ev, idx, pend, sched,
                   ran, sent, sentFinal>>

Enter(q, f, e) ==
    /\ fn' = [fn EXCEPT ![q] = f]
    /\ ev' = [ev EXCEPT ![q] = e]
    /\ idx' = [idx EXCEPT ![q] = 1]
    /\ pc' = [pc EXCEPT ![q] = "wait"]

\* The last function is an ordinary call on the main thread.
CallLast ==
    /\ pc[Main] = "dispatch"
    /\ disp = NFuncs[sched]
    /\ Enter(Main, <<sched, disp>>, even)
    /\ UNCHANGED <<even, depsDone, finalDone, queue, pend, sched, disp,
                   ran, sent, sentFinal>>

\* A worker takes its next record and enters the function.
DequeWork(w) ==
    /\ pc[w] = "idle"
    /\ queue[w] # <<>>
    /\ Enter(w, Head(queue[w]).fn, Head(queue[w]).even)
    /\ queue' = [queue EXCEPT ![w] = Tail(@)]
    /\ UNCHANGED <<even, depsDone, finalDone, pend, sched, disp, ran, sent, sentFinal>>

Cur(q) == Body[fn[q]][idx[q]]

\* An mtask with dependencies on other threads spins until they are done.
WaitUntilUpstreamDone(q) ==
    /\ pc[q] = "wait"
    /\ \/ CrossThreadDependencies(Cur(q)) = 0
       \/ depsDone[Cur(q)] = Target(CrossThreadDependencies(Cur(q)), ev[q])
    /\ pc' = [pc EXCEPT ![q] = "body"]
    /\ UNCHANGED <<even, depsDone, finalDone, queue, fn, ev, idx, pend, sched, disp,
                   ran, sent, sentFinal>>

\* The body of the mtask ends.
EndBody(q) ==
    /\ pc[q] = "body"
    /\ pc' = [pc EXCEPT ![q] = "signal"]
    /\ pend' = [pend EXCEPT ![q] = CrossSuccs(Cur(q))]
    /\ ran' = ran \cup {Cur(q)}
    /\ UNCHANGED <<even, depsDone, finalDone, queue, fn, ev, idx, sched, disp,
                   sent, sentFinal>>

\* __Vm_mtaskstate_<n>.signalUpstreamDone(even_cycle)
SignalSuccessor(q, n) ==
    /\ pc[q] = "signal"
    /\ n \in pend[q]
    /\ depsDone' = [depsDone EXCEPT ![n] = SignalUpstreamDone(@, ev[q])]
    /\ pend' = [pend EXCEPT ![q] = @ \ {n}]
    /\ sent' = sent \cup {<<Cur(q), n>>}
    /\ UNCHANGED <<even, finalDone, queue, pc, fn, ev, idx, sched, disp, ran, sentFinal>>

\* On to the next mtask of the thread function.
NextMTask(q) ==
    /\ pc[q] = "signal"
    /\ pend[q] = {}
    /\ idx[q] < Len(Body[fn[q]])
    /\ idx' = [idx EXCEPT ![q] = @ + 1]
    /\ pc' = [pc EXCEPT ![q] = "wait"]
    /\ UNCHANGED <<even, depsDone, finalDone, queue, fn, ev, pend, sched, disp,
                   ran, sent, sentFinal>>

\* End of the function: unblock the `final' vertex and return.
SignalFinal(q) ==
    /\ pc[q] = "signal"
    /\ pend[q] = {}
    /\ idx[q] = Len(Body[fn[q]])
    /\ finalDone' = [finalDone EXCEPT ![fn[q][1]] = SignalUpstreamDone(@, ev[q])]
    /\ sentFinal' = sentFinal \cup {fn[q]}
    /\ pc' = [pc EXCEPT ![q] = IF q = Main THEN "join" ELSE "idle"]
    /\ UNCHANGED <<even, depsDone, queue, fn, ev, idx, pend, sched, disp, ran, sent>>

\* The main thread waits for the `final' vertex, then the next schedule starts.
Join ==
    /\ pc[Main] = "join"
    /\ finalDone[sched] = Target(NFuncs[sched], even)
    /\ \/ /\ sched < NSched
          /\ sched' = sched + 1
          /\ disp' = 1
          /\ pc' = [pc EXCEPT ![Main] = "dispatch"]
       \/ /\ sched = NSched
          /\ pc' = [pc EXCEPT ![Main] = "idle"]
          /\ UNCHANGED <<sched, disp>>
    /\ UNCHANGED <<even, depsDone, finalDone, queue, fn, ev, idx, pend,
                   ran, sent, sentFinal>>

RunFunction(q) ==
    \/ WaitUntilUpstreamDone(q)
    \/ EndBody(q)
    \/ \E n \in MTask : SignalSuccessor(q, n)
    \/ NextMTask(q)
    \/ SignalFinal(q)

MainStep == StartEval \/ AddTask \/ CallLast \/ RunFunction(Main) \/ Join
WorkerStep(w) == DequeWork(w) \/ RunFunction(w)

Next == MainStep \/ \E w \in Worker : WorkerStep(w)

Spec == Init /\ [][Next]_vars

\* Every thread is scheduled by the operating system; the simulation loop need
\* not call eval again, so StartEval gets no fairness.
FairSpec ==
    /\ Spec
    /\ WF_vars(AddTask \/ CallLast \/ RunFunction(Main) \/ Join)
    /\ \A w \in Worker : WF_vars(WorkerStep(w))

--------------------------------------------------------------------------------
(* Properties *)

\* Every variable keeps its type.
TypeOK ==
    /\ even \in BOOLEAN
    /\ depsDone \in [MTask -> Int]
    /\ finalDone \in [1 .. NSched -> Int]
    /\ queue \in [Worker -> Seq(ExecRec)]
    /\ pc \in [Proc -> {"idle", "dispatch", "wait", "body", "signal", "join"}]
    /\ fn \in [Proc -> Fn]
    /\ ev \in [Proc -> BOOLEAN]
    /\ idx \in [Proc -> Nat]
    /\ pend \in [Proc -> SUBSET MTask]
    /\ sched \in 1 .. NSched
    /\ disp \in Nat
    /\ ran \in SUBSET MTask
    /\ sent \in SUBSET CrossEdge
    /\ sentFinal \in SUBSET Fn

InBody(m) == \E q \in Proc : pc[q] = "body" /\ Cur(q) = m

\* No mtask body runs, or has run in this evaluation, before every mtask it
\* depends on has finished in this evaluation, and none runs twice: the waits on
\* VlMTaskVertex, the order on a thread and the order of the schedules together
\* enforce the whole dependency graph.
DependenciesRespected ==
    /\ \A e \in Edge : (e[2] \in ran \/ InBody(e[2])) => e[1] \in ran
    /\ \A m \in MTask : InBody(m) => m \notin ran

\* The assertions in signalUpstreamDone: the counter of a vertex never passes its
\* dependency count in an even cycle nor wraps below zero in an odd one.
CountersInRange ==
    /\ \A m \in MTask : depsDone[m] \in 0 .. CrossThreadDependencies(m)
    /\ \A s \in 1 .. NSched : finalDone[s] \in 0 .. NFuncs[s]

\* A vertex never looks done because of what an earlier evaluation left in its
\* counter: done means every predecessor has signalled in this one.
NoStaleReadiness ==
    \A m \in MTask :
        depsDone[m] = Target(CrossThreadDependencies(m), even)
            => \A p \in CrossPreds(m) : <<p, m>> \in sent

\* When the ExecGraph returns, all of it has run and no worker still touches it.
EvalComplete ==
    pc[Main] = "idle" =>
        /\ ran = MTask
        /\ \A w \in Worker : pc[w] = "idle" /\ queue[w] = <<>>

\* An evaluation that starts returns: no thread waits for ever on a vertex.
EvalReturns == pc[Main] # "idle" ~> pc[Main] = "idle"
--------------------------------------------------------------------------------
(* The inductive invariant behind the proofs (module ExecGraphProofs). *)

Busy(q) == pc[q] \in {"wait", "body", "signal"}

\* Worker w has been given its function of the current schedule.
Dispatched(w) ==
    /\ pc[Main] # "idle"
    /\ w < NFuncs[sched]
    /\ pc[Main] = "dispatch" => w < disp

\* Where the main thread is says which functions may be over.
MainInv ==
    /\ disp \in 1 .. NFuncs[sched]
    /\ pc[Main] = "idle" => sentFinal = Fn
    /\ pc[Main] # "idle" => \A f \in Fn : /\ f[1] < sched => f \in sentFinal
                                          /\ f[1] > sched => f \notin sentFinal
    /\ pc[Main] = "dispatch" => \A f \in Fn : f[1] = sched /\ f[2] >= disp => f \notin sentFinal
    /\ Busy(Main) => /\ fn[Main] = <<sched, NFuncs[sched]>>
                     /\ ev[Main] = even
                     /\ fn[Main] \notin sentFinal

\* A worker only ever has the current function of its own number, once.
WorkerInv ==
    \A w \in Worker :
        /\ pc[w] \in {"idle", "wait", "body", "signal"}
        /\ queue[w] # <<>> => /\ queue[w] = <<[fn |-> <<sched, w>>, even |-> even]>>
                              /\ pc[w] = "idle"
                              /\ Dispatched(w)
                              /\ <<sched, w>> \notin sentFinal
        /\ Busy(w) => /\ fn[w] = <<sched, w>>
                      /\ ev[w] = even
                      /\ Dispatched(w)
                      /\ fn[w] \notin sentFinal

\* How far a function is says which of its mtasks have run and signalled.
ProgressInv ==
    /\ \A m \in MTask : FnOf[m] \in sentFinal =>
           m \in ran /\ \A n \in CrossSuccs(m) : <<m, n>> \in sent
    /\ \A m \in MTask : m \in ran =>
           FnOf[m] \in sentFinal \/ \E q \in Proc : Busy(q) /\ fn[q] = FnOf[m]
    /\ \A q \in Proc : Busy(q) =>
           /\ idx[q] \in 1 .. Len(Body[fn[q]])
           /\ \A m \in MTask : FnOf[m] = fn[q] =>
                  /\ m \in ran <=> \/ PosOf[m] < idx[q]
                                   \/ PosOf[m] = idx[q] /\ pc[q] = "signal"
                  /\ PosOf[m] < idx[q] => \A n \in CrossSuccs(m) : <<m, n>> \in sent
    /\ \A q \in Proc : pc[q] = "signal" =>
           /\ pend[q] \subseteq CrossSuccs(Cur(q))
           /\ \A n \in CrossSuccs(Cur(q)) : n \in pend[q] <=> <<Cur(q), n>> \notin sent
    /\ \A e \in sent : e[1] \in ran

SentTo(m) == {p \in MTask : <<p, m>> \in sent}
FinalsSent(s) == {i \in 1 .. NFuncs[s] : <<s, i>> \in sentFinal}

\* A counter is the number of signals received, up in even and down in odd cycles.
CounterInv ==
    /\ \A m \in MTask :
           depsDone[m] = IF even THEN Cardinality(SentTo(m))
                         ELSE CrossThreadDependencies(m) - Cardinality(SentTo(m))
    /\ \A s \in 1 .. NSched :
           finalDone[s] = IF even THEN Cardinality(FinalsSent(s))
                          ELSE NFuncs[s] - Cardinality(FinalsSent(s))

IInv == TypeOK /\ MainInv /\ WorkerInv /\ ProgressInv /\ CounterInv /\ DependenciesRespected
================================================================================
