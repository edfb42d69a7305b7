------------------------------ MODULE PackThreads ------------------------------
(***************************************************************************)
(* PackThreads::pack of V3ExecGraph: the static assignment of mtasks to    *)
(* thread schedules and threads, made at compile time, whose result module *)
(* ExecGraph runs.  One step is one round of the `while (!readyMTasks      *)
(* .empty())' loop.                                                        *)
(*                                                                         *)
(* An input is a dependency graph with a cost, a priority and a number of  *)
(* threads for every mtask; an mtask of more than one thread is `wide' (a  *)
(* hierarchical block) and gets a schedule with other wide mtasks only.    *)
(***************************************************************************)
EXTENDS Integers, Sequences, FiniteSets, FiniteSetsExt

CONSTANTS
    Inputs,             \* records [n, edges, cost, priority, threads]
    NThreads,           \* m_nThreads
    NHierThreads,       \* m_nHierThreads
    SandbagNumerator,   \* m_sandbagNumerator
    SandbagDenom        \* m_sandbagDenom

MTasksOf(in) == 1 .. in.n
MaxThreadWorkers(in) == Max({1} \cup {in.threads[m] : m \in MTasksOf(in)})
WideSize(in) == NHierThreads \div MaxThreadWorkers(in)

ASSUME ThreadsAssumption ==
    /\ NThreads \in Nat \ {0} /\ NHierThreads \in Nat \ {0}
    /\ SandbagNumerator \in Nat /\ SandbagDenom \in Nat \ {0}

\* An acyclic graph whose edges go up in the mtask number; the thread pool is large
\* enough for the widest mtask.
ASSUME InputAssumption ==
    \A in \in Inputs :
        /\ in.n \in Nat
        /\ in.edges \subseteq {e \in MTasksOf(in) \X MTasksOf(in) : e[1] < e[2]}
        /\ in.cost \in [MTasksOf(in) -> Nat]
        /\ in.priority \in [MTasksOf(in) -> Nat]
        /\ in.threads \in [MTasksOf(in) -> Nat]
        /\ WideSize(in) \in 1 .. NHierThreads

None == 0           \* no mtask
UNASSIGNED == -1    \* no thread

VARIABLES
    input,          \* the graph; never changes
    result,         \* the schedules; the last one is being filled
    threadId,       \* ThreadSchedule::mtaskState[m].threadId
    completion,     \* .completionTime
    nextp,          \* .nextp
    predictStart,   \* ExecMTask::m_predictStart
    busyUntil,      \* the time every thread is occupied until
    ready,          \* readyMTasks
    mode            \* the SchedulingMode

state == <<threadId, completion, nextp, predictStart>>
vars == <<input, result, state, busyUntil, ready, mode>>

MTask == MTasksOf(input)
Preds(m) == {p \in MTask : <<p, m>> \in input.edges}
Assigned == {m \in MTask : threadId[m] # UNASSIGNED}
Wide(m) == input.threads[m] > 1

\* The constructor: no mtask on any thread.
ThreadSchedule(n) == [threads |-> [t \in 0 .. n - 1 |-> <<>>], mtasks |-> {}, endTime |-> 0]
Schedule == result[Len(result)]
BusyThreads == 0 .. Max({NThreads, NHierThreads}) - 1

\* finalizeCosts: the critical path from the start of an mtask to the end of the graph.
FinalPriority(n, edges, cost) ==
    LET priority[m \in 1 .. n] ==
            cost[m] + Max({0} \cup {priority[e[2]] : e \in {d \in edges : d[1] = m}})
    IN  [m \in 1 .. n |-> priority[m]]

Init ==
    /\ input \in Inputs
    /\ result = <<ThreadSchedule(NThreads)>>
    /\ threadId = [m \in MTask |-> UNASSIGNED]
    /\ completion = [m \in MTask |-> 0]
    /\ nextp = [m \in MTask |-> None]
    /\ predictStart = [m \in MTask |-> 0]
    /\ busyUntil = [t \in BusyThreads |-> 0]
    /\ ready = {m \in MTask : Preds(m) = {}}
    /\ mode = "scheduling"

--------------------------------------------------------------------------------
(* The choice of the next mtask. *)

\* A faulty variant: the end of an mtask looks the same from every thread.
CompletionTimeUnpadded(s, m, th) == IF m \in s.mtasks THEN completion[m] ELSE 0

\* When thread th may rely on m being over: padded on other threads, but not beyond
\* the end of the mtask that follows m on its own thread.
CompletionTime(s, m, th) ==
    LET padded == completion[m] + (SandbagNumerator * input.cost[m]) \div SandbagDenom
        follow == completion[nextp[m]]
    IN  CASE m \notin s.mtasks -> 0
          [] m \in s.mtasks /\ threadId[m] = th -> completion[m]
          [] OTHER -> IF nextp[m] # None /\ padded >= follow /\ follow > 1
                      THEN follow - 1 ELSE padded

\* A faulty variant: wide mtasks are not told apart.
EligibleAny == ready

Eligible == {m \in ready : mode = "wideScheduling" <=> Wide(m)}

TimeBegin(c) ==
    Max({busyUntil[c[1]]} \cup {CompletionTime(Schedule, p, c[1]) : p \in Preds(c[2])})

\* Candidate c is met before d by the loops over threads and ready mtasks.
Earlier(c, d) == c[1] < d[1] \/ (c[1] = d[1] /\ c[2] < d[2])

\* Candidate c is kept against d: it begins earlier, or at the same time with a
\* higher priority, or it is the first of equals.
Preferred(c, d) ==
    LET bc == TimeBegin(c)  bd == TimeBegin(d)
        pc == input.priority[c[2]]  pd == input.priority[d[2]]
    IN  bc < bd \/ (bc = bd /\ (pc > pd \/ (pc = pd /\ Earlier(c, d))))

Candidates == (DOMAIN Schedule.threads) \X Eligible
IsBest(c) == \A d \in Candidates \ {c} : Preferred(c, d)

\* A faulty variant: one assigned predecessor is enough.
IsReadyAny(n, done) == Preds(n) \cap done # {}
\* isReady: all predecessors of n have a thread, m having just got its own.
IsReady(n, done) == Preds(n) \subseteq done

--------------------------------------------------------------------------------
(* The rounds of the loop. *)

\* ThreadSchedule::scheduleOn
ScheduleOn(m, th, begin) ==
    LET end == begin + input.cost[m]
        thread == Schedule.threads[th]
    IN  /\ predictStart' = [predictStart EXCEPT ![m] = begin]
        /\ completion' = [completion EXCEPT ![m] = end]
        /\ threadId' = [threadId EXCEPT ![m] = th]
        /\ nextp' = IF thread = <<>> THEN nextp
                    ELSE [nextp EXCEPT ![thread[Len(thread)]] = m]
        /\ result' = [result EXCEPT ![Len(result)] =
                        [threads |-> [Schedule.threads EXCEPT ![th] = Append(thread, m)],
                         mtasks |-> Schedule.mtasks \cup {m},
                         endTime |-> Max({Schedule.endTime, end})]]
        /\ busyUntil' = [busyUntil EXCEPT ![th] = end]

\* The best mtask is assigned; its successors may become ready.
PackBest ==
    \E c \in Candidates :
        /\ IsBest(c)
        /\ ScheduleOn(c[2], c[1], TimeBegin(c))
        /\ ready' = (ready \ {c[2]}) \cup
                    {n \in MTask : c[2] \in Preds(n) /\ IsReady(n, Assigned \cup {c[2]})}
        /\ mode' = IF mode = "scheduling" /\ \E m \in ready : Wide(m)
                   THEN "wideDiscovered" ELSE mode
        /\ UNCHANGED input

\* A faulty variant: the new schedule starts at time 0 again.
NewScheduleAtZero(before, n) ==
    /\ result' = Append(before, ThreadSchedule(n))
    /\ UNCHANGED <<input, state, busyUntil, ready>>

\* The next schedule begins when the last one ends.
NewSchedule(before, n) ==
    /\ result' = Append(before, ThreadSchedule(n))
    /\ busyUntil' = [t \in BusyThreads |-> Schedule.endTime]
    /\ UNCHANGED <<input, state, ready>>

\* A faulty variant: a first schedule without mtasks is kept.
StartWideKeepEmpty ==
    /\ ready # {} /\ Eligible = {} /\ mode # "wideScheduling"
    /\ mode' = "wideScheduling"
    /\ NewSchedule(result, WideSize(input))

\* Only wide mtasks are ready: they get a schedule of their own, and a first schedule
\* without mtasks is dropped.
StartWide ==
    /\ ready # {} /\ Eligible = {} /\ mode # "wideScheduling"
    /\ mode' = "wideScheduling"
    /\ NewSchedule(IF Assigned = {} THEN <<>> ELSE result, WideSize(input))

\* No wide mtask is ready any more: back to a schedule of all threads.
StartNormal ==
    /\ ready # {} /\ Eligible = {} /\ mode = "wideScheduling"
    /\ mode' = "scheduling"
    /\ NewSchedule(result, NThreads)

Packed == ready = {} /\ UNCHANGED vars

Round == PackBest \/ StartWide \/ StartNormal
Next == Round \/ Packed

Spec == Init /\ [][Next]_vars

\* The compiler runs.
FairSpec == Spec /\ WF_vars(Round)

--------------------------------------------------------------------------------
(* Properties *)

\* m has position i on thread t of schedule k.
At(m, k, t, i) ==
    /\ k \in DOMAIN result
    /\ t \in DOMAIN result[k].threads
    /\ i \in DOMAIN result[k].threads[t]
    /\ result[k].threads[t][i] = m

Places(m) ==
    {q \in UNION {UNION {{<<k, t, i>> : i \in DOMAIN result[k].threads[t]}
                           : t \in DOMAIN result[k].threads} : k \in DOMAIN result} :
        At(m, q[1], q[2], q[3])}

Schedules(n) ==
    [threads : [0 .. n - 1 -> Seq(MTask)], mtasks : SUBSET MTask, endTime : Nat]

\* Every variable keeps its type.
TypeOK ==
    /\ result \in Seq(Schedules(NThreads) \cup Schedules(WideSize(input))) \ {<<>>}
    /\ threadId \in [MTask -> BusyThreads \cup {UNASSIGNED}]
    /\ completion \in [MTask -> Nat] /\ predictStart \in [MTask -> Nat]
    /\ nextp \in [MTask -> MTask \cup {None}]
    /\ busyUntil \in [BusyThreads -> Nat]
    /\ ready \in SUBSET MTask
    /\ mode \in {"scheduling", "wideDiscovered", "wideScheduling"}

\* The order ExecGraph relies on: whatever depends on m comes in a later schedule, on
\* another thread of the same schedule, or later on the same thread.
OrderKept ==
    \A e \in input.edges : \A k2 \in DOMAIN result : \A t2 \in DOMAIN result[k2].threads :
        \A i2 \in DOMAIN result[k2].threads[t2] : At(e[2], k2, t2, i2) =>
            \E k1 \in DOMAIN result : \E t1 \in DOMAIN result[k1].threads :
                \E i1 \in DOMAIN result[k1].threads[t1] :
                    /\ At(e[1], k1, t1, i1)
                    /\ k1 <= k2
                    /\ k1 = k2 /\ t1 = t2 => i1 < i2

\* In the generated code m waits for p: p signals m, or precedes it on its thread.
WaitsFor(m, p) ==
    \/ <<p, m>> \in input.edges
    \/ \E k \in DOMAIN result : \E t \in DOMAIN result[k].threads :
          \E i, j \in DOMAIN result[k].threads[t] :
              i < j /\ At(p, k, t, i) /\ At(m, k, t, j)

\* The threads of a packed schedule cannot wait for each other in a circle: every set
\* of assigned mtasks has one that waits for no other of the set.
NoCircularWait ==
    \A S \in SUBSET Assigned : S # {} => \E m \in S : \A p \in S : ~WaitsFor(m, p)

\* An assigned mtask is on exactly one thread of one schedule, a ready or waiting one
\* on none.  Unless the graph itself is empty, only the schedule being filled may be
\* empty, and not at the end: every schedule yields thread functions.
PackedOnce ==
    /\ \A m \in MTask : Cardinality(Places(m)) = IF m \in Assigned THEN 1 ELSE 0
    /\ \A k \in DOMAIN result :
          result[k].mtasks = {} => MTask = {} \/ (ready # {} /\ k = Len(result))

\* The prediction is consistent unless some mtask costs nothing: an mtask is predicted
\* to begin when everything it depends on, in whichever schedule, is over and so are
\* the earlier mtasks of its thread.
PredictedTimes ==
    (\A m \in MTask : input.cost[m] > 0) =>
        \A m, p \in Assigned : WaitsFor(m, p) => completion[p] <= predictStart[m]

\* Wide mtasks share no schedule with others, and the threads of the pool are enough
\* even when every thread of the schedule runs an mtask as wide as its widest.
WideAlone ==
    \A k \in DOMAIN result : \A m \in result[k].mtasks :
        /\ \A p \in result[k].mtasks : Wide(m) <=> Wide(p)
        /\ Wide(m) =>
              Cardinality(DOMAIN result[k].threads) * input.threads[m] <= NHierThreads

--------------------------------------------------------------------------------
(* The inductive invariant behind the proofs (module PackThreadsProofs). *)

\* The mtasks on the threads of the schedules are the assigned ones.
Placed ==
    \A m \in MTask : m \in Assigned <=>
        \E k \in DOMAIN result : \E t \in DOMAIN result[k].threads :
            \E i \in DOMAIN result[k].threads[t] : At(m, k, t, i)

\* What an assigned or a ready mtask depends on is assigned.
PredsAssigned ==
    /\ \A m \in Assigned : Preds(m) \subseteq Assigned
    /\ \A m \in ready : Preds(m) \subseteq Assigned /\ m \notin Assigned

IInv == input \in Inputs /\ TypeOK /\ Placed /\ PredsAssigned /\ OrderKept /\ NoCircularWait

\* A schedule is left only with mtasks in it, and the current one will get some.
Filled ==
    /\ \A k \in DOMAIN result : result[k].mtasks = {} => k = Len(result)
    /\ Schedule.mtasks = {} => MTask = {} \/ (ready # {} /\
          (Eligible # {} \/ (Assigned = {} /\ mode # "wideScheduling")))

\* The current schedule holds what its mode asks for, and has the threads for it.
OneWidth ==
    /\ \A m \in Schedule.mtasks : Wide(m) <=> mode = "wideScheduling"
    /\ mode = "wideScheduling" => DOMAIN Schedule.threads = 0 .. WideSize(input) - 1

\* The current schedule, once it has an mtask, ends after everything assigned.
EndClock ==
    Schedule.mtasks # {} => \A m \in Assigned : completion[m] <= Schedule.endTime

\* An mtask that follows another one on a thread ends later by its own cost at least.
FollowClock ==
    \A m \in MTask : nextp[m] # None =>
        /\ m \in Assigned /\ nextp[m] \in Assigned
        /\ completion[m] + input.cost[nextp[m]] <= completion[nextp[m]]
================================================================================
