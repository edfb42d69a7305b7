----------------------------- MODULE VlWorkerThread -----------------------------
(***************************************************************************)
(* VlWorkerThread: one worker of the simulation thread pool and the        *)
(* threads that give it work.  Callers use addTask() and wait(); the owner *)
(* of the pool destroys the worker when no call is under way (shutdown(),  *)
(* then join).                                                             *)
(*                                                                         *)
(* A critical section under m_mutex is one step: everything it touches is  *)
(* guarded by the mutex, except m_ready_size, which is read without it     *)
(* only to leave the spin loop early.  The notification after the unlock   *)
(* is a step of its own, and waits on the condition variable may end       *)
(* spuriously.                                                             *)
(***************************************************************************)
EXTENDS Integers, Sequences, FiniteSets

CONSTANTS
    Caller,     \* threads calling addTask and wait
    Owner,      \* the thread running ~VlThreadPool
    MaxCalls,   \* bound on the calls of each caller
    Idle        \* no task

ASSUME CallerAssumption ==
    /\ Owner \notin Caller
    /\ MaxCalls \in Nat

Thread == Caller \cup {Owner}

\* Execution records: the k'th call of a caller adds a task or, from wait(), the
\* task that sets the flag on the caller's stack; the owner adds shutdownTask.
ExecRec == [by : Thread, k : 0 .. MaxCalls, kind : {"task", "flag", "shutdown"}]
ShutdownTask == [by |-> Owner, k |-> 0, kind |-> "shutdown"]

ASSUME IdleAssumption == Idle \notin ExecRec

VARIABLES
    ready,      \* m_ready
    waiting,    \* m_waiting
    wpc,        \* the worker: "spin", "lock", "cv", "run", "exit"
    work,       \* the record the worker executes, or Idle
    pc,         \* each thread: "idle", "notify", "flag", "join", "done"
    notify,     \* the local of addTask: m_waiting as read under the mutex
    inWait,     \* the thread is in wait() rather than in addTask()
    flag,       \* the std::atomic<bool> on the stack of wait()
    calls       \* calls made so far

\* History: records in the order they were added, and those executed to the end.
VARIABLES added, executed

vars == <<ready, waiting, wpc, work, pc, notify, inWait, flag, calls, added, executed>>

Init ==
    /\ ready = <<>>
    /\ waiting = FALSE
    /\ wpc = "lock"                     \* the first dequeWork does not spin
    /\ work = Idle
    /\ pc = [t \in Thread |-> "idle"]
    /\ notify = [t \in Thread |-> FALSE]
    /\ inWait = [t \in Thread |-> FALSE]
    /\ flag = [t \in Thread |-> FALSE]
    /\ calls = [t \in Thread |-> 0]
    /\ added = <<>>
    /\ executed = <<>>

--------------------------------------------------------------------------------
(* Threads that use the worker. *)

\* A faulty variant.
AddTaskAtFront(t, rec) ==
    /\ ready' = <<rec>> \o ready
    /\ notify' = [notify EXCEPT ![t] = waiting]
    /\ pc' = [pc EXCEPT ![t] = "notify"]
    /\ added' = Append(added, rec)

\* The critical section of addTask.
AddTask(t, rec) ==
    /\ ready' = Append(ready, rec)
    /\ notify' = [notify EXCEPT ![t] = waiting]
    /\ pc' = [pc EXCEPT ![t] = "notify"]
    /\ added' = Append(added, rec)

Live == pc[Owner] = "idle"

CallAddTask(c) ==
    /\ Live
    /\ pc[c] = "idle"
    /\ calls[c] < MaxCalls
    /\ calls' = [calls EXCEPT ![c] = @ + 1]
    /\ AddTask(c, [by |-> c, k |-> calls'[c], kind |-> "task"])
    /\ inWait' = [inWait EXCEPT ![c] = FALSE]
    /\ UNCHANGED <<waiting, wpc, work, flag, executed>>

\* wait(): a task that sets the flag is queued behind everything added so far.
CallWait(c) ==
    /\ Live
    /\ pc[c] = "idle"
    /\ calls[c] < MaxCalls
    /\ calls' = [calls EXCEPT ![c] = @ + 1]
    /\ AddTask(c, [by |-> c, k |-> calls'[c], kind |-> "flag"])
    /\ inWait' = [inWait EXCEPT ![c] = TRUE]
    /\ flag' = [flag EXCEPT ![c] = FALSE]
    /\ UNCHANGED <<waiting, wpc, work, executed>>

\* if (notify) m_cv.notify_one(), after the mutex has been released.
NotifyOne(t) ==
    /\ pc[t] = "notify"
    /\ wpc' = IF notify[t] /\ wpc = "cv" THEN "lock" ELSE wpc
    /\ pc' = [pc EXCEPT ![t] = CASE t = Owner -> "join"
                                 [] t # Owner /\ inWait[t] -> "flag"
                                 [] OTHER -> "idle"]
    /\ UNCHANGED <<ready, waiting, work, notify, inWait, flag, calls, added, executed>>

\* A faulty variant: the spin gives up without the flag.
WaitReturnsUnset(c) ==
    /\ pc[c] = "flag"
    /\ pc' = [pc EXCEPT ![c] = "idle"]
    /\ UNCHANGED <<ready, waiting, wpc, work, notify, inWait, flag, calls, added, executed>>

\* The spin or yield loop of wait() sees the flag; the frame with the flag ends.
WaitReturns(c) ==
    /\ pc[c] = "flag"
    /\ flag[c]
    /\ pc' = [pc EXCEPT ![c] = "idle"]
    /\ UNCHANGED <<ready, waiting, wpc, work, notify, inWait, flag, calls, added, executed>>

\* ~VlWorkerThread: shutdown() ...
Shutdown ==
    /\ Live
    /\ \A c \in Caller : pc[c] = "idle"
    /\ AddTask(Owner, ShutdownTask)
    /\ UNCHANGED <<waiting, wpc, work, inWait, flag, calls, executed>>

\* ... and m_cthread.join().
JoinThread ==
    /\ pc[Owner] = "join"
    /\ wpc = "exit"
    /\ pc' = [pc EXCEPT ![Owner] = "done"]
    /\ UNCHANGED <<ready, waiting, wpc, work, notify, inWait, flag, calls, added, executed>>

--------------------------------------------------------------------------------
(* The worker. *)

\* Work appears, or VL_LOCK_SPINS rounds have passed.
SpinEnds ==
    /\ wpc = "spin"
    /\ wpc' = "lock"
    /\ UNCHANGED <<ready, waiting, work, pc, notify, inWait, flag, calls, added, executed>>

\* A faulty variant: m_waiting is not set.
DequeWorkNotWaiting ==
    /\ wpc = "lock"
    /\ \/ /\ ready = <<>>
          /\ wpc' = "cv"
          /\ UNCHANGED <<ready, work, waiting>>
       \/ /\ ready # <<>>
          /\ waiting' = FALSE
          /\ work' = Head(ready)
          /\ ready' = Tail(ready)
          /\ wpc' = "run"
    /\ UNCHANGED <<pc, notify, inWait, flag, calls, added, executed>>

\* dequeWork with the mutex held: block if there is nothing, else take the front.
DequeWork ==
    /\ wpc = "lock"
    /\ \/ /\ ready = <<>>
          /\ waiting' = TRUE
          /\ wpc' = "cv"
          /\ UNCHANGED <<ready, work>>
       \/ /\ ready # <<>>
          /\ waiting' = FALSE
          /\ work' = Head(ready)
          /\ ready' = Tail(ready)
          /\ wpc' = "run"
    /\ UNCHANGED <<pc, notify, inWait, flag, calls, added, executed>>

\* m_cv.wait returns without a notification.
SpuriousWake ==
    /\ wpc = "cv"
    /\ wpc' = "lock"
    /\ UNCHANGED <<ready, waiting, work, pc, notify, inWait, flag, calls, added, executed>>

\* workerLoop: the task ends, or is the shutdown task and the loop does.
RunTask ==
    /\ wpc = "run"
    /\ wpc' = IF work = ShutdownTask THEN "exit" ELSE "spin"
    /\ flag' = IF work.kind = "flag" THEN [flag EXCEPT ![work.by] = TRUE] ELSE flag
    /\ executed' = Append(executed, work)
    /\ work' = Idle
    /\ UNCHANGED <<ready, waiting, pc, notify, inWait, calls, added>>

--------------------------------------------------------------------------------
WorkerLoop == SpinEnds \/ DequeWork \/ RunTask

Finished == pc[Owner] = "done" /\ UNCHANGED vars

Next ==
    \/ \E c \in Caller : CallAddTask(c) \/ CallWait(c) \/ WaitReturns(c)
    \/ \E t \in Thread : NotifyOne(t)
    \/ Shutdown
    \/ JoinThread
    \/ WorkerLoop
    \/ SpuriousWake
    \/ Finished

Spec == Init /\ [][Next]_vars

\* The operating system runs every thread; nobody has to make another call, and
\* a spurious wake-up is never owed.
FairSpec ==
    /\ Spec
    /\ WF_vars(WorkerLoop)
    /\ \A t \in Thread : WF_vars(NotifyOne(t))
    /\ \A c \in Caller : WF_vars(WaitReturns(c))
    /\ WF_vars(JoinThread)

--------------------------------------------------------------------------------
(* Properties *)

\* Every variable keeps its type.
TypeOK ==
    /\ ready \in Seq(ExecRec)
    /\ waiting \in BOOLEAN
    /\ wpc \in {"spin", "lock", "cv", "run", "exit"}
    /\ work \in ExecRec \cup {Idle}
    /\ pc \in [Thread -> {"idle", "notify", "flag", "join", "done"}]
    /\ notify \in [Thread -> BOOLEAN]
    /\ inWait \in [Thread -> BOOLEAN]
    /\ flag \in [Thread -> BOOLEAN]
    /\ calls \in [Thread -> 0 .. MaxCalls]
    /\ added \in Seq(ExecRec)
    /\ executed \in Seq(ExecRec)

\* The worker never sleeps on the condition variable over a task without some
\* thread being about to notify it: `Only notify the condition_variable if the
\* worker is waiting' loses no wake-up.
NoLostWakeup ==
    wpc = "cv" /\ ready # <<>> => \E t \in Thread : pc[t] = "notify" /\ notify[t]

\* Execution is in order and nothing is lost or run twice: what was executed,
\* what is running and what is queued are together what was added.
InOrder ==
    added = executed \o (IF wpc = "run" THEN <<work>> ELSE <<>>) \o ready

\* wait() returns only when everything added before it has been executed.
WaitDrains ==
    [][\A c \in Caller :
          pc[c] = "flag" /\ pc'[c] = "idle" =>
              \E n \in 1 .. Len(executed) :
                  /\ executed[n] = [by |-> c, k |-> calls[c], kind |-> "flag"]
                  /\ \A i \in 1 .. n : added[i] = executed[i]]_vars

\* The flag a task sets lives on the stack of wait(): the task never runs, nor is
\* queued, when that frame is gone.
FlagFrameAlive ==
    \A c \in Caller :
        (\/ wpc = "run" /\ work.kind = "flag" /\ work.by = c
         \/ \E i \in 1 .. Len(ready) : ready[i].kind = "flag" /\ ready[i].by = c)
            => inWait[c] /\ pc[c] \in {"notify", "flag"} /\ ~flag[c]

\* The thread exits only with an empty queue: shutdown finishes current tasks.
ExitDrained == wpc = "exit" => ready = <<>>

\* The destructor returns.
DestructorReturns == pc[Owner] # "idle" ~> pc[Owner] = "done"

TQ == INSTANCE TaskQueue
      WITH Task <- ExecRec, Stop <- ShutdownTask,
           todo <- ready, current <- work, stopped <- (wpc = "exit")

\* The worker implements the abstract task queue, its liveness included: every
\* task added is begun and ended, in order.
ImplementsTaskQueue == TQ!QSpec

--------------------------------------------------------------------------------
(* The inductive invariant behind the proofs (module VlWorkerThreadProofs). *)

\* The worker has a record exactly while it runs one, and a sleeping worker is seen
\* as waiting by whoever adds a task.
WorkerInv ==
    /\ wpc = "run" => work \in ExecRec
    /\ wpc # "run" => work = Idle
    /\ wpc = "cv" => waiting

\* The shutdown task is the last one ever added.
ShutdownInv ==
    /\ pc[Owner] = "idle" =>
           /\ wpc # "exit" /\ (wpc = "run" => work # ShutdownTask)
           /\ \A i \in 1 .. Len(ready) : ready[i] # ShutdownTask
    /\ \A i \in 1 .. Len(ready) : ready[i] = ShutdownTask => i = Len(ready)
    /\ wpc = "run" /\ work = ShutdownTask => ready = <<>>
    /\ wpc = "exit" => ready = <<>>

FlagOf(rec, c) == rec.kind = "flag" /\ rec.by = c

\* A caller has at most one flag task, that of its current call; once the flag is
\* set the task has been executed.
FlagInv ==
    \A c \in Caller :
        /\ wpc = "run" /\ FlagOf(work, c) =>
               /\ work.k = calls[c]
               /\ \A i \in 1 .. Len(ready) : ~FlagOf(ready[i], c)
        /\ \A i \in 1 .. Len(ready) : FlagOf(ready[i], c) =>
               /\ ready[i].k = calls[c]
               /\ \A j \in 1 .. Len(ready) : FlagOf(ready[j], c) => i = j
        /\ pc[c] = "flag" => inWait[c]
        /\ inWait[c] /\ pc[c] \in {"notify", "flag"} /\ flag[c] =>
               \E n \in 1 .. Len(executed) :
                   executed[n] = [by |-> c, k |-> calls[c], kind |-> "flag"]

IInv == TypeOK /\ WorkerInv /\ NoLostWakeup /\ InOrder /\ ShutdownInv /\ FlagFrameAlive /\ FlagInv
================================================================================
