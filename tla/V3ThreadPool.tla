------------------------------ MODULE V3ThreadPool ------------------------------
(***************************************************************************)
(* The thread pool of the Verilator compiler itself and V3ThreadScope, the *)
(* only way to use it.  The main thread opens scopes one after another,    *)
(* enqueues jobs, may wait in the middle of a scope (as the emitters do)   *)
(* and waits again when the scope ends; at exit it destroys the pool.      *)
(* Jobs refer to locals of the scope that enqueued them.                   *)
(***************************************************************************)
EXTENDS Integers, Sequences, FiniteSets

CONSTANTS
    Worker,     \* the std::threads a pool of more than one thread has
    MaxJobs,    \* bound on the jobs ever enqueued; jobs are 1 .. MaxJobs
    SizeMod     \* m_pendingJobs is a size_t: arithmetic modulo SizeMod

ASSUME PoolAssumption ==
    /\ IsFiniteSet(Worker) /\ Worker # {}
    /\ MaxJobs \in Nat
    /\ SizeMod \in Nat
    /\ SizeMod > MaxJobs

Job == 1 .. MaxJobs
NoJob == 0

VARIABLES
    workers,    \* m_workers
    queue,      \* m_queue
    pending,    \* m_pendingJobs
    shutdown,   \* m_shutdown
    wpc,        \* each worker: "lock", "cv", "run", "count", "exit"
    job,        \* the job a worker runs
    mpc,        \* the main thread
    nextJob     \* number of the next job to be enqueued

\* History: jobs that have run to the end.
VARIABLE finished

vars == <<workers, queue, pending, shutdown, wpc, job, mpc, nextJob, finished>>

\* V3ThreadPool(numThreads): a pool of one thread has no workers at all.
Init ==
    /\ workers \in {{}, Worker}
    /\ queue = <<>>
    /\ pending = 0
    /\ shutdown = FALSE
    /\ wpc = [w \in Worker |-> "lock"]
    /\ job = [w \in Worker |-> NoJob]
    /\ mpc = "outside"
    /\ nextJob = 1
    /\ finished = {}

Enqueued == 1 .. nextJob - 1

--------------------------------------------------------------------------------
(* The main thread. *)

\* V3ThreadScope(): begins with a wait.
OpenScope ==
    /\ mpc = "outside"
    /\ mpc' = "ctorWait"
    /\ UNCHANGED <<workers, queue, pending, shutdown, wpc, job, nextJob, finished>>

\* ~V3ThreadScope().
CloseScope ==
    /\ mpc = "scope"
    /\ mpc' = "dtorWait"
    /\ UNCHANGED <<workers, queue, pending, shutdown, wpc, job, nextJob, finished>>

\* V3ThreadScope::wait() called by the user of the scope.
CallWait ==
    /\ mpc = "scope"
    /\ mpc' = "midWait"
    /\ UNCHANGED <<workers, queue, pending, shutdown, wpc, job, nextJob, finished>>

\* enqueue() without workers runs the job on the spot.
EnqueueInline ==
    /\ mpc = "scope"
    /\ nextJob <= MaxJobs
    /\ workers = {}
    /\ nextJob' = nextJob + 1
    /\ finished' = finished \cup {nextJob}
    /\ UNCHANGED <<workers, queue, pending, shutdown, wpc, job, mpc>>

\* enqueue(): push under the lock ...
EnqueuePush ==
    /\ mpc = "scope"
    /\ nextJob <= MaxJobs
    /\ workers # {}
    /\ queue' = Append(queue, nextJob)
    /\ nextJob' = nextJob + 1
    /\ mpc' = "pushed"
    /\ UNCHANGED <<workers, pending, shutdown, wpc, job, finished>>

\* ... then m_pendingJobs.fetch_add(1) ...
EnqueueCount ==
    /\ mpc = "pushed"
    /\ pending' = (pending + 1) % SizeMod
    /\ mpc' = "notify"
    /\ UNCHANGED <<workers, queue, shutdown, wpc, job, nextJob, finished>>

Waiters == {w \in workers : wpc[w] = "cv"}

\* ... then m_cv.notify_one().
EnqueueNotify ==
    /\ mpc = "notify"
    /\ \/ Waiters = {} /\ UNCHANGED wpc
       \/ \E w \in Waiters : wpc' = [wpc EXCEPT ![w] = "lock"]
    /\ mpc' = "scope"
    /\ UNCHANGED <<workers, queue, pending, shutdown, job, nextJob, finished>>

\* A faulty variant: wait() looks at the queue instead of the counter.
WaitReturnsEmptyQueue ==
    /\ mpc \in {"ctorWait", "midWait", "dtorWait"}
    /\ queue = <<>>
    /\ mpc' = IF mpc = "dtorWait" THEN "outside" ELSE "scope"
    /\ UNCHANGED <<workers, queue, pending, shutdown, wpc, job, nextJob, finished>>

\* wait() leaves its loop; m_shutdown is not set while a scope exists.
WaitReturns ==
    /\ mpc \in {"ctorWait", "midWait", "dtorWait"}
    /\ pending = 0
    /\ mpc' = IF mpc = "dtorWait" THEN "outside" ELSE "scope"
    /\ UNCHANGED <<workers, queue, pending, shutdown, wpc, job, nextJob, finished>>

\* ~V3ThreadPool: m_shutdown is set under the lock ...
Destroy ==
    /\ mpc = "outside"
    /\ shutdown' = TRUE
    /\ mpc' = "notifyAll"
    /\ UNCHANGED <<workers, queue, pending, wpc, job, nextJob, finished>>

\* ... then everyone is notified ...
NotifyAll ==
    /\ mpc = "notifyAll"
    /\ wpc' = [w \in Worker |-> IF wpc[w] = "cv" THEN "lock" ELSE wpc[w]]
    /\ mpc' = "join"
    /\ UNCHANGED <<workers, queue, pending, shutdown, job, nextJob, finished>>

\* ... and wait() joins the workers.
JoinAll ==
    /\ mpc = "join"
    /\ \A w \in workers : wpc[w] = "exit"
    /\ mpc' = "destroyed"
    /\ UNCHANGED <<workers, queue, pending, shutdown, wpc, job, nextJob, finished>>

--------------------------------------------------------------------------------
(* workerJobLoop *)

\* A faulty variant: the predicate forgets m_shutdown.
TakeJobNoShutdown(w) ==
    /\ wpc[w] = "lock"
    /\ \/ /\ queue # <<>>
          /\ job' = [job EXCEPT ![w] = Head(queue)]
          /\ queue' = Tail(queue)
          /\ wpc' = [wpc EXCEPT ![w] = "run"]
       \/ /\ queue = <<>>
          /\ wpc' = [wpc EXCEPT ![w] = "cv"]
          /\ UNCHANGED <<job, queue>>
    /\ UNCHANGED <<workers, pending, shutdown, mpc, nextJob, finished>>

\* With the lock: the predicate of m_cv.wait decides to block, end or take a job.
TakeJob(w) ==
    /\ wpc[w] = "lock"
    /\ \/ /\ shutdown
          /\ wpc' = [wpc EXCEPT ![w] = "exit"]
          /\ UNCHANGED <<job, queue>>
       \/ /\ ~shutdown
          /\ queue # <<>>
          /\ job' = [job EXCEPT ![w] = Head(queue)]
          /\ queue' = Tail(queue)
          /\ wpc' = [wpc EXCEPT ![w] = "run"]
       \/ /\ ~shutdown
          /\ queue = <<>>
          /\ wpc' = [wpc EXCEPT ![w] = "cv"]
          /\ UNCHANGED <<job, queue>>
    /\ UNCHANGED <<workers, pending, shutdown, mpc, nextJob, finished>>

SpuriousWake(w) ==
    /\ wpc[w] = "cv"
    /\ wpc' = [wpc EXCEPT ![w] = "lock"]
    /\ UNCHANGED <<workers, queue, pending, shutdown, job, mpc, nextJob, finished>>

\* job() returns.
RunJob(w) ==
    /\ wpc[w] = "run"
    /\ finished' = finished \cup {job[w]}
    /\ wpc' = [wpc EXCEPT ![w] = "count"]
    /\ UNCHANGED <<workers, queue, pending, shutdown, job, mpc, nextJob>>

\* A faulty variant: a job that ends without being counted.
CountDownSkipped(w) ==
    /\ wpc[w] = "count"
    /\ job' = [job EXCEPT ![w] = NoJob]
    /\ wpc' = [wpc EXCEPT ![w] = "lock"]
    /\ UNCHANGED <<workers, queue, pending, shutdown, mpc, nextJob, finished>>

\* m_pendingJobs.fetch_sub(1); a size_t wraps below zero.
CountDown(w) ==
    /\ wpc[w] = "count"
    /\ pending' = (pending + SizeMod - 1) % SizeMod
    /\ job' = [job EXCEPT ![w] = NoJob]
    /\ wpc' = [wpc EXCEPT ![w] = "lock"]
    /\ UNCHANGED <<workers, queue, shutdown, mpc, nextJob, finished>>

--------------------------------------------------------------------------------
MainStep ==
    \/ EnqueueCount \/ EnqueueNotify \/ WaitReturns
    \/ NotifyAll \/ JoinAll

WorkerLoop(w) == TakeJob(w) \/ RunJob(w) \/ CountDown(w)

Finished == mpc = "destroyed" /\ UNCHANGED vars

Next ==
    \/ OpenScope \/ CloseScope \/ CallWait
    \/ EnqueueInline \/ EnqueuePush
    \/ Destroy
    \/ MainStep
    \/ \E w \in workers : WorkerLoop(w) \/ SpuriousWake(w)
    \/ Finished

Spec == Init /\ [][Next]_vars

\* Threads are scheduled and jobs end; what the compiler does with its scopes is
\* its own business, so opening, filling and closing them is not owed.
FairSpec ==
    /\ Spec
    /\ WF_vars(MainStep)
    /\ \A w \in Worker : WF_vars(w \in workers /\ WorkerLoop(w))

--------------------------------------------------------------------------------
(* Properties *)

\* Every variable keeps its type.
TypeOK ==
    /\ workers \in {{}, Worker}
    /\ queue \in Seq(Job)
    /\ pending \in 0 .. SizeMod - 1
    /\ shutdown \in BOOLEAN
    /\ wpc \in [Worker -> {"lock", "cv", "run", "count", "exit"}]
    /\ job \in [Worker -> Job \cup {NoJob}]
    /\ mpc \in {"outside", "ctorWait", "scope", "pushed", "notify", "midWait",
                "dtorWait", "notifyAll", "join", "destroyed"}
    /\ nextJob \in 1 .. MaxJobs + 1
    /\ finished \in SUBSET Job

\* Jobs are completed within the scope that enqueued them: whenever no scope is
\* open, also after the pool is gone, every job enqueued has run, and none is
\* still in a worker's hands.
CompletedInScope ==
    mpc \in {"outside", "ctorWait", "notifyAll", "join", "destroyed"}
        => finished = Enqueued /\ queue = <<>>

\* The wait of a scope counts exactly: outside the window of enqueue() between
\* push and count the counter is the number of jobs not yet counted down.
Uncounted == {j \in Enqueued : \/ j \notin finished
                               \/ \E w \in Worker : job[w] = j}
PendingExact ==
    workers # {} /\ mpc # "pushed" => pending = Cardinality(Uncounted)

\* A wait returns, and so does the destructor.
WaitsReturn ==
    /\ mpc \in {"ctorWait", "midWait", "dtorWait"} ~> mpc \in {"scope", "outside"}
    /\ shutdown ~> mpc = "destroyed"

================================================================================
