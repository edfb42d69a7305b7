--------------------------- MODULE V3ThreadPoolProofs ---------------------------
(***************************************************************************)
(* Proofs about the compiler's thread pool, for any number of workers and  *)
(* jobs: types, that the counter wait() reads is exact although enqueue()  *)
(* counts a job only after pushing it, and that a scope never outlives a   *)
(* job of its own.                                                         *)
(***************************************************************************)
EXTENDS V3ThreadPool, FiniteSetTheorems, SequenceTheorems, TLAPS

\* The oldest job nobody has taken: the queue holds First .. nextJob - 1 in order.
First == nextJob - Len(queue)

Fifo ==
    /\ First >= 1
    /\ \A i \in 1 .. Len(queue) : queue[i] = First + i - 1

\* A job is with one worker at most, from TakeJob to CountDown.
Held ==
    /\ \A w \in Worker : job[w] # NoJob <=> wpc[w] \in {"run", "count"}
    /\ \A w \in Worker : job[w] < First
    /\ \A v, w \in Worker : job[v] = job[w] /\ job[v] # NoJob => v = w

\* A job taken is being run or has run.
Progress ==
    /\ \A w \in Worker : wpc[w] = "run" => job[w] \notin finished
    /\ \A w \in Worker : wpc[w] = "count" => job[w] \in finished
    /\ \A j \in finished : j < First
    /\ \A j \in 1 .. First - 1 :
        j \in finished \/ \E w \in Worker : wpc[w] = "run" /\ job[w] = j

\* The value of the counter while the last job pushed has not been counted: that
\* job may already have been run and counted down, and the size_t has wrapped.
Early(n) == IF n = 0 THEN SizeMod - 1 ELSE n - 1

Counter ==
    workers # {} =>
        pending = IF mpc = "pushed" THEN Early(Cardinality(Uncounted))
                                    ELSE Cardinality(Uncounted)

\* A pool of one thread runs jobs in enqueue().
Inline ==
    workers = {} => /\ queue = <<>> /\ pending = 0
                    /\ mpc \notin {"pushed", "notify"}
                    /\ \A w \in Worker : wpc[w] = "lock"

\* No scope is open.
NoScope == mpc \in {"outside", "ctorWait", "notifyAll", "join", "destroyed"}

Inv ==
    /\ TypeOK /\ Fifo /\ Held /\ Progress /\ Counter /\ Inline
    /\ NoScope => Uncounted = {}

--------------------------------------------------------------------------------
(* What is counted. *)

LEMMA UncountedFinite ==
  ASSUME TypeOK
  PROVE  /\ IsFiniteSet(Uncounted) /\ Cardinality(Uncounted) \in Nat
         /\ Cardinality(Uncounted) <= MaxJobs
         /\ Cardinality(Uncounted) = 0 <=> Uncounted = {}
<1>1. Uncounted \subseteq 1 .. MaxJobs
  BY PoolAssumption DEF Uncounted, Enqueued, TypeOK
<1>2. IsFiniteSet(1 .. MaxJobs) /\ Cardinality(1 .. MaxJobs) = MaxJobs
  BY FS_Interval, PoolAssumption
<1>3. IsFiniteSet(Uncounted) /\ Cardinality(Uncounted) <= MaxJobs
  BY <1>1, <1>2, FS_Subset
<1> QED
  BY <1>3, FS_CardinalityType, FS_EmptySet

\* A queue that is not empty holds a job that has not run.
LEMMA NoneUncounted ==
  ASSUME Inv, Uncounted = {}
  PROVE  finished = Enqueued /\ queue = <<>>
<1>1. nextJob \in Nat /\ Len(queue) \in Nat /\ finished \subseteq Nat
  BY PoolAssumption DEF Inv, TypeOK, Job
<1>2. Len(queue) = 0
  <2> SUFFICES ASSUME Len(queue) # 0 PROVE FALSE
    OBVIOUS
  <2>1. First \in Enqueued
    BY <1>1 DEF Inv, Fifo, First, Enqueued
  <2>2. First \notin finished
    BY <1>1 DEF Inv, Progress, First
  <2> QED
    BY <2>1, <2>2 DEF Uncounted
<1>3. queue = <<>>
  BY <1>2, EmptySeq DEF Inv, TypeOK
<1>4. finished \subseteq Enqueued
  BY <1>1, <1>2, PoolAssumption DEF Inv, Progress, First, Enqueued, TypeOK, Job
<1>5. Enqueued \subseteq finished
  BY DEF Uncounted
<1> QED
  BY <1>3, <1>4, <1>5

--------------------------------------------------------------------------------
(* The initial state and the steps. *)

LEMMA InitInv == Init => Inv
<1> SUFFICES ASSUME Init PROVE Inv
  OBVIOUS
<1> USE PoolAssumption
<1>0. queue \in Seq(Job) /\ job \in [Worker -> Job \cup {NoJob}]
  <2>1. queue = <<>> /\ job = [w \in Worker |-> NoJob]
    BY DEF Init
  <2> QED
    BY <2>1, EmptySeq
<1>1. TypeOK
  <2>1. /\ workers \in {{}, Worker} /\ shutdown \in BOOLEAN /\ finished \in SUBSET Job
        /\ wpc \in [Worker -> {"lock", "cv", "run", "count", "exit"}]
        /\ mpc = "outside" /\ pending = 0 /\ nextJob = 1
    BY DEF Init
  <2>2. pending \in 0 .. SizeMod - 1 /\ nextJob \in 1 .. MaxJobs + 1
    BY <2>1
  <2> QED
    BY <1>0, <2>1, <2>2 DEF TypeOK
<1>2. Len(queue) = 0 /\ First = 1 /\ queue = <<>>
  BY DEF Init, First
<1>3. Uncounted = {}
  BY DEF Init, Uncounted, Enqueued
<1>4. Cardinality(Uncounted) = 0
  BY <1>3, FS_EmptySet
<1>5. Fifo /\ Held /\ Progress /\ Inline
  BY <1>2 DEF Init, Fifo, Held, Progress, Inline, NoJob
<1>6. Counter
  BY <1>4 DEF Init, Counter
<1> QED
  BY <1>1, <1>3, <1>5, <1>6 DEF Inv

\* A step that moves the main thread or a worker but no job and no count.
LEMMA QuietStep ==
  ASSUME Inv, UNCHANGED <<workers, queue, pending, job, nextJob, finished>>,
         shutdown' \in BOOLEAN,
         wpc' \in [Worker -> {"lock", "cv", "run", "count", "exit"}],
         mpc' \in {"outside", "ctorWait", "scope", "pushed", "notify", "midWait",
                   "dtorWait", "notifyAll", "join", "destroyed"},
         \A w \in Worker : \/ wpc'[w] = wpc[w]
                           \/ {wpc[w], wpc'[w]} \cap {"run", "count"} = {},
         workers = {} => wpc' = wpc /\ mpc' # "notify",
         mpc' = "pushed" <=> mpc = "pushed",
         NoScope' => NoScope \/ Uncounted = {}
  PROVE  Inv'
<1>1. TypeOK'
  BY DEF Inv, TypeOK
<1>2. Uncounted' = Uncounted /\ First' = First /\ Cardinality(Uncounted)' = Cardinality(Uncounted)
  BY DEF Uncounted, Enqueued, First
<1>3. Fifo'
  BY <1>2 DEF Inv, Fifo
<1>4. Held'
  BY <1>2 DEF Inv, Held
<1>5. Progress'
  BY <1>2 DEF Inv, Progress
<1>6. Counter'
  BY <1>2 DEF Inv, Counter, Early
<1>7. Inline'
  BY DEF Inv, Inline
<1> QED
  BY <1>1, <1>2, <1>3, <1>4, <1>5, <1>6, <1>7 DEF Inv

LEMMA EnqueueInlineInv == ASSUME Inv, EnqueueInline PROVE Inv'
<1> USE PoolAssumption
<1>1. TypeOK'
  BY DEF Inv, TypeOK, EnqueueInline, Job
<1>2. queue = <<>> /\ queue' = <<>> /\ Len(queue) = 0 /\ Len(queue') = 0
  BY DEF Inv, Inline, EnqueueInline
<1>3. First = nextJob /\ First' = nextJob + 1 /\ nextJob \in Nat
  BY <1>2 DEF First, EnqueueInline, Inv, TypeOK
<1>4. \A w \in Worker : wpc[w] = "lock" /\ job[w] = NoJob
  BY DEF Inv, Held, Inline, EnqueueInline
<1>5. Fifo'
  BY <1>2, <1>3 DEF Fifo, Inv
<1>6. Held'
  BY <1>3, <1>4 DEF Held, EnqueueInline, NoJob, Inv
<1>7. Progress'
  <2>1. \A j \in finished' : j < First'
    BY <1>3 DEF Inv, Progress, EnqueueInline, TypeOK, Job
  <2>2. \A j \in 1 .. First' - 1 : j \in finished'
    BY <1>3, <1>4 DEF Inv, Progress, EnqueueInline
  <2> QED
    BY <2>1, <2>2, <1>4 DEF Progress, EnqueueInline
<1>8. Counter' /\ Inline'
  BY DEF Inv, Counter, Inline, EnqueueInline
<1>9. ~NoScope'
  BY DEF NoScope, EnqueueInline
<1> QED
  BY <1>1, <1>5, <1>6, <1>7, <1>8, <1>9 DEF Inv

LEMMA EnqueuePushInv == ASSUME Inv, EnqueuePush PROVE Inv'
<1> USE PoolAssumption
<1>0. queue \in Seq(Job) /\ nextJob \in Job /\ nextJob \in Nat
  BY DEF Inv, TypeOK, EnqueuePush, Job
<1>1. /\ queue' \in Seq(Job) /\ Len(queue') = Len(queue) + 1 /\ Len(queue) \in Nat
      /\ \A i \in 1 .. Len(queue) : queue'[i] = queue[i]
      /\ queue'[Len(queue) + 1] = nextJob
  BY <1>0, AppendProperties DEF EnqueuePush
<1>2. First' = First /\ First \in Int
  BY <1>0, <1>1 DEF First, EnqueuePush
<1>3. TypeOK'
  BY <1>1, <1>0 DEF Inv, TypeOK, EnqueuePush, Job
<1>4. Fifo'
  <2>1. \A i \in 1 .. Len(queue) + 1 : queue'[i] = First + i - 1
    <3>1. First + Len(queue) = nextJob
      BY <1>0, <1>1 DEF First
    <3>2. \A i \in 1 .. Len(queue) : queue'[i] = First + i - 1
      BY <1>1 DEF Inv, Fifo
    <3> QED
      BY <1>1, <1>2, <3>1, <3>2
  <2> QED
    BY <2>1, <1>1, <1>2 DEF Inv, Fifo
<1>5. Held' /\ Progress' /\ Inline' /\ ~NoScope'
  BY <1>2 DEF Inv, Held, Progress, Inline, NoScope, EnqueuePush
<1>6. nextJob \notin finished /\ \A w \in Worker : job[w] # nextJob
  BY <1>0, <1>1 DEF Inv, Held, Progress, First
<1>7. Uncounted' = Uncounted \cup {nextJob} /\ nextJob \notin Uncounted
  <2>1. /\ \A j : j \in Enqueued' <=> j \in Enqueued \/ j = nextJob
        /\ nextJob \notin Enqueued
    <3>1. nextJob' = nextJob + 1 /\ nextJob >= 1
      BY <1>0 DEF EnqueuePush, Job
    <3>2. \A j : j \in 1 .. nextJob <=> j \in 1 .. nextJob - 1 \/ j = nextJob
      BY <1>0, <3>1
    <3> QED
      BY <1>0, <3>1, <3>2 DEF Enqueued
  <2>2. UNCHANGED <<finished, job>>
    BY DEF EnqueuePush
  <2>3. ASSUME NEW j PROVE j \in Uncounted' <=> j \in Uncounted \/ j = nextJob
    <3>1. j \in Uncounted' <=> (j \in Enqueued \/ j = nextJob)
                               /\ (j \notin finished \/ \E w \in Worker : job[w] = j)
      BY <2>1, <2>2 DEF Uncounted
    <3>2. j \in Uncounted <=> j \in Enqueued /\ (j \notin finished \/ \E w \in Worker : job[w] = j)
      BY DEF Uncounted
    <3> QED
      BY <1>6, <3>1, <3>2
  <2> QED
    BY <2>1, <2>3 DEF Uncounted
<1>8. Cardinality(Uncounted') = Cardinality(Uncounted) + 1 /\ Cardinality(Uncounted) \in Nat
  BY <1>7, UncountedFinite, FS_AddElement DEF Inv
<1>9. Counter'
  BY <1>8 DEF Inv, Counter, Early, EnqueuePush
<1> QED
  BY <1>3, <1>4, <1>5, <1>9 DEF Inv

LEMMA EnqueueCountInv == ASSUME Inv, EnqueueCount PROVE Inv'
<1> USE PoolAssumption
<1>1. Uncounted' = Uncounted /\ First' = First /\ Cardinality(Uncounted)' = Cardinality(Uncounted)
  BY DEF Uncounted, Enqueued, First, EnqueueCount
<1>2. workers # {}
  BY DEF Inv, Inline, EnqueueCount
<1>3. pending = Early(Cardinality(Uncounted)) /\ Cardinality(Uncounted) \in 0 .. SizeMod - 1
  BY <1>2, UncountedFinite DEF Inv, Counter, EnqueueCount
<1>4. pending' = Cardinality(Uncounted)
  BY <1>3 DEF Early, EnqueueCount
<1>5. TypeOK' /\ Counter'
  BY <1>1, <1>3, <1>4 DEF Inv, TypeOK, Counter, EnqueueCount
<1>6. Fifo' /\ Held' /\ Progress' /\ Inline' /\ ~NoScope'
  BY <1>1, <1>2 DEF Inv, Fifo, Held, Progress, Inline, NoScope, EnqueueCount
<1> QED
  BY <1>5, <1>6 DEF Inv

LEMMA MainQuietInv ==
  ASSUME Inv, OpenScope \/ CloseScope \/ CallWait \/ EnqueueNotify \/ WaitReturns
              \/ Destroy \/ NotifyAll \/ JoinAll
  PROVE  Inv'
<1>t. TypeOK
  BY DEF Inv
<1>1. CASE OpenScope \/ CloseScope \/ CallWait
  BY <1>1, <1>t, QuietStep DEF OpenScope, CloseScope, CallWait, NoScope, TypeOK
<1>2. CASE EnqueueNotify
  <2>1. workers # {}
    BY <1>2 DEF Inv, Inline, EnqueueNotify
  <2>2. workers \subseteq Worker
    BY <1>t DEF TypeOK
  <2> QED
    BY <1>2, <1>t, <2>1, <2>2, QuietStep DEF EnqueueNotify, NoScope, TypeOK, Waiters
<1>3. CASE WaitReturns
  <2>1. NoScope' => NoScope \/ Uncounted = {}
    <3>1. CASE workers # {}
      <4>1. Cardinality(Uncounted) = 0
        BY <1>3, <3>1 DEF Inv, Counter, WaitReturns
      <4> QED
        BY <4>1, <1>t, UncountedFinite
    <3>2. CASE workers = {}
      <4>1. queue = <<>> /\ \A w \in Worker : wpc[w] = "lock" /\ job[w] = NoJob
        BY <3>2 DEF Inv, Inline, Held
      <4>2. First = nextJob /\ nextJob \in Nat
        BY <4>1, <1>t, PoolAssumption DEF First, TypeOK
      <4>3. \A j \in Enqueued : j \in finished /\ j # NoJob
        BY <4>1, <4>2 DEF Inv, Progress, Enqueued, NoJob
      <4> QED
        BY <4>1, <4>3 DEF Uncounted
    <3> QED
      BY <3>1, <3>2
  <2> QED
    BY <1>3, <1>t, <2>1, QuietStep DEF WaitReturns, TypeOK
<1>4. CASE Destroy
  BY <1>4, <1>t, QuietStep DEF Destroy, NoScope, TypeOK
<1>5. CASE NotifyAll
  <2>1. workers = {} => wpc' = wpc
    BY <1>5, <1>t DEF Inv, Inline, NotifyAll, TypeOK
  <2> QED
    BY <1>5, <1>t, <2>1, QuietStep DEF NotifyAll, NoScope, TypeOK
<1>6. CASE JoinAll
  BY <1>6, <1>t, QuietStep DEF JoinAll, NoScope, TypeOK
<1> QED
  BY <1>1, <1>2, <1>3, <1>4, <1>5, <1>6

LEMMA TakeJobInv == ASSUME Inv, NEW w \in Worker, w \in workers, TakeJob(w) PROVE Inv'
<1> USE PoolAssumption
<1>t. TypeOK
  BY DEF Inv
<1>1. CASE ~(~shutdown /\ queue # <<>>)
  <2>1. UNCHANGED <<workers, queue, pending, shutdown, job, mpc, nextJob, finished>>
        /\ wpc[w] = "lock"
        /\ (wpc' = [wpc EXCEPT ![w] = "exit"] \/ wpc' = [wpc EXCEPT ![w] = "cv"])
    BY <1>1 DEF TakeJob
  <2>2. workers # {}
    OBVIOUS
  <2> QED
    BY <1>t, <2>1, <2>2, QuietStep DEF NoScope, TypeOK
<1>2. CASE ~shutdown /\ queue # <<>>
  <2>1. /\ wpc[w] = "lock"
        /\ job' = [job EXCEPT ![w] = Head(queue)]
        /\ queue' = Tail(queue)
        /\ wpc' = [wpc EXCEPT ![w] = "run"]
        /\ UNCHANGED <<workers, pending, shutdown, mpc, nextJob, finished>>
    BY <1>2 DEF TakeJob
  <2>2. /\ Len(queue) \in Nat /\ Len(queue) # 0 /\ Len(queue') = Len(queue) - 1
        /\ queue' \in Seq(Job) /\ Head(queue) \in Job /\ Head(queue) = queue[1]
        /\ \A i \in 1 .. Len(queue) - 1 : queue'[i] = queue[i + 1]
    BY <1>t, <1>2, <2>1, HeadTailProperties, EmptySeq, LenProperties DEF TypeOK
  <2>3. nextJob \in Nat /\ First \in Int /\ First >= 1 /\ First' = First + 1
    BY <1>t, <2>1, <2>2 DEF First, TypeOK, Inv, Fifo
  <2>4. Head(queue) = First /\ First \in Enqueued
    BY <2>2, <2>3 DEF Inv, Fifo, Enqueued, First
  <2>5. Fifo'
    <3>1. \A i \in 1 .. Len(queue) : queue[i] = First + i - 1
      BY DEF Inv, Fifo
    <3>2. \A i \in 1 .. Len(queue) - 1 : queue[i + 1] = First + (i + 1) - 1
      BY <2>2, <3>1
    <3> QED
      BY <2>2, <2>3, <3>2 DEF Fifo
  <2>6. First \notin finished /\ job[w] = NoJob /\ \A v \in Worker : job[v] # First
    BY <2>1, <2>3 DEF Inv, Held, Progress
  <2>7. TypeOK'
    BY <1>t, <2>1, <2>2 DEF TypeOK
  <2>8. /\ job'[w] = First /\ wpc'[w] = "run"
        /\ \A v \in Worker : v # w => job'[v] = job[v] /\ wpc'[v] = wpc[v]
    BY <1>t, <2>1, <2>4 DEF TypeOK
  <2>9. Held'
    <3>1. \A v \in Worker : job'[v] # NoJob <=> wpc'[v] \in {"run", "count"}
      BY <2>3, <2>8 DEF Inv, Held, NoJob
    <3>2. \A v \in Worker : job'[v] < First'
      <4>1. \A v \in Worker : job[v] \in Int /\ job[v] < First
        BY <1>t DEF TypeOK, Inv, Held, Job, NoJob
      <4> QED
        BY <2>3, <2>8, <4>1
    <3>3. \A u, v \in Worker : job'[u] = job'[v] /\ job'[u] # NoJob => u = v
      BY <2>6, <2>8 DEF Inv, Held
    <3> QED
      BY <3>1, <3>2, <3>3 DEF Held
  <2>10. Progress'
    <3>1. \A v \in Worker : wpc'[v] = "run" => job'[v] \notin finished'
      BY <2>1, <2>6, <2>8 DEF Inv, Progress
    <3>2. \A v \in Worker : wpc'[v] = "count" => job'[v] \in finished'
      BY <2>1, <2>8 DEF Inv, Progress
    <3>3. \A j \in finished' : j < First'
      BY <1>t, <2>1, <2>3 DEF Inv, Progress, TypeOK, Job
    <3>4. ASSUME NEW j \in 1 .. First' - 1
          PROVE  j \in finished' \/ \E v \in Worker : wpc'[v] = "run" /\ job'[v] = j
      <4>1. CASE j = First
        BY <2>8, <4>1
      <4>2. CASE j # First
        <5>1. j \in 1 .. First - 1
          BY <4>2, <2>3
        <5>2. CASE j \in finished
          BY <5>2, <2>1
        <5>3. ASSUME NEW v \in Worker, wpc[v] = "run", job[v] = j
              PROVE  \E u \in Worker : wpc'[u] = "run" /\ job'[u] = j
          BY <5>3, <2>1, <2>8
        <5> QED
          BY <5>1, <5>2, <5>3 DEF Inv, Progress
      <4> QED
        BY <4>1, <4>2
    <3> QED
      BY <3>1, <3>2, <3>3, <3>4 DEF Progress
  <2>11. Uncounted' = Uncounted
    <3>1. \A j : (\E v \in Worker : job'[v] = j) => j = First \/ \E v \in Worker : job[v] = j
      BY <2>8
    <3>2. \A j \in Enqueued : (\E v \in Worker : job[v] = j) => \E v \in Worker : job'[v] = j
      BY <2>6, <2>8 DEF NoJob, Enqueued
    <3>3. Enqueued' = Enqueued /\ finished' = finished
      BY <2>1 DEF Enqueued
    <3> QED
      BY <2>6, <3>1, <3>2, <3>3 DEF Uncounted
  <2>12. Counter'
    BY <2>1, <2>11 DEF Inv, Counter, Early
  <2>13. Inline'
    BY <2>1 DEF Inline
  <2>14. NoScope' => Uncounted' = {}
    BY <2>1, <2>11 DEF NoScope, Inv
  <2> QED
    BY <2>5, <2>7, <2>9, <2>10, <2>12, <2>13, <2>14 DEF Inv
<1> QED
  BY <1>1, <1>2

LEMMA RunJobInv == ASSUME Inv, NEW w \in Worker, w \in workers, RunJob(w) PROVE Inv'
<1> USE PoolAssumption
<1>1. /\ wpc[w] = "run" /\ finished' = finished \cup {job[w]}
      /\ UNCHANGED <<workers, queue, pending, shutdown, job, mpc, nextJob>>
      /\ wpc' = [wpc EXCEPT ![w] = "count"]
  BY DEF RunJob
<1>2. wpc'[w] = "count" /\ \A v \in Worker : v # w => wpc'[v] = wpc[v]
  BY <1>1 DEF Inv, TypeOK
<1>3. job[w] # NoJob /\ job[w] \in Job /\ job[w] < First /\ First' = First
  BY <1>1 DEF Inv, Held, TypeOK, First
<1>4. TypeOK'
  BY <1>1, <1>3 DEF Inv, TypeOK
<1>5. Fifo'
  BY <1>1, <1>3 DEF Inv, Fifo
<1>6. Held'
  <2>1. \A v \in Worker : wpc'[v] \in {"run", "count"} <=> wpc[v] \in {"run", "count"}
    BY <1>1, <1>2
  <2> QED
    BY <1>1, <1>3, <2>1 DEF Inv, Held
<1>7. Progress'
  <2>1. \A v \in Worker : wpc'[v] = "run" => job[v] # job[w]
    BY <1>2, <1>3 DEF Inv, Held
  <2>2. \A v \in Worker : wpc'[v] = "run" => job'[v] \notin finished'
    BY <1>1, <1>2, <2>1 DEF Inv, Progress
  <2>3. \A v \in Worker : wpc'[v] = "count" => job'[v] \in finished'
    BY <1>1, <1>2 DEF Inv, Progress
  <2>4. \A j \in finished' : j < First'
    BY <1>1, <1>3 DEF Inv, Progress
  <2>5. \A j \in 1 .. First' - 1 :
          j \in finished' \/ \E v \in Worker : wpc'[v] = "run" /\ job'[v] = j
    BY <1>1, <1>2, <1>3 DEF Inv, Progress
  <2> QED
    BY <2>2, <2>3, <2>4, <2>5 DEF Progress
<1>8. Uncounted' = Uncounted
  BY <1>1 DEF Uncounted, Enqueued
<1>9. Counter'
  BY <1>1, <1>8 DEF Inv, Counter, Early
<1>10. Inline' /\ (NoScope' => Uncounted' = {})
  BY <1>1, <1>8 DEF Inline, NoScope, Inv
<1> QED
  BY <1>4, <1>5, <1>6, <1>7, <1>9, <1>10 DEF Inv

LEMMA CountDownInv == ASSUME Inv, NEW w \in Worker, w \in workers, CountDown(w) PROVE Inv'
<1> USE PoolAssumption
<1>1. /\ wpc[w] = "count" /\ pending' = (pending + SizeMod - 1) % SizeMod
      /\ UNCHANGED <<workers, queue, shutdown, mpc, nextJob, finished>>
      /\ wpc' = [wpc EXCEPT ![w] = "lock"]
      /\ job' = [job EXCEPT ![w] = NoJob]
  BY DEF CountDown
<1>2. /\ wpc'[w] = "lock" /\ job'[w] = NoJob
      /\ \A v \in Worker : v # w => wpc'[v] = wpc[v] /\ job'[v] = job[v]
  BY <1>1 DEF Inv, TypeOK
<1>3. /\ job[w] # NoJob /\ job[w] \in Job /\ job[w] < First /\ First' = First
      /\ job[w] \in finished /\ First >= 1 /\ First \in Int
  BY <1>1 DEF Inv, Held, Fifo, Progress, TypeOK, First
<1>4. Fifo'
  BY <1>1, <1>3 DEF Inv, Fifo
<1>5. Held'
  BY <1>1, <1>2, <1>3 DEF Inv, Held, NoJob
<1>6. Progress'
  <2>1. \A j \in 1 .. First' - 1 :
          j \in finished' \/ \E v \in Worker : wpc'[v] = "run" /\ job'[v] = j
    BY <1>1, <1>2, <1>3 DEF Inv, Progress
  <2> QED
    BY <1>1, <1>2, <1>3, <2>1 DEF Inv, Progress
<1>7. Uncounted' = Uncounted \ {job[w]} /\ job[w] \in Uncounted
  <2>1. job[w] \in Enqueued /\ Enqueued' = Enqueued
    BY <1>1, <1>3 DEF Enqueued, First, Inv, TypeOK, Job
  <2>2. \A j \in Enqueued : (\E v \in Worker : job'[v] = j)
                              <=> j # job[w] /\ \E v \in Worker : job[v] = j
    <3>1. \A j \in Enqueued : j # NoJob
      BY DEF Enqueued, NoJob
    <3>2. \A v \in Worker : job[v] = job[w] => v = w
      BY <1>3 DEF Inv, Held
    <3> QED
      BY <1>2, <3>1, <3>2
  <2> QED
    BY <1>1, <1>3, <2>1, <2>2 DEF Uncounted
<1>8. /\ Cardinality(Uncounted') = Cardinality(Uncounted) - 1
      /\ Cardinality(Uncounted) \in 1 .. SizeMod - 1
  <2>1. Cardinality(Uncounted') = Cardinality(Uncounted) - 1
    BY <1>7, UncountedFinite, FS_RemoveElement DEF Inv
  <2> QED
    BY <1>7, <2>1, UncountedFinite DEF Inv
<1>9. TypeOK' /\ Counter'
  <2> DEFINE n == Cardinality(Uncounted)
  <2>1. pending = IF mpc = "pushed" THEN Early(n) ELSE n
    BY DEF Inv, Counter
  <2>2. pending' = IF mpc = "pushed" THEN Early(n - 1) ELSE n - 1
    <3>1. n \in 1 .. SizeMod - 1
      BY <1>8
    <3> HIDE DEF n
    <3>2. CASE mpc # "pushed"
      <4>1. pending' = (n - 1 + SizeMod) % SizeMod
        BY <1>1, <2>1, <3>1, <3>2
      <4> QED
        BY <3>1, <3>2, <4>1
    <3>3. CASE mpc = "pushed"
      <4>1. pending = n - 1
        BY <2>1, <3>1, <3>3 DEF Early
      <4>2. pending' = (n - 1 + SizeMod - 1) % SizeMod
        BY <1>1, <3>1, <4>1
      <4> QED
        BY <3>1, <3>3, <4>2 DEF Early
    <3> QED
      BY <3>2, <3>3
  <2>3. pending' \in 0 .. SizeMod - 1
    BY <2>2, <1>8 DEF Early
  <2> QED
    BY <1>1, <1>8, <2>2, <2>3 DEF TypeOK, Counter, Inv
<1>10. Inline' /\ (NoScope' => Uncounted' = {})
  BY <1>1, <1>7 DEF Inline, NoScope, Inv
<1> QED
  BY <1>4, <1>5, <1>6, <1>9, <1>10 DEF Inv

\* The inductive invariant is preserved by every step.
LEMMA NextInv == Inv /\ [Next]_vars => Inv'
<1> SUFFICES ASSUME Inv, [Next]_vars PROVE Inv'
  OBVIOUS
<1>1. CASE UNCHANGED vars
  <2>1. TypeOK
    BY DEF Inv
  <2> QED
    BY <1>1, <2>1, QuietStep DEF vars, NoScope, TypeOK, Inv, Inline
<1>2. ASSUME NEW w \in workers, WorkerLoop(w) \/ SpuriousWake(w) PROVE Inv'
  <2>1. w \in Worker /\ workers # {} /\ TypeOK
    BY DEF Inv, TypeOK
  <2>2. CASE SpuriousWake(w)
    BY <2>1, <2>2, QuietStep DEF SpuriousWake, NoScope, TypeOK
  <2> QED
    BY <1>2, <2>1, <2>2, TakeJobInv, RunJobInv, CountDownInv DEF WorkerLoop
<1>3. CASE EnqueueInline \/ EnqueuePush \/ EnqueueCount
  BY <1>3, EnqueueInlineInv, EnqueuePushInv, EnqueueCountInv
<1>4. CASE OpenScope \/ CloseScope \/ CallWait \/ EnqueueNotify \/ WaitReturns
           \/ Destroy \/ NotifyAll \/ JoinAll
  BY <1>4, MainQuietInv
<1> QED
  BY <1>1, <1>2, <1>3, <1>4 DEF Next, MainStep, Finished

--------------------------------------------------------------------------------
(* The theorems. *)

LEMMA InvHolds == Spec => []Inv
<1> QED
  BY InitInv, NextInv, PTL DEF Spec

\* Every variable of the pool keeps its type; m_pendingJobs stays a size_t.
THEOREM TypeCorrect == Spec => []TypeOK
<1>1. Inv => TypeOK
  BY DEF Inv
<1> QED
  BY <1>1, InvHolds, PTL

\* m_pendingJobs is the number of jobs not yet counted down except between the push
\* and the count of enqueue(), whatever the workers do meanwhile: the decrement that
\* overtakes its own increment is repaid by it.
THEOREM PendingIsExact == Spec => []PendingExact
<1>1. Inv => PendingExact
  BY DEF Inv, Counter, PendingExact
<1> QED
  BY <1>1, InvHolds, PTL

\* When no V3ThreadScope exists every job has run to its end and the queue is empty,
\* so no job can touch locals of a scope that is gone.
THEOREM ScopesComplete == Spec => []CompletedInScope
<1>1. Inv => CompletedInScope
  BY NoneUncounted DEF Inv, NoScope, CompletedInScope
<1> QED
  BY <1>1, InvHolds, PTL

================================================================================
