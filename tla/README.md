# TLA+ models of Verilator's scheduling and threading core

Verilator compiles a Verilog/SystemVerilog design into a C++ model that a
simulation loop evaluates again and again. Most of the program is a sequence of
tree transformations. What is hard to test is the part that decides *when* things
run: the code generated for multithreaded evaluation, the run-time thread pool
below it, the partitioner that decides what runs in parallel, the coroutine
schedulers of timing controls, processes and forks, the nested eval loops, tracing on
a second thread, and the compiler's own thread pool. These models cover that part.

Paths below are relative to the repository root, which PROJECT.json calls `src/`
(so `src/V3ExecGraph.cpp` here is `src/src/V3ExecGraph.cpp` there).

## Inventory

| Part | State | Operations | What is hard | What makes it correct |
|---|---|---|---|---|
| Static packing, `PackThreads` in `src/V3ExecGraph.cpp` | schedules, `ThreadSchedule::mtaskState`, `busyUntil`, ready list, mode | one round of `pack()` | greedy choice over several schedules, wide (hierarchical) mtasks, padded completion times | dependencies come first in the order, no circular wait, wide mtasks apart, everything packed once |
| Multithreaded evaluation: code generated by `src/V3ExecGraph.cpp`, `VlMTaskVertex` in `include/verilated_threads.h` | `__Vm_even_cycle`, one counter per mtask and one per schedule, worker queues | start, dispatch, wait, body, signal, join | counters are never reset, their direction alternates; many threads; next schedule starts while workers wind down | the dependency graph is enforced, counters stay in range, evaluations return |
| `VlWorkerThread` in `include/verilated_threads.{h,cpp}` | `m_ready`, `m_waiting`, mutex and condition variable | `addTask`, `wait`, `dequeWork`, destructor | notify outside the lock, spurious wake-ups, a flag on a caller's stack, shutdown through the queue | FIFO, exactly once, no lost wake-up, destructor returns |
| Compiler pool: `V3ThreadPool`, `V3ThreadScope` | `m_queue`, `m_pendingJobs`, `m_shutdown` | `enqueue`, `wait`, worker loop, destructor, scopes | the counter is raised after the job is visible | jobs end within their scope, no wait for ever |
| Eval loops: `src/V3Sched.cpp`, and `main()` from `src/V3EmitCMain.cpp` | trigger vectors of act, pre, nba, obs, react; iteration counts; time | compute triggers, latch, run a region, loop, advance time | nested loops, triggers handed from loop to loop, extra work of dynamic NBAs | eval returns quiescent, no trigger lost or run twice, time moves on |
| Timing schedulers: `VlTriggerScheduler`, `VlDelayScheduler` in `include/verilated_timing.{h,cpp}`, `src/V3SchedTiming.cpp` | `m_uncommitted`, `m_ready`, `m_resumeQueue`, `m_queue`, `m_zeroDelayed` | trigger, commit, resume, delay, nextTimeSlot | resumed coroutines change the queues being emptied | no coroutine lost or resumed twice, no missed time slot |
| Processes: `VlDynamicTriggerScheduler`, `VlForkSync`, `VlProcess`, generated by `src/V3Timing.cpp` and `src/V3SchedTiming.cpp` | queues of three stages; join counters; process states and trees; the C++ call stack | evaluate, post-update, resume; fork, join, wait fork, disable fork, kill | calls nest: branches run inside the forking process, joining processes inside `done()`; killed processes are destroyed late | no coroutine lost or resumed twice, events awaited by name reach every waiter, joins count exactly, `wait fork` returns |
| Trace offloading: `VerilatedTrace` in `include/verilated_trace_imp.h`, `include/verilated_fst_c.cpp` | eight buffers, two queues, old values, delayed time | open, dump, full dump, flush, close; the worker thread | two threads write one file without a lock; a buffer limit | buffers are conserved, the file is what it would be without the thread, calls return |
| Partitioner: `src/V3OrderParallel.cpp` | mtask graph, costs, critical paths per direction, scoreboard | build mtasks, order writers, score, merge, propagate, reduce | cached paths and scores steer and prune later decisions | no cycle, dependencies and order of writers kept, caches close to the truth, budget kept, ends |
| `VlThreadPool` worker indexes | stack of free indexes | assign, free | hierarchical blocks share one pool | not modelled |
| Message queue `VerilatedMsgQueue` | messages by mtask id | post, process | order independent of the threads | not modelled |
| Front end, optimisation passes, emitters, VPI/DPI, file formats | syntax trees, graphs, files | - | unbounded sequential data | not modelled: no control a model checker would add anything to |

How they interact: the partitioner's graph is the packer's input, and the packer's
result becomes the constant of the evaluation model; the evaluation hands thread functions to worker threads and joins them
through counters, not through `wait()`; the eval loops call the evaluation as the
body of the `nba` region and call the timing schedulers, static and dynamic, in
their act loop; processes run inside these; `main()` calls eval, then dumps the trace,
and asks the delay scheduler for the next time slot. The
compiler pool is used by the emitters and by nothing above.

PROJECT.json lists every component, the hazards at their lines, and which
definition models which lines.

## Modules

| Module | Models | Composition |
|---|---|---|
| `PackThreads` | `PackThreads::pack`, `ThreadSchedule` | its `OrderKept` is `OrderAssumption` of `ExecGraph` |
| `ExecGraph` | generated thread functions, `VlMTaskVertex` | uses a worker as a FIFO, which is what `TaskQueue` says |
| `TaskQueue` | abstract specification of a worker: tasks are begun and ended in the order added, then it stops | implemented by `VlWorkerThread` |
| `VlWorkerThread` | the worker with mutex, condition variable, spin and shutdown | refines `TaskQueue` (`TQ == INSTANCE TaskQueue WITH ...`) |
| `V3ThreadPool` | compiler pool and scopes | - |
| `TimingEval` | eval loops, trigger and delay schedulers and `main()` together | - |
| `VlProcess` | processes, forks, joins and the dynamic trigger scheduler | a delay or static trigger, whose schedulers `TimingEval` has, is `held` here and resumed at any time |
| `TraceFile` | abstract specification of a trace file: dumps are written in order, flush, full dump and close return when all are | implemented by `TraceOffload` |
| `TraceOffload` | `VerilatedTrace` with the worker thread, and the FST file behind it | refines `TraceFile` (`File == INSTANCE TraceFile WITH ...`) |
| `Partitioner` | `Partitioner`, `FixDataHazards`, `Contraction`, `PropagateCp` | its result, an acyclic graph, is what `InputAssumption` of `PackThreads` asks for |
| `ExecGraphProofs`, `PackThreadsProofs`, `VlWorkerThreadProofs`, `V3ThreadPoolProofs`, `TimingEvalProofs`, `VlProcessProofs`, `TraceOffloadProofs`, `PartitionerProofs` | theorems | extend the modules they are about |
| `MC*` | instances for TLC | - |

Operators with "faulty variant" in their comment are not part of any specification.
They are plausible slips of the code next to the definition they would replace; with
such a replacement TLC finds the property violated that PROJECT.json's `mutants`
pairs them with.

### PackThreads

A step is one round of the `while (!readyMTasks.empty())` loop. `Candidates` are the
pairs of a thread of the last schedule and a ready mtask the mode allows; `IsBest`
says what the two nested loops with their comparison choose: the earliest begin, then
the highest priority, then the first met. The early `break` of the inner loop only
skips candidates that begin later than the best so far. `CompletionTime` keeps the
integer arithmetic of the padding (the "sandbag") and its cap. `mtaskState` is a
static member of `ThreadSchedule`: its emptiness is that of *all* schedules, which is
what `StartWide` tests; this is right because one graph is packed per compilation.
Costs come from `normalizeCosts`, at most 10^7, so the 32-bit times need no width.

An observation on `V3ExecGraph.cpp:384`: the cap is the end of the following mtask
minus one. If that mtask costs nothing, other threads believe the earlier mtask to
be over one unit before it is. Only the prediction is affected, never the order;
`PredictedTimes` is therefore stated for positive costs and the instance contains
zero costs for the other properties.

### ExecGraph

The schedule is a constant, so the theorems hold for every graph and schedule. Each
thread has a program counter over the text `createThreadFunctions` and
`addMTaskToFunction` generate: wait for the vertex if it has cross-thread
dependencies, run the body, signal every successor on another thread of the same
schedule one at a time, next mtask, signal the final vertex. `ran`, `sent` and
`sentFinal` are history variables, reset when an evaluation starts; no guard reads
them.

### VlWorkerThread and TaskQueue

Critical sections are single steps; everything outside the mutex is a step of its
own, in particular `notify_one` after the unlock with the value of `m_waiting` seen
inside. A sleeping worker may wake at any time. `wait()` is the queuing of a task
that sets a flag plus the spin on the flag, and the flag's frame ends with it. The
refinement maps the queue to `todo`, the task being run to `current`, and the exit
of the thread to `stopped`.

### V3ThreadPool

`enqueue` is three steps (push under the lock, count, notify). `m_pendingJobs` wraps
at `SizeMod` as a `size_t` does. A pool of one thread has no workers and runs jobs
inline; both pools are initial states.

An observation on `V3ThreadPool.cpp:48`: the counter is raised after the unlock, so a
worker that was already awake can run the job and subtract first, and `m_pendingJobs`
("Number of started and not yet finished jobs", `V3ThreadPool.h:40`) is below zero until
the addition. It is harmless: only the enqueuing thread waits. `PendingExact` says what
the counter really is, and `CompletedInScope` that scopes may rely on it.

### TimingEval

One thread; the interleaving is that of coroutines with the loops. A coroutine's run
from one suspension to the next is one step, in which it may fire any set of items,
start a dynamic nonblocking assignment, and suspend in any way the design language
allows. The loops are `createEvalLoop`: act inside nba inside later regions; region
`r` hands its triggers to `r + 1` and clears them. `trig[1]` is nba; obs and react
exist if `NRegions` says so. A trigger expression is abstracted to the flag it reads
(`fired`), set by whoever changes the signal and reset when it is evaluated. Pre and
act logic that may fire items is `EvalAct`.

Coroutines are the processes of the design, which `Initial` begins, and the branches of
forks, which `Fork` begins at any point where a coroutine or the logic of a region runs.
Logic forks, too: neither `join_none` nor a nonblocking assignment in a task that is not
inlined (`V3Timing.cpp:1006-1035` makes it a fork) turns the caller into a coroutine. So a
dynamic nonblocking assignment may begin in `_eval_initial`, in a coroutine, in `_eval_act`
or in `_eval_nba`. `woken`, `late`, `seen` and `preSeen` are history, for the properties.

An observation on `V3Sched.cpp:1108-1131`: if `_eval_nba` begins the assignment, the extra
work of the same phase finds it pending and fires its event before the coroutine is
committed. `_timing_commit` does not commit it, because the event triggered
(`V3SchedTiming.cpp:120-124`); `resume()` finds `m_ready` without it and commits it only
then (`verilated_timing.cpp:124-127`). It stays in `m_ready` when eval returns, until
another dynamic assignment fires the event. These coroutines are `late`, and the one
exception of `EvalQuiescent`; without the exception TLC shows the above. The repository's
test of dynamic assignments, `t_assigndly_dynamic.v`, begins them in initial processes.

A coroutine that suspended in an iteration and is not committed in it does not see
an item fired later in that same iteration. That is the intended semantics of the
two stages; `EvalQuiescent` shows that no such coroutine is left at the end of eval.

`$finish` only ends `main()`'s loop earlier and is left out.

### VlProcess

One thread, but calls nest, so the state has a call stack. `Fork` is what
`makeForkJoin` puts before the branches, `StartBranch` the call of the next branch (which
runs at once, without `co_await`), `Join` the `co_await` behind them. `Done` is the
decrement and the resumption of the joining process *inside* the branch, `EndBranch` what
remains when that process suspends or ends. Statements are the ones that matter for
scheduling: await a delay or static trigger, an event, `wait fork`, `wait (0)`, fire an
event, fork with each kind of join, `disable fork`, and `process::kill()` and `resume()`
of any process the design can have a handle of. Whether a wait has the post-update step is
decided by `destructivePostUpdate()`, which looks for a variable of type event: events in
`MemberEvent` are also awaited through an object, `@(obj.ev)`, without it. `BeginEvaluate` to `EndDynamic` are the
four steps of the dynamic scheduler in the act loop. `dropped` marks processes whose
`VlProcess` dies with their coroutine and detaches from its parent, which happens when
`VlForever` destroys a process nobody has a handle of. `owed`, `doneBy`, `branches` and
`anyJoin` are history; no guard reads them but the allocation of a fresh join.

Observations that no run is about: `VlForkSync::init()` builds a handle from the process
and so sets its state to WAITING while it runs; `process::kill()` of a running process is
forgotten at its next suspension, which sets WAITING; `process::resume()` sets RUNNING
on a process that was killed or has finished; and `m_fired` of an event, "Fired on this
scheduling iteration" (`verilated_types.h:232`), is cleared by the post updates of waiters,
so without one it stays set for the next.

An observation on `V3Timing.cpp:613-618`: `@(obj.ev)` is no reference to a variable of type
event, so its loop does not await the post-update step, and the first waiter that
`evaluate()` resumes clears the event for the others, although the post-update step is there
for "destructive post updates, e.g. named events" (`verilated_timing.h:313-314`).
`EventSeenByAll` is therefore about events that every wait names; for those in
`MemberEvent` TLC finds a waiter that misses the event.

### TraceOffload and TraceFile

A call of the user holds `m_mutex` throughout, so one call at a time runs against the
worker thread; each access to one of the two queues is a step. A buffer is abstracted to
the dump it carries and the command that ends it. The FST writer is external: it has a
current time and a list of value changes. What is kept exactly is what makes the file
right or wrong: the time that `emitTimeChange` keeps back until a value changes, old
values that survive closing and reopening, the full dump the caller writes itself after
`flushBase()`, buffers deleted on close. The refinement maps `requested` to its length;
`written` counts dumps the file has.

The constant `FlushWhenClosed` says whether the program flushes a file that is closed.
Nothing in the code prevents that (the flush callback outlives `close()`), and it hangs:
run `trace_closed`. With the constant false every call returns.

### Partitioner

Mtasks are numbers, edges pairs. `Init` is `setupMTaskDeps` and the ranks; then one step
for each group of `FixDataHazards`, one for the initial critical paths, one for filling the
scoreboard, and one for each turn of the loop in `Contraction`, a merge being
`Contract`, one `Propagate` per mtask whose path is updated, and `Redirect`. Each early
`continue` and `break` of that loop is an action: `NothingKnown`, `StaleScore`,
`RescoreFirst`, `TooManyMTasks`, `Exhausted`, `Discard`. The constant `Steps` is the
table of values that `stepCost` rounds costs up to, 5% apart on a logarithmic scale; above
the largest one costs are not rounded. Only what is said about tenths (`CriticalPathsClose`,
`ScoresClose`) depends on the table, the proofs hold for any. The heaps of
edges are their keys. Ties between candidates of equal score, decided by serial numbers,
are left open. The limit of 26 edges in the search for siblings is not reached by the
instance, `orderPreRanked` only reorders lists, and `PART_STEPPED_RESCORELIMIT` is off.

An observation on `V3OrderParallel.cpp:1235`: `(limit * 120) / 100` does not grow for
limits below 5. If the total cost is that small and more mtasks than
`--threads-max-mtasks` cannot be merged within the limit, the loop never ends: three
mtasks of cost 5 in a row with two threads give a limit of 4 and, with entry and exit,
five mtasks against a maximum of four. The comment says "raise the score limit and keep
going". The instance has limits of 5 and more, for which `Terminates` holds.

## Runs

| Run | Instance | Shows |
|---|---|---|
| `exec_graph` | 9 mtasks, 2 schedules with 4 and 2 functions, 3 workers, evaluated without bound | `DependenciesRespected`, `NoStaleReadiness`; `EvalReturns` |
| `pack_threads` | the empty graph; all graphs of 3 and 4 mtasks with all costs from {0,1,10} ({1,10} for 4) and widths from {1,3}, on 2 threads and a hierarchical pool of 6; the graph of the code's own self test | `OrderKept`, `NoCircularWait`, `PackedOnce`, `PredictedTimes`, `WideAlone`; `SelfTest` repeats the numbers `selfTestNormalFirst` asserts, which ties the model's arithmetic to the code's |
| `worker_thread` | 2 callers with 2 calls each, then destruction | `NoLostWakeup`, `FlagFrameAlive`, `WaitDrains`, `DestructorReturns`, and the refinement of `TaskQueue` with its liveness |
| `compiler_pool` | 3 workers, 4 jobs in any number of scopes, and the pool without workers | `CompletedInScope`, `PendingExact`, `WaitsReturn` |
| `timing_eval` | 2 coroutines, processes or branches that anything may fork, with 2 suspensions and 1, 2 firings, delays 0 to 2, a wait statement, a list of two items, dynamic NBAs, 2 regions, convergence limit 2 | `HeldOnce`, `EvalQuiescent` (a dynamic NBA begun before anything has triggered, or by logic of a region, included), `NoMissedSlot`, `TriggersReachRegions`, `PreOnce`, `DelayEnds` |
| `processes` | 3 processes with 3, 1 and 1 or 2, 2 and 1 statements, 2 joined forks, an event awaited by name and one also through an object | `HeldOnce`, `EventSeenByAll`, `JoinExact`, `IteratedUnchanged`, `WaitForkReturns` |
| `trace_offload` | 3 buffers, 2 values, times to 4, opened twice, a flush each | `BuffersConserved`, `CallerWritesAlone`, `WaveformExact`, the refinement of `TraceFile`, `CallsReturn` |
| `partitioner` | all graphs of 4 pieces of logic with costs from {10,47}, with and without groups of writers; graphs of 5 with a kept variable vertex; 2 threads, at most 4 mtasks | `SoundPartition`, `WritersOrdered`, `CriticalPathsClose`, `ScoresClose`, `PropagateOnce`, `PathWithinBudget`, `Terminates` |
| `timing_commit` | `@(d or e)` | *violated*: commit happens although an item of the list triggered |
| `timing_resume` | one event | *violated*: a process is resumed by an event fired before it began to wait |
| `processes_join` | as `processes` | *violated*: a join whose branch was killed never returns |
| `trace_closed` | as `trace_offload`, flushes of a closed file too | *violated*: such a flush never returns |

The four violated properties state what comments and the internals document say;
PROJECT.json's `findings` quotes them. `TypeOK` is no property of a run: for every
module that has one it is a theorem.

### Bounds

`ExecGraph` needs no bound: parity alternates and the state space is finite. Its
instance has an mtask with two cross-thread predecessors, one that is waited for by
two threads, dependencies in both directions between two threads, a thread without
any cross-thread dependency, and workers left idle by the second schedule; two
consecutive evaluations are enough for every parity. In `PackThreads` four mtasks
reach three schedules (normal, wide, normal), ties, padding with and without the cap,
and a first schedule that is dropped; larger graphs are covered by the proofs. For
`VlWorkerThread` two callers and two calls give every relation of two concurrent
notifications, a wait behind another caller's task, and shutdown behind both. Three
pool workers and four jobs give several sleeping workers for one notification and a
scope whose jobs overlap with the pushes; `SizeMod` is only larger than the number of
jobs, so that the wrap is visible. In `TimingEval` two coroutines, two suspensions of
one and two firings contain a coroutine waking another, waking itself, re-entering a queue
being emptied, a branch forked by each region's logic, and an event in each later region; a convergence limit of 2 makes the
fatal path reachable.

In `VlProcess` three processes give a fork of two branches, a fork inside a branch, a
process killed by its parent, child or sibling in every queue and inside nested calls, and
one resumed inside the `done()` of another; two joined forks let a process resumed inside
`done()` join again. In `TraceOffload` the limit of eight is three: the queue fills, the
caller stashes other buffers while it waits, and the caller blocks for a buffer; two opens
carry old values over. In `Partitioner` all graphs of four vertices contain every way an edge
can be transitive; the two costs are far enough apart that scores fall, paths grow by
rounding and the limit is raised; the scoreboard's three-of-many rule for siblings is
not reached (it needs seven relatives).

### Fairness

Threads are scheduled by the operating system and mtask bodies, tasks and jobs end:
weak fairness of each thread's own steps. Nothing else is assumed: the simulation loop
need not call eval again, callers need not call `addTask` or destroy the pool, the
compiler need not open or close scopes, and spurious wake-ups are never owed. In
`TimingEval`, `VlProcess`, `Partitioner` and `PackThreads` there is one thread, which runs;
in `TraceOffload` the call in progress and the worker thread run, and no call has to be made. A task is taken to
end; a design with an endless body makes no claim.

## Proofs

Checked by TLAPS for every value of the constants:

`ExecGraphProofs`, from `GraphAssumption` (finitely many mtasks), `ScheduleAssumption`
(no schedule has more functions than threads), `BodyAssumption` (functions are not
empty; the two views of a schedule agree) and `OrderAssumption`:
`TypeCorrect`, `DependencyOrder`, `NoCounterOverrun`, `ReadinessIsCurrent`,
`EvalIsComplete`. None of the properties is inductive. `IInv` adds:

- `MainInv`: the main thread's position says which functions may be over;
- `WorkerInv`: a worker has at most the current schedule's function of its own
  number, once, with the current parity. Without it an old record with the other
  parity could move a counter the wrong way;
- `ProgressInv`: the position in a function says which of its mtasks have run and
  which signals were sent;
- `CounterInv`: a counter is the number of signals received in an even evaluation and
  the full count minus that number in an odd one. This is the heart: from it, "looks
  done" is "all predecessors have signalled", by cardinalities of finite sets.

`PackThreadsProofs`, from `ThreadsAssumption` and `InputAssumption` (an acyclic graph
with edges upwards in the numbering; at least one thread for the widest mtask, which
the code asserts): `PackTypeCorrect`, `PackOrder`, `PackDeadlockFree`, for every cost,
priority and width. `IInv` adds `Placed` (the mtasks on threads are the assigned ones)
and `PredsAssigned` (what is ready or assigned depends on assigned mtasks only). An
mtask is appended at the end of a thread of the last schedule, so it follows all it
depends on; and since every circle would have to contain the mtask appended last,
which nothing waits for, there is none.

On top of that come two more layers, for `PackOnce`, `PackWideAlone` and `PackPrediction`.
`QInv` says that an mtask has one place, that a schedule lists what is on its threads,
that a schedule is left only with something in it (`Filled`, which needs to know that the
current one *will* get something), and that it holds only what its mode asks for
(`OneWidth`). `CInv` is about the clock: a thread is busy until everything on it and
everything in earlier schedules is over, a schedule ends after all that was assigned, and
an mtask ends later than the one before it on its thread by its own cost at least
(`FollowClock`). The last one is what makes the cap of the padding safe.
The proof showed that the empty graph gives one empty schedule, which `PackedOnce` says.

`VlWorkerThreadProofs`, from `CallerAssumption` (the owner is not a caller) and
`IdleAssumption` (no record is the "no task" value), for any set of callers and any
number of calls: `WorkerTypeCorrect`, `WakeupKept`, `FifoOrder`, `FlagFrame`,
`ExitIsDrained`, `WaitIsBarrier` and `RefinesTaskQueue`, the safety part of the
refinement. `IInv` adds `WorkerInv` (a sleeping worker has `m_waiting` set, so that
whoever adds a task is going to notify), `ShutdownInv` (the shutdown task is the last
one in the queue and leaves it empty) and `FlagInv` (a caller has at most one flag task,
of its current call; if the flag is set that task has been executed).

`V3ThreadPoolProofs`, from `PoolAssumption` (a finite set of workers that is not empty, a
`size_t` that can count the jobs), for any number of workers and jobs: `TypeCorrect`,
`PendingIsExact` and `ScopesComplete`. `Inv` adds:

- `Fifo`: the queue holds the youngest jobs, in order, so that all older ones were taken;
- `Held` and `Progress`: a job taken is with one worker, from `TakeJob` to `CountDown`, or
  has run and been counted;
- `Counter`: the counter is the number of jobs not counted down, less one in the window
  of `enqueue()` between push and count. There it may be `SizeMod - 1`; the addition that
  follows undoes the wrap, which is why `wait()`, called by the same thread, never
  sees it;
- outside of scopes nothing is uncounted.

`TimingEvalProofs`, from `TimingAssumption` (finitely many items; every scheduler has a
list that is not empty; the scheduler of dynamic nonblocking assignments listens to its
own event and nobody else does), for any number of coroutines, items, schedulers, regions and
delays: `TypeCorrect`, `TriggersArrive`, `PreLogicOnce`, `SlotsNotMissed`,
`ReturnsQuiescent` and `CoroutinesHeldOnce`. The invariants build on each other:

- `Base`: types, the delay queue is ordered by time and holds nothing of the past, and
  where the loop is says which of the queues being emptied are in use;
- `Regions`: what a region has not seen is in its own vector or in one before it, and the
  vectors before the region whose turn it is are empty;
- `Due`: the delay scheduler's trigger is true exactly if something is due, until it was
  resumed. With `Base` this excludes the fatal "Missed a time slot?";
- `Held`: no queue holds a coroutine twice, no two queues hold the same one, and the
  coroutines held are the suspended ones;
- `Settled`: what is left to do on the way out of the loops, in particular that a
  coroutine of a dynamic nonblocking assignment implies a pending event that the loops
  have still to handle, unless it is `late`. It needs `Held`: a coroutine loses that mark
  when it runs again, and must not be left in the queue of the assignments then.

`VlProcessProofs`, from `ProcessAssumption`, for any number of processes, forks, events and
statements: `TypeCorrect`, `IterationsSafe`, `ProcessesHeldOnce`, `EventsSeen` and
`JoinsExact`. The difficulty is the call stack, which nests without bound:

- `Creation`: a branch is created after the process that forks it, so joins point from
  younger to older processes;
- `Frames` and `Nesting`: inside a fork runs one of its branches, inside `done()` the process
  that joined. A process is never resumed from inside a fork, so calls of `done()` are the
  outermost ones on the stack, and each was made by a process younger than the one it
  resumed. This is why `done()` cannot be entered for a join that is being resumed already,
  and it is implied by nothing that the runs check;
- `Held`: each process is in one of: the stack, a queue, a join, or nowhere if it is gone;
- `Named` and `Owed`: who awaits an event that is always named has the post-update step, so
  until it is resumed a process that such an event is owed to has read it or will be asked to
  before the event is cleared;
- `Counts`: a join's counter is the number of its branches that have not called `done()`,
  those not called yet included; once all were called it is zero exactly if nobody waits or
  the resumption is in progress. A process that called `done()` is gone or still in it.

`TraceOffloadProofs`, from `TraceAssumption` (at least one buffer), for any number of
buffers, values, times, flushes and reopenings, flushes of closed files included:
`TypeCorrect`, `Conserved`, `CallerAlone`, `Refinement` and `WaveformRight`. `Inv` adds to the
types:

- `Control`: which call is where, and what each thread then has. Without a worker the queue
  to it is empty before the call puts something on it;
- `Unique` and `Counted`: a buffer is in one place, the places hold exactly the buffers 1 to
  `num`, and there are `num` of them, which is what `closeBase()` relies on when it
  deletes by count;
- `InOrder`: while a call waits, its buffer is the last in the queue, or the queue is empty
  and it is the one the worker has. It is the reason why its return means that everything
  before it has been written, and it is not implied by what the runs check;
- `Dumps`: apart from that buffer everything on its way to the worker is a dump, and the
  dumps requested are the written ones plus these. From it the refinement follows: when a
  flush, full dump or close may return, `written = requested`.

`WaveformRight` needs `Wave` on top of `Inv`: `Pending` (the dumps on their way are the
requested ones after the written ones, in order, and the worker has the time of the dump in
its hands), `FirstFull` (the first dump of a file is a full one, so that old values from
the file before do no harm) and `Content` (what the file shows at the time of each written dump,
and that the old value is the last one in the file).

`PartitionerProofs`, from `PartitionerAssumption` (at least two threads; a finite table of
rounded costs that has zero) and `InputsAssumption` (the move graph has no cycle), for every
graph, cost, group of writers, rounding table and number of threads: `PartitionIsSound`,
`WritersStayOrdered`, `PropagatesOnce`, `WithinBudget`, `PrunedSearchIsExact` and
`PathsStayCovered`. `Reach` and `PathCosts` are recursive functions, and induction by the
library's theorems is out of the provers' reach. Everything is derived instead from two facts
about well-founded orders that need none, `LeastNat` and `LeastSubset`: a set with a
counterexample has a least one. From them follow `AllNats`, that `Reach` is the least closed
set (`ReachLeast`), that an acyclic graph has longest paths (`LongestPaths`), when merging
two vertices closes no cycle (`MergeAcyclic`), and that removing transitive edges and
rerouting around a vertex keep the order (`TransitiveReduction`, `Rerouted`). `Inv` then says:

- `Order`: the graph *as it will be when the merge in progress is complete* has no cycle and
  orders readers behind writers and handled writers among each other. The graph itself is
  between two shapes from `Contract` to `Redirect`, while paths are propagated through it;
- `Keys`: an edge's key is at least what the path of the vertex behind it implies, and at most
  the path of the vertex before it together with the growth pending there. The first makes
  critical paths a potential: they grow along every path by the costs on it. This is why
  the pruning in `pathExistsFrom` loses no path, why a merge it admits closes no cycle, and
  so why `Order` survives: acyclicity and the cached paths need each other;
- `Pending`: while `PropagateCp` works, an mtask it has left was given a path that no pending
  growth can exceed, because the largest growth goes first. From it `PropagatesOnce`;
- `Budget`: through every mtask the path forwards, its own cost and the path backwards, with
  pending growth, are at most the score limit or the path before the first merge. A score
  is a maximum over two mtasks, and `MergedCp` is what makes it a bound for the whole graph;
- `Fits`: what remains of `Budget` when paths are no longer kept, after the empty mtasks are
  removed;
- `Ranked`, `Ends`, `Groups`, `Valid`: ranks rise along edges while `FixDataHazards` adds its
  own, which keeps these from closing a cycle; entry and exit keep their place; candidates on
  the scoreboard are edges or pairs of the present graph.

`PartitionIsSound` gives the acyclic graph that `InputAssumption` of `PackThreads` asks for,
and `PackOrder` and `OrderAssumption` are the two sides of the next interface: with all three,
dependencies are enforced in every evaluation of every packed graph.

Only model-checked:

- liveness (`EvalReturns`, `DestructorReturns`, `WaitsReturn`, `DelayEnds`,
  `WaitForkReturns`, `CallsReturn`, `Terminates`) and the fairness part of the refinement of
  `TaskQueue`: the prover has no rules for fairness and `ENABLED`;
- `SelfTest`, which is about given numbers, and `FinalPriority`, a recursive function;
- the upper half of `CriticalPathsClose` (paths exceed the exact ones by a tenth at most) and
  `ScoresClose`: keys and paths are raised and never lowered, also where a merge makes the
  rounded cost of two mtasks less than the sum. How much too high they become depends on the
  values of the rounding table, and the code has only an assertion for it.

## Plan

1. Parallel tracing on the worker threads (`ParallelWorkerData`).
2. `VlThreadPool`'s worker indexes for hierarchical blocks, composed with `WideAlone`;
   `VerilatedMsgQueue`, with the order of messages as its property.

## Not modelled

The front end, the optimisation passes, code emission and the construction of the move
graph transform unbounded trees and graphs sequentially; their output enters the models as
arbitrary constants. They are most of the repository's lines: the models cover its
scheduling and threading core and are not meant to cover the compiler. Cost estimation uses floating point on statistics; the packer is
proved for every cost. VPI, DPI, randomisation, coverage, save/restore and file formats
are data conversion around the kernel. The ico region and the static, initial and final
phases run once and without loops over triggers of their own, apart from ico's loop,
which has the same shape as act's. Of tracing, parallel tracing, VCD and SAIF files, constant
dumps and the layout of commands in a buffer are left out; of processes, the random
generators they carry.
