------------------------------- MODULE TimingEval -------------------------------
(***************************************************************************)
(* The generated simulation loop of a design with timing controls: the     *)
(* nested eval loops that V3Sched creates (act inside nba inside any later *)
(* region), _timing_commit and _timing_resume of V3SchedTiming, the run    *)
(* time's VlTriggerSchedulers and VlDelayScheduler, and the generated      *)
(* main() that moves time.                                                 *)
(*                                                                         *)
(* Everything runs on one thread.  A coroutine runs from one suspension to *)
(* the next in one step and does there what a design may do: fire          *)
(* sensitivity items, start a dynamic nonblocking assignment, suspend on a *)
(* sensitivity list, in a wait statement or on a delay, or end.  The       *)
(* coroutines are the processes of the design and the branches of forks,   *)
(* which other coroutines and logic of any region begin at any time.  An   *)
(* item is seen as the flag its trigger expression reads (isFired() of a   *)
(* named event; a change since the last evaluation of a signal).           *)
(***************************************************************************)
EXTENDS Integers, Sequences, FiniteSets

CONSTANTS
    NCoro,          \* bound on the coroutines: processes and branches of forks
    Item,           \* SenItems, each with its bit in the trigger vectors
    ChangeItem,     \* those also triggered by the first evaluation (ET_CHANGED)
    Scheds,         \* the trigger schedulers: a sequence of item sequences
    WaitScheds,     \* those (by index) that wait statements use
    NbaSched,       \* the one of __VnbaEvent, for dynamic nonblocking assignments
    NRegions,       \* regions after act: 1 is nba, then obs and react if used
    ConvergeLimit,  \* --converge-limit
    Delays,         \* delays the processes use
    MaxRuns,        \* bound on the suspensions of each coroutine
    MaxFires        \* bound on the items fired by the design

Coro == 1 .. NCoro
Region == 1 .. NRegions
Sched == 1 .. Len(Scheds)
Dly == "delay"              \* the trigger of the delay scheduler
Trigger == Item \cup {Dly}
NbaEvent == Scheds[NbaSched][1]
DesignItem == Item \ {NbaEvent}
Ended == -1                 \* in place of the number of suspensions

ASSUME TimingAssumption ==
    /\ NCoro \in Nat /\ NRegions \in Nat \ {0} /\ ConvergeLimit \in Nat
    /\ MaxRuns \in [Coro -> Nat] /\ MaxFires \in Nat
    /\ IsFiniteSet(Item)
    /\ Scheds \in Seq(Seq(Item) \ {<<>>})
    /\ NbaSched \in Sched /\ Scheds[NbaSched] = <<NbaEvent>>
    /\ \A s \in Sched \ {NbaSched} : \A i \in DOMAIN Scheds[s] : Scheds[s][i] # NbaEvent
    /\ ChangeItem \subseteq DesignItem
    /\ WaitScheds \subseteq Sched \ {NbaSched}
    /\ Delays \subseteq Nat
    /\ Dly \notin Item

VARIABLES
    pc,             \* where _eval or main() is
    time,           \* VerilatedContext::time
    fired,          \* items whose trigger expression is true
    didInit,        \* __VactDidInit
    act,            \* __VactTriggered
    pre,            \* __VpreTriggered
    trig,           \* __V<region>Triggered
    iter,           \* __V<region>IterCount; 0 is the act loop
    nbaPending,     \* the dynamic NBA event trigger variable
    uncommitted,    \* m_uncommitted of every trigger scheduler
    ready,          \* m_ready of every trigger scheduler
    resumeQueue,    \* m_resumeQueue of the scheduler being resumed
    cur,            \* the scheduler, region or process whose turn it is
    queue,          \* VlDelayScheduler::m_queue: time-ordered <<time, coroutine>>
    zeroDelayed,    \* m_zeroDelayed
    zeroDlyResumed, \* m_zeroDlyResumed
    resumed,        \* the local of VlDelayScheduler::resume
    runs,           \* suspensions of each coroutine so far
    fires           \* items fired so far

\* History: coroutines that wait for something that has fired since they began to, the
\* dynamic nonblocking assignments that logic of the nba region began, what has triggered
\* since each region last ran, and what has been in `pre' since nba last ran.
VARIABLES woken, late, seen, preSeen

schedVars == <<uncommitted, ready, resumeQueue, cur>>
delayVars == <<queue, zeroDelayed, zeroDlyResumed, resumed>>
loopVars == <<time, didInit, act, pre, trig, iter>>
designVars == <<fired, nbaPending, runs, fires, woken, late>>
seenVars == <<seen, preSeen>>
vars == <<pc, loopVars, designVars, schedVars, delayVars, seenVars>>

Init ==
    /\ pc = "initial"
    /\ time = 0
    \* TRUE: no sensitivity item of the design is triggered by the first evaluation.
    /\ fired = {} /\ didInit \in BOOLEAN
    /\ act = {} /\ pre = {} /\ trig = [r \in Region |-> {}]
    /\ iter = [r \in 0 .. NRegions |-> 0]
    /\ nbaPending = FALSE
    /\ uncommitted = [s \in Sched |-> <<>>]
    /\ ready = [s \in Sched |-> <<>>]
    /\ resumeQueue = <<>> /\ cur = 1
    /\ queue = <<>> /\ zeroDelayed = <<>> /\ zeroDlyResumed = <<>>
    /\ resumed = FALSE
    /\ runs = [c \in Coro |-> 0]
    /\ fires = 0
    /\ woken = {} /\ late = {}
    /\ seen = [r \in Region |-> {}] /\ preSeen = {}

Triggers(s) == {Scheds[s][i] : i \in DOMAIN Scheds[s]}
Triggered(s) == Triggers(s) \cap act # {}

--------------------------------------------------------------------------------
(* What the design does. *)

Waiting(s) == {uncommitted[s][i] : i \in DOMAIN uncommitted[s]}
              \cup {ready[s][i] : i \in DOMAIN ready[s]}

\* Items fire: f, which the design chooses, and extra ones.  What coroutine c does
\* comes before its next wait (c is 0 when other logic fires).
Fire(c, f, extra) ==
    /\ fires + Cardinality(f) <= MaxFires
    /\ fires' = fires + Cardinality(f)
    /\ fired' = fired \cup f \cup extra
    /\ woken' = {d \in Coro \ {c} :
                     d \in woken \/ \E s \in Sched : d \in Waiting(s)
                                                  /\ Triggers(s) \cap (f \cup extra) # {}}

\* co_await sched.trigger(commit): `commit' only in a wait statement.  A dynamic
\* nonblocking assignment sets the trigger variable before it awaits the event.
AwaitTrigger(c, q, z) ==
    /\ queue' = q /\ zeroDelayed' = z
    /\ \E s \in Sched :
         \/ /\ uncommitted' = [uncommitted EXCEPT ![s] = Append(@, c)]
            /\ nbaPending' = (nbaPending \/ s = NbaSched)
            /\ UNCHANGED ready
         \/ /\ s \in WaitScheds
            /\ ready' = [ready EXCEPT ![s] = Append(@, c)]
            /\ UNCHANGED <<uncommitted, nbaPending>>

\* The number of entries of a time-ordered queue that are not later than t.
UpperBound(q, t) == CHOOSE n \in 0 .. Len(q) : \A i \in 1 .. Len(q) : q[i][1] <= t <=> i <= n

\* std::multimap::emplace: behind the entries of the same time.
Emplace(q, t, c) ==
    LET n == UpperBound(q, t)
    IN  SubSeq(q, 1, n) \o <<<<t, c>>>> \o SubSeq(q, n + 1, Len(q))

\* co_await dlySched.delay(d)
AwaitDelay(c, q, z) ==
    /\ \E d \in Delays :
         \/ d # 0 /\ queue' = Emplace(q, time + d, c) /\ zeroDelayed' = z
         \/ d = 0 /\ queue' = q /\ zeroDelayed' = Append(z, c)
    /\ UNCHANGED <<uncommitted, ready, nbaPending>>

\* _eval_nba is running.
NbaLogic == pc = "phase" /\ cur = 1

\* Coroutine c runs to its next suspension, or ends; q and z are the delay
\* scheduler's queues as c finds them.
Run(c, q, z) ==
    /\ \E f \in SUBSET DesignItem : Fire(c, f, {})
    /\ \/ /\ runs[c] \in 0 .. MaxRuns[c] - 1
          /\ runs' = [runs EXCEPT ![c] = @ + 1]
          /\ AwaitTrigger(c, q, z) \/ AwaitDelay(c, q, z)
       \/ /\ runs' = [runs EXCEPT ![c] = Ended]
          /\ queue' = q /\ zeroDelayed' = z
          /\ UNCHANGED <<uncommitted, ready, nbaPending>>
    /\ late' = IF NbaLogic /\ uncommitted'[NbaSched] # uncommitted[NbaSched]
               THEN late \cup {c} ELSE late \ {c}

\* Coroutine c is called for the first time.
Begin(c) ==
    /\ runs[c] = 0 /\ \A d \in 1 .. c - 1 : runs[d] # 0
    /\ Run(c, queue, zeroDelayed)
    /\ UNCHANGED <<pc, loopVars, resumeQueue, cur, zeroDlyResumed, resumed, seenVars>>

\* Logic evaluated in a region fires items; blocking assignments wake no
\* coroutine by themselves.  The branches it forks are begun by Fork.
RunLogic ==
    /\ \E f \in SUBSET DesignItem : Fire(0, f, {})
    /\ UNCHANGED <<nbaPending, runs, late>>

--------------------------------------------------------------------------------
(* The loops. *)

\* The first pass through every loop.
EnterLoops == iter' = [r \in 0 .. NRegions |-> 1]

\* Loop r goes round: the loops inside it start afresh, unless the limit is hit.
LoopAgain(r) ==
    \/ /\ iter[r] > ConvergeLimit
       /\ pc' = "fatal"
       /\ UNCHANGED iter
    \/ /\ iter[r] <= ConvergeLimit
       /\ pc' = "act"
       /\ iter' = [q \in 0 .. NRegions |->
                      IF q < r THEN 1 ELSE IF q = r THEN iter[q] + 1 ELSE iter[q]]

\* _eval_initial runs every process to its first suspension.
Initial(c) == pc = "initial" /\ Begin(c)

EndInitial ==
    /\ pc = "initial"
    /\ pc' = "act"
    /\ EnterLoops
    /\ UNCHANGED <<time, didInit, act, pre, trig, designVars, schedVars, delayVars, seenVars>>

\* A coroutine or the logic of a region runs next.
DesignRuns ==
    \/ pc = "resume" /\ resumeQueue # <<>>
    \/ pc = "delay" /\ queue # <<>> /\ queue[1][1] = time
    \/ pc = "zero" /\ zeroDlyResumed # <<>>
    \/ pc = "evalAct"
    \/ pc = "phase" /\ cur \in Region /\ trig[cur] # {}

\* It forks a branch, which runs to its first suspension before its parent goes on.
\* Logic may do so, too: neither join_none nor a nonblocking assignment in a task makes
\* the caller a coroutine.
Fork(c) == DesignRuns /\ Begin(c)

\* A faulty variant: only what is overdue.
AwaitingEarlierTime == (queue # <<>> /\ queue[1][1] < time) \/ zeroDelayed # <<>>

\* VlDelayScheduler::awaitingCurrentTime
AwaitingCurrentTime ==
    \/ queue # <<>> /\ queue[1][1] <= time
    \/ zeroDelayed # <<>>

\* _eval_triggers__act: the flags are read, then reset.
EvalTriggersAct ==
    /\ pc = "act"
    /\ act' = fired \cup (IF didInit THEN {} ELSE ChangeItem)
                    \cup (IF AwaitingCurrentTime THEN {Dly} ELSE {})
    /\ fired' = {}
    /\ didInit' = TRUE
    /\ pc' = "commit"
    /\ UNCHANGED <<time, pre, trig, iter, nbaPending, runs, fires, woken, late,
                   schedVars, delayVars, seenVars>>

\* The condition of commit() in _timing_commit: the sensitivity list with its
\* first item negated, the items of a list being or'ed.
CommitCond(s) ==
    \/ Scheds[s][1] \notin act
    \/ \E i \in 2 .. Len(Scheds[s]) : Scheds[s][i] \in act

\* A faulty variant: _timing_commit is part of the conditional work.
TimingCommitInWork ==
    /\ pc = "commit"
    /\ IF act # {}
       THEN /\ pc' = "latch"
            /\ ready' = [s \in Sched |-> IF CommitCond(s) THEN ready[s] \o uncommitted[s] ELSE ready[s]]
            /\ uncommitted' = [s \in Sched |-> IF CommitCond(s) THEN <<>> ELSE uncommitted[s]]
            /\ UNCHANGED cur
       ELSE pc' = "phase" /\ cur' = 1 /\ UNCHANGED <<ready, uncommitted>>
    /\ UNCHANGED <<loopVars, designVars, resumeQueue, delayVars, seenVars>>

\* _timing_commit, then the check for any trigger; cur names the region next.
TimingCommit ==
    /\ pc = "commit"
    /\ ready' = [s \in Sched |-> IF CommitCond(s) THEN ready[s] \o uncommitted[s] ELSE ready[s]]
    /\ uncommitted' = [s \in Sched |-> IF CommitCond(s) THEN <<>> ELSE uncommitted[s]]
    /\ IF act # {} THEN pc' = "latch" /\ UNCHANGED cur
                   ELSE pc' = "phase" /\ cur' = 1
    /\ UNCHANGED <<loopVars, designVars, resumeQueue, delayVars, seenVars>>

\* A faulty variant: `pre' is not masked by the pending nba triggers.
LatchUnmasked ==
    /\ pc = "latch"
    /\ pre' = act
    /\ trig' = [trig EXCEPT ![1] = @ \cup act]
    /\ seen' = [r \in Region |-> seen[r] \cup act]
    /\ preSeen' = preSeen \cup pre'
    /\ cur' = 1
    /\ pc' = "sched"
    /\ UNCHANGED <<time, didInit, act, iter, designVars, uncommitted, ready, resumeQueue, delayVars>>

\* preTriggered.andNot(act, nba); nbaTriggered.thisOr(act)
Latch ==
    /\ pc = "latch"
    /\ pre' = act \ trig[1]
    /\ trig' = [trig EXCEPT ![1] = @ \cup act]
    /\ seen' = [r \in Region |-> seen[r] \cup act]
    /\ preSeen' = preSeen \cup pre'
    /\ cur' = 1
    /\ pc' = "sched"
    /\ UNCHANGED <<time, didInit, act, iter, designVars, uncommitted, ready, resumeQueue, delayVars>>

--------------------------------------------------------------------------------
(* _timing_resume: the trigger schedulers in order, the delay scheduler last. *)

\* VlTriggerScheduler::resume begins: swap m_ready into m_resumeQueue.
BeginResume ==
    /\ pc = "sched" /\ cur \in Sched /\ Triggered(cur)
    /\ resumeQueue' = ready[cur]
    /\ ready' = [ready EXCEPT ![cur] = <<>>]
    /\ pc' = "resume"
    /\ UNCHANGED <<loopVars, designVars, uncommitted, cur, delayVars, seenVars>>

SkipSched ==
    /\ pc = "sched" /\ cur \in Sched /\ ~Triggered(cur)
    /\ cur' = cur + 1
    /\ UNCHANGED <<pc, loopVars, designVars, uncommitted, ready, resumeQueue, delayVars, seenVars>>

ResumeCoro ==
    /\ pc = "resume" /\ resumeQueue # <<>>
    /\ resumeQueue' = Tail(resumeQueue)
    /\ Run(Head(resumeQueue), queue, zeroDelayed)
    /\ UNCHANGED <<pc, loopVars, cur, zeroDlyResumed, resumed, seenVars>>

\* A faulty variant: m_ready is cleared after the loop instead of being swapped.
EndResumeClear ==
    /\ pc = "resume" /\ resumeQueue = <<>>
    /\ ready' = [ready EXCEPT ![cur] = uncommitted[cur]]
    /\ uncommitted' = [uncommitted EXCEPT ![cur] = <<>>]
    /\ cur' = cur + 1
    /\ pc' = "sched"
    /\ UNCHANGED <<loopVars, designVars, resumeQueue, delayVars, seenVars>>

\* ... and ends with a commit().
EndResume ==
    /\ pc = "resume" /\ resumeQueue = <<>>
    /\ ready' = [ready EXCEPT ![cur] = @ \o uncommitted[cur]]
    /\ uncommitted' = [uncommitted EXCEPT ![cur] = <<>>]
    /\ cur' = cur + 1
    /\ pc' = "sched"
    /\ UNCHANGED <<loopVars, designVars, resumeQueue, delayVars, seenVars>>

BeginDelay ==
    /\ pc = "sched" /\ cur = Len(Scheds) + 1
    /\ pc' = IF Dly \in act THEN "delay" ELSE "evalAct"
    /\ resumed' = FALSE
    /\ UNCHANGED <<loopVars, designVars, schedVars, queue, zeroDelayed, zeroDlyResumed, seenVars>>

\* VlDelayScheduler::resume: first everything due now ...
ResumeDelayed ==
    /\ pc = "delay" /\ queue # <<>> /\ queue[1][1] = time
    /\ Run(queue[1][2], Tail(queue), zeroDelayed)
    /\ resumed' = TRUE
    /\ UNCHANGED <<pc, loopVars, resumeQueue, cur, zeroDlyResumed, seenVars>>

\* ... then the #0 delays as they are now ...
BeginZero ==
    /\ pc = "delay" /\ ~(queue # <<>> /\ queue[1][1] = time)
    /\ zeroDlyResumed' = zeroDelayed
    /\ zeroDelayed' = <<>>
    /\ resumed' = (resumed \/ zeroDelayed # <<>>)
    /\ pc' = "zero"
    /\ UNCHANGED <<loopVars, designVars, schedVars, queue, seenVars>>

ResumeZero ==
    /\ pc = "zero" /\ zeroDlyResumed # <<>>
    /\ zeroDlyResumed' = Tail(zeroDlyResumed)
    /\ Run(Head(zeroDlyResumed), queue, zeroDelayed)
    /\ UNCHANGED <<pc, loopVars, resumeQueue, cur, resumed, seenVars>>

\* ... and it is fatal if there was neither.
EndDelay ==
    /\ pc = "zero" /\ zeroDlyResumed = <<>>
    /\ pc' = IF resumed THEN "evalAct" ELSE "missed"
    /\ UNCHANGED <<loopVars, designVars, schedVars, delayVars, seenVars>>

--------------------------------------------------------------------------------
\* _eval_act, and the act loop goes round.
EvalAct ==
    /\ pc = "evalAct"
    /\ RunLogic
    /\ LoopAgain(0)
    /\ UNCHANGED <<time, didInit, act, pre, trig, schedVars, delayVars, seenVars>>

\* The nba loop's extra work: a pending dynamic NBA fires its event.
Extra(r) == IF r = 1 /\ nbaPending THEN {NbaEvent} ELSE {}

\* A faulty variant: the triggers are not passed on to the next region.
HandOnNothing(r) == [trig EXCEPT ![r] = {}]

\* Latch the triggers of region r under those of the next region, then clear them.
HandOn(r) ==
    [q \in Region |-> IF q = r THEN {}
                      ELSE IF q = r + 1 THEN trig[q] \cup trig[r] ELSE trig[q]]

\* Region r has triggers: hand them on, run its logic, go round.  A dynamic NBA that the
\* logic of nba has begun is pending by the time of the extra work.
RegionWork(r) ==
    /\ pc = "phase" /\ cur = r /\ trig[r] # {}
    /\ trig' = HandOn(r)
    /\ \E f \in SUBSET DesignItem : Fire(0, f, Extra(r))
    /\ nbaPending' = (nbaPending /\ r # 1)
    /\ seen' = [seen EXCEPT ![r] = {}]
    /\ preSeen' = IF r = 1 THEN {} ELSE preSeen
    /\ LoopAgain(r)
    /\ UNCHANGED <<time, didInit, act, pre, runs, late, schedVars, delayVars>>

\* Nothing triggered, but a dynamic NBA is pending.
NbaExtra ==
    /\ pc = "phase" /\ cur = 1 /\ trig[1] = {} /\ nbaPending
    /\ Fire(0, {}, Extra(1))
    /\ nbaPending' = FALSE
    /\ LoopAgain(1)
    /\ UNCHANGED <<time, didInit, act, pre, trig, runs, late, schedVars, delayVars, seenVars>>

\* The loop of region r ends; after the last one eval returns.
RegionDone(r) ==
    /\ pc = "phase" /\ cur = r /\ trig[r] = {} /\ Extra(r) = {}
    /\ IF r < NRegions THEN cur' = r + 1 /\ UNCHANGED pc
                       ELSE pc' = "returned" /\ UNCHANGED cur
    /\ UNCHANGED <<loopVars, designVars, uncommitted, ready, resumeQueue, delayVars, seenVars>>

--------------------------------------------------------------------------------
(* The generated main(). *)

\* A faulty variant: the time of the last entry.
NextTimeSlotLast == IF queue # <<>> THEN queue[Len(queue)][1] ELSE time

\* VlDelayScheduler::nextTimeSlot
NextTimeSlot == IF queue # <<>> THEN queue[1][1] ELSE time

\* contextp->time(topp->nextTimeSlot()) and the next eval, while events are pending.
AdvanceTime ==
    /\ pc = "returned"
    /\ queue # <<>> \/ zeroDelayed # <<>>
    /\ time' = NextTimeSlot
    /\ pc' = "act"
    /\ EnterLoops
    /\ UNCHANGED <<didInit, act, pre, trig, designVars, schedVars, delayVars, seenVars>>

\* No event pending: the simulation ends.
Finish ==
    /\ pc = "returned" /\ queue = <<>> /\ zeroDelayed = <<>>
    /\ pc' = "done"
    /\ UNCHANGED <<loopVars, designVars, schedVars, delayVars, seenVars>>

Stopped == pc \in {"done", "fatal", "missed"} /\ UNCHANGED vars

Step ==
    \/ \E c \in Coro : Initial(c) \/ Fork(c)
    \/ EndInitial
    \/ EvalTriggersAct \/ TimingCommit \/ Latch
    \/ BeginResume \/ SkipSched \/ ResumeCoro \/ EndResume
    \/ BeginDelay \/ ResumeDelayed \/ BeginZero \/ ResumeZero \/ EndDelay
    \/ EvalAct
    \/ \E r \in Region : RegionWork(r) \/ RegionDone(r)
    \/ NbaExtra
    \/ AdvanceTime \/ Finish

Next == Step \/ Stopped

Spec == Init /\ [][Next]_vars

\* One thread that runs.
FairSpec == Spec /\ WF_vars(Step)

--------------------------------------------------------------------------------
(* Properties *)

\* Every variable keeps its type.
TypeOK ==
    /\ pc \in {"initial", "act", "commit", "latch", "sched", "resume", "delay", "zero",
               "evalAct", "phase", "returned", "done", "fatal", "missed"}
    /\ time \in Nat
    /\ fired \subseteq Item /\ didInit \in BOOLEAN
    /\ act \subseteq Trigger /\ pre \subseteq Trigger
    /\ trig \in [Region -> SUBSET Trigger]
    /\ iter \in [0 .. NRegions -> 0 .. ConvergeLimit + 1]
    /\ nbaPending \in BOOLEAN
    /\ uncommitted \in [Sched -> Seq(Coro)] /\ ready \in [Sched -> Seq(Coro)]
    /\ resumeQueue \in Seq(Coro)
    /\ cur \in Nat
    /\ queue \in Seq(Nat \X Coro)
    /\ zeroDelayed \in Seq(Coro) /\ zeroDlyResumed \in Seq(Coro)
    /\ resumed \in BOOLEAN
    /\ runs \in [Coro -> Nat \cup {Ended}] /\ fires \in 0 .. MaxFires
    /\ woken \subseteq Coro /\ late \subseteq Coro
    /\ seen \in [Region -> SUBSET Trigger] /\ preSeen \subseteq Trigger

Positions(q, c) == {i \in DOMAIN q : q[i] = c}
DelayedAt(c) == {i \in DOMAIN queue : queue[i][2] = c}
PlaceIn(name, s, pos) == {name} \X {s} \X pos
InUncommitted(c) == UNION {PlaceIn("uncommitted", s, Positions(uncommitted[s], c)) : s \in Sched}
InReady(c) == UNION {PlaceIn("ready", s, Positions(ready[s], c)) : s \in Sched}
Places(c) ==
    InUncommitted(c) \cup InReady(c)
    \cup PlaceIn("resumeQueue", 0, Positions(resumeQueue, c))
    \cup PlaceIn("queue", 0, DelayedAt(c))
    \cup PlaceIn("zeroDelayed", 0, Positions(zeroDelayed, c))
    \cup PlaceIn("zeroDlyResumed", 0, Positions(zeroDlyResumed, c))

\* A suspended coroutine is held by exactly one scheduler, once, whatever the
\* resumed coroutines add to the queues that are being emptied: none is lost and
\* none can be resumed twice.
HeldOnce ==
    \A c \in Coro :
        Cardinality(Places(c)) =
            IF runs[c] \in {0, Ended} THEN 0 ELSE 1

\* eval returns only when nothing is left to do at this time: no trigger pending
\* in any region, no coroutine due now, every coroutine that awaits a trigger
\* committed, so that the next event resumes it, and no dynamic nonblocking assignment
\* still to be made, whoever began it, unless it was _eval_nba: such a one is not yet
\* committed when its event fires, and waits for the next.
EvalQuiescent ==
    pc \in {"returned", "done"} =>
        /\ fired = {} /\ ~nbaPending
        /\ \A r \in Region : trig[r] = {}
        /\ \A s \in Sched : uncommitted[s] = <<>>
        /\ \A i \in DOMAIN ready[NbaSched] : ready[NbaSched][i] \in late
        /\ ~AwaitingCurrentTime

\* The fatal `Missed a time slot?' of VlDelayScheduler::resume cannot happen under
\* the generated main(): no coroutine is left behind the current time.
NoMissedSlot == pc # "missed" /\ \A i \in DOMAIN queue : queue[i][1] >= time

\* Whatever triggered in an act iteration triggers every later region: when the
\* turn of a region comes, its vector holds all that triggered since it last ran,
\* however many iterations of the inner loops that took.
TriggersReachRegions == \A r \in Region : pc = "phase" /\ cur = r => trig[r] = seen[r]

\* `pre' logic runs once for a trigger between two runs of the nba region.
PreOnce == [][pc = "latch" => pre' \cap preSeen = {}]_vars

\* A delayed coroutine leaves the delay queue, unless a region does not converge.
DelayEnds ==
    \A c \in Coro : DelayedAt(c) # {} ~> (DelayedAt(c) = {} \/ pc = "fatal")

\* V3SchedTiming: `We will commit only if the event wasn't triggered on the current
\* iteration'.
CommitOnlyUntriggered ==
    [][pc = "commit" => \A s \in Sched : uncommitted[s] # uncommitted'[s] => ~Triggered(s)]_vars

\* VlTriggerScheduler: the two stages are `done to avoid resuming processes before
\* they start waiting': something the coroutine waits for has fired since it began.
NoResumeBeforeWaiting ==
    pc = "resume" => \A i \in DOMAIN resumeQueue : resumeQueue[i] \in woken
================================================================================
