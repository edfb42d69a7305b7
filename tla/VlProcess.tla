-------------------------------- MODULE VlProcess --------------------------------
(***************************************************************************)
(* Processes of a design with timing controls: fork with join, join_any    *)
(* and join_none, wait fork, disable fork and process::kill(), as V3Timing *)
(* and V3SchedTiming generate them on top of VlProcess, VlForkSync,        *)
(* VlCoroutineHandle and VlDynamicTriggerScheduler.                        *)
(*                                                                         *)
(* Everything runs on one thread, but calls nest: a branch of a fork runs  *)
(* inside the forking process up to its first suspension, and the process  *)
(* that awaits a join is resumed inside done() of the branch that ends     *)
(* last.  `stack' is that C++ call stack, innermost call first.  A process *)
(* stands for the chain of coroutines of the suspendable functions it is   *)
(* in: they are suspended, resumed and destroyed together.  Delays and     *)
(* static triggers are `held' here and resumed at any time; module         *)
(* TimingEval has their schedulers.                                        *)
(***************************************************************************)
EXTENDS Integers, Sequences, FiniteSets

CONSTANTS
    NProc,          \* bound on the processes: 1 is an initial process
    NSync,          \* bound on the forks that are joined
    Event,          \* events that are awaited dynamically (class members, locals)
    MemberEvent,    \* of these, the ones that are also awaited through an object, @(obj.ev)
    MaxOps          \* bounds on the statements of the processes, one of which is kept

ASSUME ProcessAssumption ==
    /\ NProc \in Nat \ {0} /\ NSync \in Nat
    /\ MaxOps \subseteq [1 .. NProc -> Nat]
    /\ {"fork", "forever"} \cap Event = {} /\ MemberEvent \subseteq Event

Proc == 1 .. NProc
Sync == 1 .. NSync
None == 0                   \* nullptr
Waitable == Event \cup {"fork"}

VARIABLES
    stack,          \* calls in progress: [p, at, left, sync]
    status,         \* VlProcess::m_state
    parent,         \* m_parentp
    gone,           \* processes whose coroutine has ended or was destroyed
    dropped,        \* of these, the ones in wait (0) of which no VlProcessRef is kept
    sync,           \* VlForkSync::m_join of every fork: [count, susp]
    forkOf,         \* the sync a branch holds
    held,           \* suspended on a delay or a static trigger
    suspended, evaluated, post, triggered,  \* the queues of the dynamic scheduler
    anyTriggered,   \* m_anyTriggered, later the bit in the trigger vector
    pos,            \* position in the queue that is iterated over
    trigger,        \* __Vtrigger of each process
    waitFor,        \* what that trigger evaluates
    destructive,    \* whether its loop awaits the post update step
    fired,          \* events with m_fired
    phase,          \* where the act loop is
    ops             \* statements run by each process

\* History: processes that were suspended on an event when it fired, branches that
\* called done(), the branches of each joined fork, and the forks that join_any.
VARIABLES owed, doneBy, branches, anyJoin

dynVars == <<suspended, evaluated, post, triggered, anyTriggered, pos, trigger, waitFor, destructive,
             phase>>
procVars == <<stack, status, parent, gone, dropped, ops>>
syncVars == <<sync, forkOf, doneBy, branches, anyJoin>>
vars == <<procVars, syncVars, dynVars, held, fired, owed>>

Frame == [p : Proc, at : {"body", "fork", "done"}, left : Nat, sync : Sync \cup {None}]
Body(p) == [p |-> p, at |-> "body", left |-> 0, sync |-> None]

Init ==
    /\ stack = <<Body(1)>>
    /\ status = [p \in Proc |-> IF p = 1 THEN "RUNNING" ELSE "none"]
    /\ parent = [p \in Proc |-> None]
    /\ gone = {} /\ dropped = {}
    /\ sync = [s \in Sync |-> [count |-> 0, susp |-> None]]
    /\ forkOf = [p \in Proc |-> None]
    /\ held = {}
    /\ suspended = <<>> /\ evaluated = <<>> /\ post = <<>> /\ triggered = <<>>
    /\ anyTriggered = FALSE /\ pos = 1
    /\ trigger = [p \in Proc |-> FALSE]
    /\ waitFor = [p \in Proc |-> "fork"] /\ destructive = [p \in Proc |-> FALSE]
    /\ fired = {}
    /\ phase = "initial"
    /\ ops = [p \in Proc |-> 0]
    /\ owed = {} /\ doneBy = {} /\ branches = [s \in Sync |-> {}] /\ anyJoin = {}

Created == {p \in Proc : status[p] # "none"}

\* The processes forked by p, by these, and so on.
Forked(p) == LET Grow[n \in 0 .. NProc] ==
                     {q \in Proc : parent[q] = p \/ (n > 0 /\ parent[q] \in Grow[n - 1])}
             IN  Grow[NProc]

\* m_children: a process detaches itself when the last reference to it is gone, its
\* forked processes' m_parentp included.
Attached(q) == q \in dropped => \E c \in Forked(q) : c \notin gone
Children(p) == {q \in Created : parent[q] = p /\ Attached(q)}
Top == Head(stack)
Completed(p) == status[p] \in {"FINISHED", "KILLED"}
CompletedFork(p) == \A q \in Children(p) : Completed(q)

\* disable() reaches every descendant, and p is above its children.
Below(p) == LET Grow[n \in 0 .. NProc] ==
                    IF n = 0 THEN Children(p)
                    ELSE Grow[n - 1] \cup UNION {Children(q) : q \in Grow[n - 1]}
            IN  Created \cap Grow[NProc]

\* Process p is in its own code and has a statement left.
Running(p) ==
    /\ stack # <<>> /\ Top.p = p /\ Top.at = "body"
    /\ ops' = [ops EXCEPT ![p] = @ + 1]
    /\ \E bound \in MaxOps : \A q \in Proc : ops'[q] <= bound[q]

--------------------------------------------------------------------------------
(* Suspension and resumption. *)

\* A VlCoroutineHandle is made of p, and control goes back to whoever resumed it.
Suspend(p) ==
    /\ status' = [status EXCEPT ![p] = "WAITING"]
    /\ stack' = Tail(stack)
    /\ UNCHANGED <<parent, gone, dropped>>

\* VlCoroutineHandle::resume() called with the calls `below' in progress: a killed
\* process is destroyed instead.
Resume(p, below) ==
    /\ IF status[p] = "KILLED"
       THEN gone' = gone \cup {p} /\ stack' = below /\ UNCHANGED status
       ELSE /\ status' = [status EXCEPT ![p] = "RUNNING"]
            /\ stack' = <<Body(p)>> \o below
            /\ UNCHANGED gone
    /\ owed' = owed \ {p}

\* co_await of a delay or of a static trigger.
AwaitHeld(p) ==
    /\ Running(p)
    /\ Suspend(p)
    /\ held' = held \cup {p}
    /\ UNCHANGED <<syncVars, dynVars, fired, owed>>

\* destructivePostUpdate() looks for a variable of type event in the trigger.  An event that
\* is selected from an object is none, so a wait for it may go either way.
DestructivePostUpdate(w) ==
    IF w \notin Event THEN {FALSE} ELSE IF w \in MemberEvent THEN BOOLEAN ELSE {TRUE}

\* A faulty variant: an event that has fired already is not evaluated again.
AwaitDynamicFired(p, w) ==
    /\ Running(p)
    /\ w = "fork" => ~CompletedFork(p)
    /\ Suspend(p)
    /\ IF w \in fired THEN triggered' = Append(triggered, p) /\ UNCHANGED suspended
                      ELSE suspended' = Append(suspended, p) /\ UNCHANGED triggered
    /\ trigger' = [trigger EXCEPT ![p] = w \in fired]
    /\ waitFor' = [waitFor EXCEPT ![p] = w]
    /\ \E d \in DestructivePostUpdate(w) : destructive' = [destructive EXCEPT ![p] = d]
    /\ UNCHANGED <<syncVars, evaluated, post, anyTriggered, pos, phase, held, fired, owed>>

\* @(event) of a dynamic trigger, or wait fork unless the branches have completed.
AwaitDynamic(p, w) ==
    /\ Running(p)
    /\ w = "fork" => ~CompletedFork(p)
    /\ Suspend(p)
    /\ suspended' = Append(suspended, p)
    /\ trigger' = [trigger EXCEPT ![p] = FALSE]
    /\ waitFor' = [waitFor EXCEPT ![p] = w]
    /\ \E d \in DestructivePostUpdate(w) : destructive' = [destructive EXCEPT ![p] = d]
    /\ UNCHANGED <<syncVars, evaluated, post, triggered, anyTriggered, pos, phase,
                   held, fired, owed>>

\* wait (0): VlForever destroys the coroutine.  The process keeps its state, and its
\* VlProcess lives on if the design has a handle of it or of one forked below it.
AwaitForever(p) ==
    /\ Running(p)
    /\ stack' = Tail(stack)
    /\ gone' = gone \cup {p}
    /\ dropped' = dropped \/ dropped' = dropped \cup {p}
    /\ waitFor' = [waitFor EXCEPT ![p] = "forever"]
    /\ UNCHANGED <<status, parent, syncVars, suspended, evaluated, post, triggered,
                   anyTriggered, pos, trigger, destructive, phase, held, fired, owed>>

--------------------------------------------------------------------------------
(* Statements that do not suspend. *)

\* ->e
FireEvent(p, e) ==
    /\ Running(p)
    /\ fired' = fired \cup {e}
    /\ owed' = owed \cup {q \in Proc : waitFor[q] = e /\ \E i \in DOMAIN suspended : suspended[i] = q}
    /\ UNCHANGED <<stack, status, parent, gone, dropped, syncVars, dynVars, held>>

\* process::kill() and process::resume() of any process whose handle the design kept,
\* whatever its state: of p itself or one below it on the stack, too.
SetStatus(p, q, s) ==
    /\ Running(p)
    /\ q \in Created \ dropped /\ \A d \in dropped : q \notin Forked(d)
    /\ status' = [status EXCEPT ![q] = s]
    /\ UNCHANGED <<stack, parent, dropped, gone, syncVars, dynVars, held, fired, owed>>

\* VlProcess::disableFork()
DisableFork(p) ==
    /\ Running(p)
    /\ status' = [q \in Proc |-> IF q \in Below(p) THEN "KILLED" ELSE status[q]]
    /\ UNCHANGED <<stack, parent, gone, dropped, syncVars, dynVars, held, fired, owed>>

--------------------------------------------------------------------------------
(* fork *)

\* Branches that are still to be called.
Reserved == LET Sum[i \in 0 .. Len(stack)] ==
                    IF i = 0 THEN 0 ELSE Sum[i - 1] + stack[i].left
            IN  Sum[Len(stack)]

\* Processes are numbered in the order in which they are created.
IsNewProc(p) == p \notin Created /\ \A q \in Proc \ Created : p <= q

\* A faulty variant: join_any waits for all branches.
JoinCountAll(kind, n) == n

\* The count init() is given by makeForkJoin.
JoinCount(kind, n) == IF kind = "any" THEN 1 ELSE n

\* A fork of n branches.  init() makes the handle of the join from the process,
\* which changes its state to WAITING long before it suspends.
Fork(p, kind, n) ==
    /\ Running(p)
    /\ Cardinality(Proc \ Created) >= Reserved + n
    /\ \/ /\ kind = "none"
          /\ stack' = <<[p |-> p, at |-> "fork", left |-> n, sync |-> None]>> \o Tail(stack)
          /\ UNCHANGED <<status, sync, anyJoin>>
       \/ /\ kind # "none"
          /\ \E s \in Sync :
               /\ branches[s] = {} /\ \A t \in 1 .. s - 1 : branches[t] # {}
               /\ sync' = [sync EXCEPT ![s] = [count |-> JoinCount(kind, n), susp |-> None]]
               /\ stack' = <<[p |-> p, at |-> "fork", left |-> n, sync |-> s]>> \o Tail(stack)
               /\ anyJoin' = IF kind = "any" THEN anyJoin \cup {s} ELSE anyJoin
          /\ status' = [status EXCEPT ![p] = "WAITING"]
    /\ UNCHANGED <<parent, gone, dropped, forkOf, doneBy, branches, dynVars, held, fired, owed>>

\* The next branch is called without co_await: it runs to its first suspension.
StartBranch ==
    /\ stack # <<>> /\ Top.at = "fork" /\ Top.left > 0
    /\ \E q \in Proc :
           /\ IsNewProc(q)
           /\ status' = [status EXCEPT ![q] = "RUNNING"]
           /\ parent' = [parent EXCEPT ![q] = Top.p]
           /\ forkOf' = [forkOf EXCEPT ![q] = Top.sync]
           /\ branches' = IF Top.sync = None THEN branches
                          ELSE [branches EXCEPT ![Top.sync] = @ \cup {q}]
           /\ stack' = <<Body(q)>> \o (<<[Top EXCEPT !.left = @ - 1]>> \o Tail(stack))
    /\ UNCHANGED <<gone, dropped, ops, sync, doneBy, anyJoin, dynVars, held, fired, owed>>

\* All branches were called: co_await join(), unless none is to be joined or the
\* count is zero already.
Join ==
    /\ stack # <<>> /\ Top.at = "fork" /\ Top.left = 0
    /\ IF Top.sync = None \/ sync[Top.sync].count = 0
       THEN stack' = <<Body(Top.p)>> \o Tail(stack) /\ UNCHANGED <<status, sync>>
       ELSE /\ sync' = [sync EXCEPT ![Top.sync].susp = Top.p]
            /\ status' = [status EXCEPT ![Top.p] = "WAITING"]
            /\ stack' = Tail(stack)
    /\ UNCHANGED <<parent, gone, dropped, ops, forkOf, doneBy, branches, anyJoin, dynVars, held,
                   fired, owed>>

\* The last statements of a process that is no branch of a joined fork.
End(p) ==
    /\ stack # <<>> /\ Top = Body(p) /\ forkOf[p] = None
    /\ status' = [status EXCEPT ![p] = "FINISHED"]
    /\ gone' = gone \cup {p}
    /\ stack' = Tail(stack)
    /\ UNCHANGED <<parent, dropped, ops, syncVars, dynVars, held, fired, owed>>

\* The decrement in VlForkSync::done()
CountDown(n) == IF n > 0 THEN n - 1 ELSE 0

\* VlForkSync::done() of a branch, which resumes the joining process when the count
\* is zero.
Done(p) ==
    /\ stack # <<>> /\ Top = Body(p) /\ forkOf[p] # None
    /\ LET s == forkOf[p]
           n == CountDown(sync[s].count)
           below == <<[Body(p) EXCEPT !.at = "done", !.sync = s]>> \o Tail(stack)
       IN  /\ sync' = [sync EXCEPT ![s].count = n]
           /\ IF n = 0 /\ sync[s].susp # None
              THEN Resume(sync[s].susp, below)
              ELSE stack' = below /\ UNCHANGED <<status, gone, owed>>
    /\ doneBy' = doneBy \cup {p}
    /\ UNCHANGED <<parent, dropped, ops, forkOf, branches, anyJoin, dynVars, held, fired>>

\* A faulty variant: the handle is not cleared after the resumed process returns.
EndBranchKeep ==
    /\ stack # <<>> /\ Top.at = "done"
    /\ status' = [status EXCEPT ![Top.p] = "FINISHED"]
    /\ gone' = gone \cup {Top.p}
    /\ stack' = Tail(stack)
    /\ UNCHANGED <<parent, dropped, ops, syncVars, dynVars, held, fired, owed>>

\* resume() of the handle in done() returns, and clears it: m_coro = nullptr.
Cleared(s) == IF sync[s].count = 0 THEN [sync EXCEPT ![s].susp = None] ELSE sync

\* done() returns, and the branch ends.
EndBranch ==
    /\ stack # <<>> /\ Top.at = "done"
    /\ sync' = Cleared(Top.sync)
    /\ status' = [status EXCEPT ![Top.p] = "FINISHED"]
    /\ gone' = gone \cup {Top.p}
    /\ stack' = Tail(stack)
    /\ UNCHANGED <<parent, dropped, ops, forkOf, doneBy, branches, anyJoin, dynVars, held,
                   fired, owed>>

--------------------------------------------------------------------------------
(* The act loop: VlDynamicTriggerScheduler, and what resumes the held processes. *)

\* evaluate() begins, as a trigger of _eval_triggers__act, once the processes that
\* ran are suspended: swap m_suspended into m_evaluated.
BeginEvaluate ==
    /\ stack = <<>>
    /\ phase = "initial" \/ (phase = "resume" /\ ~anyTriggered)
    /\ phase' = "evaluate"
    /\ anyTriggered' = FALSE
    /\ evaluated' = suspended /\ suspended' = <<>>
    /\ UNCHANGED <<procVars, syncVars, post, triggered, pos, trigger, waitFor, destructive, held,
                   fired, owed>>

\* A faulty variant: wait fork does not count killed processes.
EvalFinished(p) ==
    IF waitFor[p] = "fork" THEN \A q \in Children(p) : status[q] = "FINISHED"
                           ELSE waitFor[p] \in fired

\* The expression the trigger is assigned.
Eval(p) == IF waitFor[p] = "fork" THEN CompletedFork(p) ELSE waitFor[p] \in fired

\* A faulty variant: the event is cleared without awaiting the post update step.
EvaluateClearing ==
    /\ phase = "evaluate" /\ evaluated # <<>>
    /\ LET p == Head(evaluated)
       IN  /\ trigger' = [trigger EXCEPT ![p] = Eval(p)]
           /\ anyTriggered' = (anyTriggered \/ Eval(p))
           /\ fired' = fired \ {waitFor[p]}
           /\ triggered' = IF Eval(p) THEN Append(triggered, p) ELSE triggered
           /\ suspended' = IF Eval(p) THEN suspended ELSE Append(suspended, p)
    /\ evaluated' = Tail(evaluated)
    /\ UNCHANGED <<procVars, syncVars, held, waitFor, destructive, pos, phase, post, owed>>

\* A process evaluates its trigger and awaits the post update step if its loop has one.
\* Else it does its post update, clearFired() for an event, here and now, and awaits
\* resumption or the next evaluation.
Evaluate ==
    /\ phase = "evaluate" /\ evaluated # <<>>
    /\ LET p == Head(evaluated)
       IN  IF status[p] = "KILLED"
           THEN /\ gone' = gone \cup {p} /\ owed' = owed \ {p}
                /\ UNCHANGED <<status, trigger, anyTriggered, suspended, post, triggered, fired>>
           ELSE /\ trigger' = [trigger EXCEPT ![p] = Eval(p)]
                /\ anyTriggered' = (anyTriggered \/ Eval(p))
                /\ status' = [status EXCEPT ![p] = "WAITING"]
                /\ post' = IF destructive[p] THEN Append(post, p) ELSE post
                /\ fired' = IF destructive[p] THEN fired ELSE fired \ {waitFor[p]}
                /\ triggered' = IF ~destructive[p] /\ Eval(p)
                                THEN Append(triggered, p) ELSE triggered
                /\ suspended' = IF ~destructive[p] /\ ~Eval(p)
                                THEN Append(suspended, p) ELSE suspended
                /\ UNCHANGED <<gone, owed>>
    /\ evaluated' = Tail(evaluated)
    /\ UNCHANGED <<stack, parent, dropped, ops, syncVars, held, waitFor, destructive, pos, phase>>

BeginPost ==
    /\ phase = "evaluate" /\ evaluated = <<>>
    /\ phase' = "post" /\ pos' = 1
    /\ UNCHANGED <<procVars, syncVars, suspended, evaluated, post, triggered, anyTriggered,
                   trigger, waitFor, destructive, held, fired, owed>>

\* doPostUpdates(): the event is cleared; the process goes round its loop or leaves
\* it.  Nothing has run since evaluate(), so none of them was killed.
PostUpdate ==
    /\ phase = "post" /\ pos <= Len(post)
    /\ LET p == post[pos]
       IN  /\ fired' = fired \ {waitFor[p]}
           /\ triggered' = IF trigger[p] THEN Append(triggered, p) ELSE triggered
           /\ suspended' = IF trigger[p] THEN suspended ELSE Append(suspended, p)
    /\ pos' = pos + 1
    /\ UNCHANGED <<procVars, syncVars, evaluated, post, anyTriggered, trigger, waitFor,
                   destructive, phase, held, owed>>

EndPost ==
    /\ phase = "post" /\ pos > Len(post)
    /\ post' = <<>> /\ phase' = "resume"
    /\ UNCHANGED <<procVars, syncVars, suspended, evaluated, triggered, anyTriggered, pos,
                   trigger, waitFor, destructive, held, fired, owed>>

\* _timing_resume: a delay or a static trigger resumes a held process ...
ResumeHeld(p) ==
    /\ phase = "resume" /\ stack = <<>>
    /\ p \in held
    /\ held' = held \ {p}
    /\ Resume(p, <<>>)
    /\ UNCHANGED <<parent, dropped, ops, syncVars, dynVars, fired>>

\* ... and if the bit of the dynamic triggers is set, resume() iterates over
\* m_triggered itself.
BeginDynamic ==
    /\ phase = "resume" /\ stack = <<>> /\ anyTriggered
    /\ phase' = "dynamic" /\ pos' = 1
    /\ anyTriggered' = FALSE
    /\ UNCHANGED <<procVars, syncVars, suspended, evaluated, post, triggered, trigger,
                   waitFor, destructive, held, fired, owed>>

ResumeTriggered ==
    /\ phase = "dynamic" /\ stack = <<>> /\ pos <= Len(triggered)
    /\ Resume(triggered[pos], <<>>)
    /\ pos' = pos + 1
    /\ UNCHANGED <<parent, dropped, ops, syncVars, suspended, evaluated, post, triggered,
                   anyTriggered, trigger, waitFor, destructive, phase, held, fired>>

EndDynamic ==
    /\ phase = "dynamic" /\ stack = <<>> /\ pos > Len(triggered)
    /\ triggered' = <<>> /\ phase' = "resume"
    /\ UNCHANGED <<procVars, syncVars, suspended, evaluated, post, anyTriggered, pos, trigger,
                   waitFor, destructive, held, fired, owed>>

Statement(p) ==
    \/ AwaitHeld(p) \/ AwaitForever(p) \/ DisableFork(p)
    \/ \E w \in Waitable : AwaitDynamic(p, w)
    \/ \E e \in Event : FireEvent(p, e)
    \/ \E q \in Proc, s \in {"KILLED", "RUNNING"} : SetStatus(p, q, s)
    \/ \E kind \in {"join", "any", "none"}, n \in 1 .. 2 : Fork(p, kind, n)

Next ==
    \/ \E p \in Proc : Statement(p) \/ End(p) \/ Done(p)
    \/ StartBranch \/ Join \/ EndBranch
    \/ BeginEvaluate \/ Evaluate \/ BeginPost \/ PostUpdate \/ EndPost
    \/ \E p \in Proc : ResumeHeld(p)
    \/ BeginDynamic \/ ResumeTriggered \/ EndDynamic

Spec == Init /\ [][Next]_vars

\* One thread that runs.
FairSpec == Spec /\ WF_vars(Next)

--------------------------------------------------------------------------------
(* Properties *)

\* Every variable keeps its type.
TypeOK ==
    /\ stack \in Seq(Frame)
    /\ status \in [Proc -> {"none", "RUNNING", "WAITING", "FINISHED", "KILLED"}]
    /\ parent \in [Proc -> Proc \cup {None}]
    /\ gone \subseteq Proc /\ dropped \subseteq gone /\ held \subseteq Proc
    /\ owed \subseteq Proc /\ doneBy \subseteq Proc
    /\ sync \in [Sync -> [count : Nat, susp : Proc \cup {None}]]
    /\ forkOf \in [Proc -> Sync \cup {None}]
    /\ branches \in [Sync -> SUBSET Proc] /\ anyJoin \subseteq Sync
    /\ suspended \in Seq(Proc) /\ evaluated \in Seq(Proc)
    /\ post \in Seq(Proc) /\ triggered \in Seq(Proc)
    /\ anyTriggered \in BOOLEAN /\ pos \in Nat \ {0}
    /\ trigger \in [Proc -> BOOLEAN]
    /\ waitFor \in [Proc -> Waitable \cup {"forever"}]
    /\ destructive \in [Proc -> BOOLEAN]
    /\ fired \subseteq Event
    /\ phase \in {"initial", "evaluate", "post", "resume", "dynamic"}
    /\ ops \in [Proc -> Nat]

At(q, p) == {i \in DOMAIN q : q[i] = p}
Resumed(i) == (phase = "post" \/ phase = "dynamic") /\ i < pos
InDone(s) == sync[s].count = 0 /\ \E i \in DOMAIN stack : stack[i].at = "done" /\ stack[i].sync = s
Places(p) ==
    {"call"} \X {i \in DOMAIN stack : stack[i].p = p}
    \cup {"held"} \X (held \cap {p})
    \cup {"suspended"} \X At(suspended, p)
    \cup {"evaluated"} \X At(evaluated, p)
    \cup {"post"} \X {i \in At(post, p) : ~Resumed(i)}
    \cup {"triggered"} \X {i \in At(triggered, p) : phase = "dynamic" => ~Resumed(i)}
    \cup {"join"} \X {s \in Sync : sync[s].susp = p /\ ~InDone(s)}

\* However calls nest, a process that has not ended is on the stack or held by one
\* queue or join, once, and one that has ended by none: no process is lost, and
\* no handle of a running or destroyed coroutine is left to be resumed.
HeldOnce ==
    \A p \in Proc : Cardinality(Places(p)) = IF p \in Created \ gone THEN 1 ELSE 0

\* The queue that doPostUpdates() or resume() iterates over does not grow under the
\* iteration, whatever the resumed processes await: no iterator is invalidated
\* and clear() destroys nobody that waits.
IteratedUnchanged ==
    [][/\ phase = "post" /\ phase' = "post" => post' = post
       /\ phase = "dynamic" /\ phase' = "dynamic" => triggered' = triggered]_vars

\* An event reaches every process that was suspended on it when it fired: until the
\* last of them has read the event nobody clears it, provided that every wait for it names
\* the event itself.
EventSeenByAll ==
    \A p \in owed : waitFor[p] \notin MemberEvent =>
        \/ trigger[p]
        \/ waitFor[p] \in fired /\ (At(suspended, p) # {} \/ At(evaluated, p) # {})

Satisfied(s) ==
    IF s \in anyJoin THEN branches[s] \cap doneBy # {} ELSE branches[s] \subseteq doneBy
Forking(s) == \E i \in DOMAIN stack : stack[i].at = "fork" /\ stack[i].sync = s

\* Once its branches were called, a process waits in a join exactly as long as the
\* branches that called done() are too few: all but one may still be running for
\* join_any, none for join, wherever they ended and whoever resumed them.
JoinExact ==
    \A s \in Sync :
        branches[s] # {} /\ ~Forking(s) =>
            ((sync[s].susp # None /\ ~InDone(s)) <=> ~Satisfied(s))

\* wait fork returns: once all children of the process have finished or were killed
\* the process is resumed, or destroyed if it was killed itself.
WaitForkReturns ==
    \A p \in Proc :
        At(suspended, p) # {} /\ waitFor[p] = "fork" /\ CompletedFork(p)
            ~> p \in gone \/ ~CompletedFork(p) \/ \E i \in DOMAIN stack : stack[i].p = p

\* `Once the required number of coroutines finish execution, the forking coroutine is
\* resumed', and VlProcess counts a killed process as completed: nobody is left
\* waiting for branches that have all finished or were killed.
JoinNotStranded ==
    stack = <<>> => \A s \in Sync :
        sync[s].susp # None =>
            \E p \in branches[s] : p \notin gone \/ waitFor[p] = "forever"

================================================================================
