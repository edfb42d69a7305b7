------------------------------- MODULE TaskQueue -------------------------------
(***************************************************************************)
(* What a worker thread promises its callers: tasks run one at a time, in  *)
(* the order in which they were added, every one of them, until the stop   *)
(* task.  ExecGraph relies on this of each worker; VlWorkerThread          *)
(* implements it with a mutex, a condition variable and a vector.          *)
(***************************************************************************)
EXTENDS Sequences

CONSTANTS
    Task,   \* tasks, the stop task included
    Stop,   \* the task that ends the worker
    Idle    \* no task is running

VARIABLES
    todo,       \* tasks added and not yet begun
    current,    \* the running task, or Idle
    stopped     \* the stop task has been reached

qvars == <<todo, current, stopped>>

QInit ==
    /\ todo = <<>>
    /\ current = Idle
    /\ stopped = FALSE

Add(t) ==
    /\ todo' = Append(todo, t)
    /\ UNCHANGED <<current, stopped>>

Begin ==
    /\ ~stopped
    /\ current = Idle
    /\ todo # <<>>
    /\ current' = Head(todo)
    /\ todo' = Tail(todo)
    /\ UNCHANGED stopped

End ==
    /\ current # Idle
    /\ current' = Idle
    /\ stopped' = (current = Stop)
    /\ UNCHANGED todo

QNext == (\E t \in Task : Add(t)) \/ Begin \/ End

QSpec == QInit /\ [][QNext]_qvars /\ WF_qvars(Begin) /\ WF_qvars(End)
================================================================================
