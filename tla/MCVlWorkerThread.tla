---------------------------- MODULE MCVlWorkerThread ----------------------------
(***************************************************************************)
(* Two calling threads, each making up to MaxCalls calls of addTask() or   *)
(* wait() before the pool is destroyed.                                    *)
(***************************************************************************)
EXTENDS VlWorkerThread
================================================================================
