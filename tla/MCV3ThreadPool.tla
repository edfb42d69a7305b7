---------------------------- MODULE MCV3ThreadPool ----------------------------
(***************************************************************************)
(* A few workers and jobs; the runs give the constants their values.       *)
(***************************************************************************)
EXTENDS V3ThreadPool
================================================================================
