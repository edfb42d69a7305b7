----------------------------- MODULE MCTraceOffload -----------------------------
(* Instance of TraceOffload for TLC. *)
EXTENDS TraceOffload
================================================================================
