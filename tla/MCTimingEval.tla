------------------------------ MODULE MCTimingEval ------------------------------
(***************************************************************************)
(* MCScheds: a named event, a signal that a wait statement watches and the *)
(* event of dynamic nonblocking assignments; one sensitivity list has two  *)
(* items.  MCSingle and MCMulti: the sensitivity list of a single event,   *)
(* and @(d or e).                                                          *)
(***************************************************************************)
EXTENDS TimingEval

MCScheds == <<<<"x">>, <<"e", "x">>, <<"n">>>>
MCSingle == <<<<"e">>, <<"n">>>>
MCMulti == <<<<"d", "e">>, <<"n">>>>
MCMaxRuns == <<2, 1>>
================================================================================
