-------------------------------- MODULE TraceFile --------------------------------
(***************************************************************************)
(* What a trace file promises its user, whoever writes it: dumps reach the *)
(* file in the order of the calls, and a flush, a full dump or a close     *)
(* returns only when every earlier dump is in the file.                    *)
(***************************************************************************)
EXTENDS Naturals

VARIABLES
    open,           \* the file is open
    call,           \* the call in progress, or "none"
    requested,      \* dumps requested of this file
    written         \* dumps of these that are in the file

vars == <<open, call, requested, written>>

Call == {"dump", "full", "flush", "close"}

Init == ~open /\ call = "none" /\ requested = 0 /\ written = 0

Open ==
    /\ call = "none" /\ ~open
    /\ open' = TRUE /\ requested' = 0 /\ written' = 0
    /\ UNCHANGED call

Begin(c) ==
    /\ call = "none"
    /\ c \in {"dump", "full"} => open
    /\ call' = c
    /\ requested' = IF c \in {"dump", "full"} THEN requested + 1 ELSE requested
    /\ UNCHANGED <<open, written>>

Write ==
    /\ written < requested
    /\ written' = written + 1
    /\ UNCHANGED <<open, call, requested>>

Return ==
    /\ call # "none"
    /\ call # "dump" => written = requested
    /\ call' = "none"
    /\ open' = (open /\ call # "close")
    /\ UNCHANGED <<requested, written>>

\* A full dump is written by the call itself.
WriteAndReturn ==
    /\ call = "full"
    /\ written = requested - 1
    /\ call' = "none"
    /\ written' = requested
    /\ UNCHANGED <<open, requested>>

Next == Open \/ (\E c \in Call : Begin(c)) \/ Write \/ Return \/ WriteAndReturn

Spec == Init /\ [][Next]_vars
================================================================================
