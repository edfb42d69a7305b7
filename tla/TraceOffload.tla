------------------------------- MODULE TraceOffload -------------------------------
(***************************************************************************)
(* Offloaded tracing (--trace-fst with --trace-threads 2): VerilatedTrace  *)
(* fills buffers with commands and hands them to a worker thread, which    *)
(* writes the file and hands the buffers back through a second queue.      *)
(*                                                                         *)
(* Every call of the user holds m_mutex from beginning to end, so there is *)
(* one call at a time, whichever thread makes it: `call' and `pc' say where *)
(* it is.  The traced design is one signal.                                *)
(***************************************************************************)
EXTENDS Integers, Sequences, FiniteSets

CONSTANTS
    MaxBuffers,         \* the 8 of getOffloadBuffer()
    Value,              \* values of the traced signal
    MaxTime,            \* bound on the time of a dump
    MaxOpens,           \* bound on the times the file is opened
    MaxFlushes,         \* bound on the flushes of a file
    FlushWhenClosed     \* does the program flush a file that is closed?

ASSUME TraceAssumption ==
    /\ MaxBuffers \in Nat \ {0} /\ MaxTime \in Nat /\ MaxOpens \in Nat /\ MaxFlushes \in Nat
    /\ FlushWhenClosed \in BOOLEAN

Buffer == 1 .. MaxBuffers
Time == 0 .. MaxTime
Dump == [t : Time, v : Value]
NoBuffer == 0
NoTime == -1

VARIABLES
    call, pc, buf, arg,     \* the call in progress, where it is, its buffer and its argument
    stash,                  \* buffers that waitForOffloadBuffer() took out of its way
    num,                    \* m_numOffloadBuffers
    mem,                    \* the commands in each buffer: [dump, end]
    toWorker, fromWorker,   \* m_offloadBuffersToWorker, m_offloadBuffersFromWorker
    worker, wbuf,           \* offloadWorkerThreadMain(): where it is, and its buffer
    open,                   \* m_fst
    fullDump,               \* m_fullDump
    timeLastDump,           \* m_timeLastDump, NoTime until m_didSomeDump
    oldval,                 \* m_sigs_oldvalp
    timeui,                 \* m_timeui: a time change that is not in the file yet
    fileTime, file,         \* the file: its current time, and its value changes
    opens, flushes          \* bounded counters

\* History: the dumps requested of the open file, and how many are in it.
VARIABLES requested, written

callVars == <<call, pc, buf, arg, stash>>
queueVars == <<num, mem, toWorker, fromWorker>>
workerVars == <<worker, wbuf>>
fileVars == <<oldval, timeui, fileTime, file, written>>
userVars == <<open, fullDump, timeLastDump, opens, flushes, requested>>
vars == <<callVars, queueVars, workerVars, fileVars, userVars>>

Init ==
    /\ call = "none" /\ pc = "idle" /\ buf = NoBuffer /\ arg \in Dump /\ stash = <<>>
    /\ arg.t = 0
    /\ num = 0 /\ toWorker = <<>> /\ fromWorker = <<>>
    /\ mem = [b \in Buffer |-> [dump |-> <<>>, end |-> "END"]]
    /\ worker = "none" /\ wbuf = NoBuffer
    /\ open = FALSE /\ fullDump = TRUE /\ timeLastDump = NoTime
    /\ oldval \in Value /\ timeui = 0 /\ fileTime = 0 /\ file = <<>>
    /\ opens = 0 /\ flushes = 0
    /\ requested = <<>> /\ written = 0

--------------------------------------------------------------------------------
(* The file: VerilatedFst and the FST writer behind it. *)

\* VerilatedFst::emitTimeChangeMaybe()
EmitTimeChangeMaybe ==
    /\ fileTime' = IF timeui # 0 THEN timeui ELSE fileTime
    /\ timeui' = 0

\* A faulty variant: the time change is not kept back.
EmitTimeChangeLost(t) ==
    /\ timeui' = 0
    /\ UNCHANGED fileTime

\* VerilatedFst::emitTimeChange(): the time is kept until a value changes.
EmitTimeChange(t) ==
    /\ fileTime' = IF t = 0 THEN 0 ELSE fileTime
    /\ timeui' = t

\* full*(): the value is remembered and emitted, after the time.
EmitValue(v) ==
    /\ oldval' = v
    /\ EmitTimeChangeMaybe
    /\ file' = Append(file, [t |-> fileTime', v |-> v])

--------------------------------------------------------------------------------
(* Calls of the user. *)

\* open() of a closed file, which starts the worker thread.
Open ==
    /\ pc = "idle" /\ ~open /\ opens < MaxOpens
    /\ open' = TRUE /\ opens' = opens + 1 /\ flushes' = 0
    /\ fullDump' = TRUE
    /\ file' = <<>> /\ fileTime' = 0 /\ requested' = <<>> /\ written' = 0
    /\ worker' = "idle"
    /\ UNCHANGED <<callVars, queueVars, wbuf, timeLastDump, oldval, timeui>>

\* dump(): one that is not later than the last is ignored, and so is one to a closed
\* file, but for its time.  A full dump begins with flushBase().
DumpCall(d) ==
    /\ pc = "idle" /\ d.t > timeLastDump
    /\ timeLastDump' = d.t
    /\ IF open
       THEN /\ call' = IF fullDump THEN "full" ELSE "dump"
            /\ pc' = "get" /\ arg' = d
            /\ requested' = Append(requested, d)
       ELSE UNCHANGED <<call, pc, arg, requested>>
    /\ UNCHANGED <<buf, stash, queueVars, workerVars, fileVars, open, fullDump, opens, flushes>>

\* flush(), called by the user or by runFlushCallbacks() on behalf of $stop and
\* $fatal; the callback stays registered when the file is closed.
Flush ==
    /\ pc = "idle" /\ (open \/ (FlushWhenClosed /\ opens > 0)) /\ flushes < MaxFlushes
    /\ flushes' = flushes + 1
    /\ call' = "flush" /\ pc' = "get"
    /\ UNCHANGED <<buf, arg, stash, queueVars, workerVars, fileVars, open, fullDump,
                   timeLastDump, opens, requested>>

\* close(), of a closed file too: without a worker thread there is nothing to shut
\* down.
Close ==
    /\ pc = "idle"
    /\ call' = "close"
    /\ pc' = IF worker = "none" THEN "drain" ELSE "get"
    /\ UNCHANGED <<buf, arg, stash, queueVars, workerVars, fileVars, userVars>>

--------------------------------------------------------------------------------
(* Steps of a call. *)

\* getOffloadBuffer(): a buffer that came back, or a new one, or wait.
GetReturned ==
    /\ pc = "get" /\ fromWorker # <<>>
    /\ buf' = Head(fromWorker) /\ fromWorker' = Tail(fromWorker)
    /\ pc' = "fill"
    /\ UNCHANGED <<call, arg, stash, num, mem, toWorker, workerVars, fileVars, userVars>>

GetNew ==
    /\ pc = "get" /\ fromWorker = <<>> /\ num < MaxBuffers
    /\ num' = num + 1 /\ buf' = num + 1
    /\ pc' = "fill"
    /\ UNCHANGED <<call, arg, stash, mem, toWorker, fromWorker, workerVars, fileVars, userVars>>

\* A faulty variant: nobody waits for the buffer.
PutBufferOnly ==
    /\ pc = "fill"
    /\ mem' = [mem EXCEPT ![buf] = [dump |-> IF call = "dump" THEN <<arg>> ELSE <<>>,
                                    end |-> IF call = "close" THEN "SHUTDOWN" ELSE "END"]]
    /\ toWorker' = Append(toWorker, buf)
    /\ IF call = "dump" THEN pc' = "idle" /\ call' = "none"
                        ELSE pc' = "restore" /\ UNCHANGED call
    /\ UNCHANGED <<buf, arg, stash, num, fromWorker, workerVars, fileVars, userVars>>

\* The buffer is filled with commands and put on the queue.  A dump is done then, the
\* other calls go on to waitForOffloadBuffer().
PutBuffer ==
    /\ pc = "fill"
    /\ mem' = [mem EXCEPT ![buf] = [dump |-> IF call = "dump" THEN <<arg>> ELSE <<>>,
                                    end |-> IF call = "close" THEN "SHUTDOWN" ELSE "END"]]
    /\ toWorker' = Append(toWorker, buf)
    /\ IF call = "dump" THEN pc' = "idle" /\ call' = "none"
                        ELSE pc' = "wait" /\ UNCHANGED call
    /\ UNCHANGED <<buf, arg, stash, num, fromWorker, workerVars, fileVars, userVars>>

\* A faulty variant: any buffer that comes back ends the wait.
WaitAny ==
    /\ pc = "wait" /\ fromWorker # <<>>
    /\ stash' = Append(stash, Head(fromWorker)) /\ fromWorker' = Tail(fromWorker)
    /\ pc' = "restore"
    /\ UNCHANGED <<call, buf, arg, num, mem, toWorker, workerVars, fileVars, userVars>>

\* waitForOffloadBuffer(): buffers are stashed until the wanted one arrives ...
Wait ==
    /\ pc = "wait" /\ fromWorker # <<>>
    /\ stash' = Append(stash, Head(fromWorker)) /\ fromWorker' = Tail(fromWorker)
    /\ pc' = IF Head(fromWorker) = buf THEN "restore" ELSE "wait"
    /\ UNCHANGED <<call, buf, arg, num, mem, toWorker, workerVars, fileVars, userVars>>

\* A faulty variant: the stashed buffers are dropped.
RestoreNone ==
    /\ pc = "restore" /\ stash # <<>>
    /\ stash' = <<>>
    /\ UNCHANGED <<call, pc, buf, arg, num, mem, toWorker, fromWorker, workerVars, fileVars, userVars>>

\* ... and put back, the last one first.
Restore ==
    /\ pc = "restore" /\ stash # <<>>
    /\ fromWorker' = <<stash[Len(stash)]>> \o fromWorker
    /\ stash' = SubSeq(stash, 1, Len(stash) - 1)
    /\ UNCHANGED <<call, pc, buf, arg, num, mem, toWorker, workerVars, fileVars, userVars>>

Restored ==
    /\ pc = "restore" /\ stash = <<>>
    /\ pc' = IF call = "close" THEN "join" ELSE "direct"
    /\ UNCHANGED <<call, buf, arg, stash, queueVars, workerVars, fileVars, userVars>>

\* The end of flush()
FlushFile ==
    /\ pc = "direct" /\ call = "flush"
    /\ EmitTimeChangeMaybe
    /\ pc' = "idle" /\ call' = "none"
    /\ UNCHANGED <<buf, arg, stash, queueVars, workerVars, oldval, file, written, userVars>>

\* The rest of a full dump: the caller emits time and values itself.
FullDump ==
    /\ pc = "direct" /\ call = "full"
    /\ oldval' = arg.v
    /\ fileTime' = arg.t /\ timeui' = 0
    /\ file' = Append(file, [t |-> arg.t, v |-> arg.v])
    /\ written' = written + 1
    /\ fullDump' = FALSE
    /\ pc' = "idle" /\ call' = "none"
    /\ UNCHANGED <<buf, arg, stash, queueVars, workerVars, open, timeLastDump, opens,
                   flushes, requested>>

\* shutdownOffloadWorker() joins the thread.
Join ==
    /\ pc = "join" /\ worker = "stopped"
    /\ worker' = "none"
    /\ pc' = "drain"
    /\ UNCHANGED <<call, buf, arg, stash, queueVars, wbuf, fileVars, userVars>>

\* closeBase() deletes the buffers it counted ...
Drain ==
    /\ pc = "drain" /\ num > 0 /\ fromWorker # <<>>
    /\ fromWorker' = Tail(fromWorker) /\ num' = num - 1
    /\ UNCHANGED <<callVars, mem, toWorker, workerVars, fileVars, userVars>>

\* ... and close() closes the file.
CloseFile ==
    /\ pc = "drain" /\ num = 0
    /\ EmitTimeChangeMaybe
    /\ open' = FALSE
    /\ pc' = "idle" /\ call' = "none"
    /\ UNCHANGED <<buf, arg, stash, queueVars, workerVars, oldval, file, written, fullDump,
                   timeLastDump, opens, flushes, requested>>

--------------------------------------------------------------------------------
(* offloadWorkerThreadMain() *)

WorkerGet ==
    /\ worker = "idle" /\ toWorker # <<>>
    /\ wbuf' = Head(toWorker) /\ toWorker' = Tail(toWorker)
    /\ worker' = IF mem[wbuf'].dump = <<>> THEN "end" ELSE "time"
    /\ UNCHANGED <<callVars, num, mem, fromWorker, fileVars, userVars>>

\* TIME_CHANGE
WorkerTime ==
    /\ worker = "time"
    /\ EmitTimeChange(mem[wbuf].dump[1].t)
    /\ worker' = "chg"
    /\ UNCHANGED <<callVars, queueVars, wbuf, oldval, file, written, userVars>>

\* CHG_*: only a value that differs from the last one is emitted.
WorkerChange ==
    /\ worker = "chg"
    /\ LET v == mem[wbuf].dump[1].v
       IN  IF v # oldval THEN EmitValue(v) ELSE UNCHANGED <<oldval, timeui, fileTime, file>>
    /\ written' = written + 1
    /\ worker' = "end"
    /\ UNCHANGED <<callVars, queueVars, wbuf, userVars>>

\* A faulty variant: the worker stops with the buffer in its hands.
WorkerEndKeep ==
    /\ worker = "end"
    /\ fromWorker' = IF mem[wbuf].end = "SHUTDOWN" THEN fromWorker ELSE Append(fromWorker, wbuf)
    /\ worker' = IF mem[wbuf].end = "SHUTDOWN" THEN "stopped" ELSE "idle"
    /\ wbuf' = NoBuffer
    /\ UNCHANGED <<callVars, num, mem, toWorker, fileVars, userVars>>

\* END or SHUTDOWN: the buffer is returned.
WorkerEnd ==
    /\ worker = "end"
    /\ fromWorker' = Append(fromWorker, wbuf)
    /\ worker' = IF mem[wbuf].end = "SHUTDOWN" THEN "stopped" ELSE "idle"
    /\ wbuf' = NoBuffer
    /\ UNCHANGED <<callVars, num, mem, toWorker, fileVars, userVars>>

--------------------------------------------------------------------------------
UserCall == Open \/ (\E d \in Dump : DumpCall(d)) \/ Flush \/ Close

CallStep ==
    \/ GetReturned \/ GetNew \/ PutBuffer \/ Wait \/ Restore \/ Restored
    \/ FlushFile \/ FullDump \/ Join \/ Drain \/ CloseFile

WorkerStep == WorkerGet \/ WorkerTime \/ WorkerChange \/ WorkerEnd

Next == UserCall \/ CallStep \/ WorkerStep

Spec == Init /\ [][Next]_vars

\* Both threads run; no call has to be made.
FairSpec == Spec /\ WF_vars(CallStep) /\ WF_vars(WorkerStep)

--------------------------------------------------------------------------------
(* Properties *)

\* Every variable keeps its type.
TypeOK ==
    /\ call \in {"none", "dump", "full", "flush", "close"}
    /\ pc \in {"idle", "get", "fill", "wait", "restore", "direct", "join", "drain"}
    /\ buf \in Buffer \cup {NoBuffer} /\ arg \in Dump
    /\ stash \in Seq(Buffer) /\ toWorker \in Seq(Buffer) /\ fromWorker \in Seq(Buffer)
    /\ num \in 0 .. MaxBuffers
    /\ mem \in [Buffer -> [dump : {<<>>} \cup {<<d>> : d \in Dump}, end : {"END", "SHUTDOWN"}]]
    /\ worker \in {"none", "idle", "time", "chg", "end", "stopped"}
    /\ wbuf \in Buffer \cup {NoBuffer}
    /\ open \in BOOLEAN /\ fullDump \in BOOLEAN
    /\ timeLastDump \in Time \cup {NoTime}
    /\ oldval \in Value /\ timeui \in Time /\ fileTime \in Time /\ file \in Seq(Dump)
    /\ opens \in Nat /\ flushes \in Nat
    /\ requested \in Seq(Dump) /\ written \in Nat

Busy == worker \in {"time", "chg", "end"}
At(q, b) == {i \in 1 .. Len(q) : q[i] = b}
Places(b) ==
    {"caller"} \X {i \in {b} : pc = "fill" /\ buf = b}
    \cup {"worker"} \X {i \in {b} : Busy /\ wbuf = b}
    \cup {"stash"} \X At(stash, b)
    \cup {"to"} \X At(toWorker, b)
    \cup {"from"} \X At(fromWorker, b)

\* The buffers circulate: each allocated buffer is in one queue, with the caller or
\* with the worker, once.  A lost one would starve getOffloadBuffer() at the limit
\* or leave closeBase() waiting for it, one that is twice there would be filled
\* while it is read.
BuffersConserved ==
    /\ pc # "drain" => \A b \in Buffer : Cardinality(Places(b)) = IF b <= num THEN 1 ELSE 0
    /\ pc = "drain" => Len(fromWorker) = num

\* The caller touches the file and the old values itself only while the worker has
\* nothing left to write: `As the processing is in-order, this ensures all previous
\* buffers have been processed'.
CallerWritesAlone ==
    pc \in {"direct", "join", "drain"} => ~Busy /\ toWorker = <<>>

Shown(t) == LET js == {j \in 1 .. Len(file) : file[j].t <= t}
            IN  file[CHOOSE j \in js : \A k \in js : k <= j].v

\* The waveform is right: at the time of every dump that was written the file shows
\* the value dumped, though unchanged values and their times are left out and old
\* values are remembered across full dumps and reopened files.
WaveformExact ==
    \A i \in 1 .. written :
        /\ \E j \in 1 .. Len(file) : file[j].t <= requested[i].t
        /\ Shown(requested[i].t) = requested[i].v

File == INSTANCE TraceFile WITH requested <- Len(requested)

\* Offloading is invisible: dumps reach the file in the order of the calls, and flush(),
\* full dumps and close() return only when all earlier dumps are in the file.
ImplementsFile == File!Spec

\* Every call returns: neither thread waits for a buffer that the other one does not
\* give back.
CallsReturn == pc # "idle" ~> pc = "idle"
================================================================================
