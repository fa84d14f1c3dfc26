----------------------------- MODULE Backtrace -----------------------------
(***************************************************************************)
(* One run of collect_backtrace (backtrace.cpp): the unwinder's callback   *)
(* records the frames of the current thread, the threads of the process    *)
(* are listed from /proc/self/task, and a report of both is emitted into   *)
(* the caller's buffer.                                                    *)
(*                                                                         *)
(* The unwinder calls back with any address, and ends at any frame.  The   *)
(* other threads of the process start and exit meanwhile.  The text of a   *)
(* report is abstracted to its parts and its length; skipped_frames, which *)
(* is only logged, is left out.                                            *)
(***************************************************************************)
EXTENDS Integers, Sequences

CONSTANTS
    Address,     \* what the unwinder may call back with; 0 is the null ip
    Adjust,      \* sizeof(u_int32_t) on aarch64, 0 elsewhere
    Thumb,       \* built for Thumb: bit 0 of an address is reset
    MaxFrames,   \* BACKTRACE_FRAMES_MAX
    MaxThreads,  \* BACKTRACE_THREADS_MAX
    MaxSize,     \* max_size, the caller's BACKTRACE_SZ_MAX
    HeadSize, ThreadSize, FrameSize,  \* lengths in a report
    Tid, Self,   \* the threads of the process, and the current one
    Callers,     \* who calls: "handler", "dump", "terminate"
    Failures,    \* the calls that may fail: "opendir", "fopen"
    MaxDepth     \* bound: frames the unwinder walks

ASSUME BacktraceAssumption ==
    /\ Address \subseteq Nat /\ 0 \in Address /\ Adjust \in Nat
    /\ \A ip \in Address \ {0} : ip > Adjust
    /\ Thumb \in BOOLEAN
    /\ MaxFrames \in Nat \ {0} /\ MaxThreads \in Nat \ {0}
    /\ MaxSize \in Nat \ {0, 1}
    /\ HeadSize \in Nat /\ ThreadSize \in Nat /\ FrameSize \in Nat
    /\ Self \in Tid /\ "." \notin Tid
    /\ Callers \subseteq {"handler", "dump", "terminate"}
    /\ Failures \subseteq {"opendir", "fopen"}
    /\ MaxDepth \in Nat

VARIABLES
    pc,        \* the step collect_backtrace is at
    caller,    \* who called it
    crash_ip,  \* state.crash_ip
    frames,    \* state.frames, up to state.frame_cnt
    walked,    \* history: the addresses the unwinder called back with
    live,      \* the threads of the process
    fresh,     \* thread ids not used so far
    entries,   \* what readdir may still return
    due,       \* threads it must return, unless they exit
    entry,     \* the thread whose stat is read next
    threads,   \* backtrace.threads
    report,    \* what was emitted
    copied,    \* bytes of it in the buffer
    result     \* what collect_backtrace returned

walk    == <<crash_ip, frames, walked>>
process == <<live, fresh>>
listing == <<entries, due, entry, threads>>
output  == <<report, copied, result>>
vars    == <<pc, caller, walk, process, listing, output>>

ThreadInfo == [tid : Tid, known : BOOLEAN, crashed : BOOLEAN, stack : BOOLEAN]

\* A report lists its parts and, per thread, the stack that is printed.
NoReport == [parts |-> <<>>, stacks |-> <<>>]

Min(a, b) == IF a <= b THEN a ELSE b

Init ==
    /\ pc = "call"
    /\ caller \in Callers
    /\ crash_ip = 0 /\ frames = <<>> /\ walked = <<>>
    /\ live \in {L \in SUBSET Tid : Self \in L}
    /\ fresh = Tid \ live
    /\ entries = {} /\ due = {} /\ entry = Self /\ threads = <<>>
    /\ report = NoReport /\ copied = 0 /\ result = FALSE

-----------------------------------------------------------------------------
(* The unwinder (unwinder.cpp).                                            *)

\* What the caller passes: a signal handler its siginfo and context, dumpStack
\* zeroed ones, terminateHandler neither.
Passed  == caller # "terminate"
CrashIp == IF caller = "dump" THEN {0} ELSE Address

\* A frame as it is recorded.  The frame of the crash and a null ip are not
\* adjusted.
Shown(ip) ==
    LET adjusted == IF ip \in {crash_ip, 0} THEN ip ELSE ip - Adjust
    IN  IF Thumb THEN adjusted - (adjusted % 2) ELSE adjusted

\* Deviation: a limit that is off by one.
FullLate(seq) == Len(seq) > MaxFrames

Full(seq) == Len(seq) >= MaxFrames

\* Null frames and repeated ones are ignored, but for the first frame.
Ignored(ip, seq) == Len(seq) > 0 /\ (ip = 0 \/ ip = seq[Len(seq)])

record_frame(ip, seq) ==
    IF Full(seq) \/ Ignored(ip, seq) THEN seq ELSE Append(seq, ip)

unwind_backtrace ==
    /\ pc = "call"
    /\ \/ ~Passed /\ pc' = "describe" /\ UNCHANGED crash_ip
       \/ Passed /\ pc' = "unwind" /\ crash_ip' \in CrashIp
    /\ UNCHANGED <<caller, frames, walked, process, listing, output>>

\* Deviation: the frame of the crash does not start the array again.
unwinder_cb_keeps(ip) ==
    /\ pc = "unwind" /\ Len(walked) < MaxDepth
    /\ frames' = record_frame(Shown(ip), frames)
    /\ pc' = IF Full(frames) THEN "describe" ELSE "unwind"
    /\ walked' = Append(walked, ip)
    /\ UNCHANGED <<caller, crash_ip, process, listing, output>>

\* The frame of the crash starts the array again: what was recorded before it
\* are the frames of the signal handler.
unwinder_cb(ip) ==
    LET kept == IF ip = crash_ip THEN <<>> ELSE frames
    IN  /\ pc = "unwind" /\ Len(walked) < MaxDepth
        /\ frames' = record_frame(Shown(ip), kept)
        /\ pc' = IF Full(kept) THEN "describe" ELSE "unwind"
        /\ walked' = Append(walked, ip)
        /\ UNCHANGED <<caller, crash_ip, process, listing, output>>

EndOfStack ==
    /\ pc = "unwind"
    /\ pc' = "describe"
    /\ UNCHANGED <<caller, walk, process, listing, output>>

\* Deviation: a null siginfo is described as an unknown signal.
DescribeUnknown ==
    /\ pc = "describe"
    /\ pc' = "opendir"
    /\ UNCHANGED <<caller, walk, process, listing, output>>

\* The description is looked up with siginfo->si_signo.
Describe ==
    /\ pc = "describe"
    /\ pc' = IF Passed THEN "opendir" ELSE "fault"
    /\ UNCHANGED <<caller, walk, process, listing, output>>

-----------------------------------------------------------------------------
(* The threads (collect_thread_state).                                     *)

OpenTask ==
    /\ pc = "opendir"
    /\ pc' = "readdir" /\ entries' = live \cup {"."} /\ due' = live
    /\ UNCHANGED <<caller, walk, process, entry, threads, output>>

OpenTaskFails ==
    /\ pc = "opendir" /\ "opendir" \in Failures
    /\ pc' = "emit"
    /\ UNCHANGED <<caller, walk, process, listing, output>>

MoreThreads == Len(threads) < MaxThreads

\* Only names that are numbers are threads.
ReadEntry(e) ==
    /\ pc = "readdir" /\ MoreThreads /\ e \in entries
    /\ entries' = entries \ {e} /\ due' = due \ {e}
    /\ \/ e \notin Tid /\ UNCHANGED <<pc, entry>>
       \/ e \in Tid /\ pc' = "info" /\ entry' = e
    /\ UNCHANGED <<caller, walk, process, threads, output>>

EndOfList ==
    /\ pc = "readdir"
    /\ ~MoreThreads \/ due = {}
    /\ pc' = "emit"
    /\ UNCHANGED <<caller, walk, process, listing, output>>

\* The thread's stat file may be gone, or not open.
StatReads == IF entry \notin live THEN {FALSE}
             ELSE {TRUE} \cup {FALSE : f \in Failures \cap {"fopen"}}

IsCrashed(t) == t = Self

\* Deviation: a thread whose stat cannot be read is not listed.
collect_thread_info_skips ==
    /\ pc = "info"
    /\ \E known \in StatReads :
         threads' = IF ~known THEN threads
                    ELSE Append(threads,
                           [tid     |-> entry,
                            known   |-> known,
                            crashed |-> IsCrashed(entry),
                            stack   |-> IsCrashed(entry) /\ Len(frames) > 0])
    /\ pc' = "readdir"
    /\ UNCHANGED <<caller, walk, process, entries, due, entry, output>>

collect_thread_info ==
    /\ pc = "info"
    /\ \E known \in StatReads :
         threads' = Append(threads,
             [tid     |-> entry,
              known   |-> known,
              crashed |-> IsCrashed(entry),
              stack   |-> IsCrashed(entry) /\ Len(frames) > 0])
    /\ pc' = "readdir"
    /\ UNCHANGED <<caller, walk, process, entries, due, entry, output>>

ThreadStarts(t) ==
    /\ t \in fresh
    /\ live' = live \cup {t} /\ fresh' = fresh \ {t}
    /\ entries' = IF pc \in {"readdir", "info"} THEN entries \cup {t} ELSE entries
    /\ UNCHANGED <<pc, caller, walk, due, entry, threads, output>>

ThreadExits(t) ==
    /\ t \in live \ {Self}
    /\ live' = live \ {t} /\ due' = due \ {t}
    /\ UNCHANGED <<pc, caller, walk, fresh, entries, entry, threads, output>>

-----------------------------------------------------------------------------
(* The report (emitter.cpp).                                               *)

Null == "null"

\* _EMIT_E, _EMIT_A and _EMIT_C take their items up to the first null.
EmitItems(items) ==
    LET n == CHOOSE k \in 0..Len(items) :
                 /\ \A i \in 1..k : items[i] # Null
                 /\ k = Len(items) \/ items[k + 1] = Null
    IN  SubSeq(items, 1, n)

\* What the parts return: only the registers can be null, without a context.
emit_context        == "context"
emit_registers      == IF Passed THEN "registers" ELSE Null
emit_signal_context == "exception"
emit_thread_state   == "threads"

emit_callstack(thread) == IF thread.stack THEN frames ELSE <<>>

emit_backtrace ==
    [parts  |-> EmitItems(<<emit_context, emit_registers,
                            emit_signal_context, emit_thread_state>>),
     stacks |-> [i \in DOMAIN threads |-> emit_callstack(threads[i])]]

\* The length of a report: one thread has the frames.
Size ==
    HeadSize + ThreadSize * Len(threads)
        + IF \E i \in DOMAIN threads : threads[i].stack
          THEN FrameSize * Len(frames) ELSE 0

\* Deviation: whatever was copied counts as a report.
EmitUntold ==
    /\ pc = "emit"
    /\ pc' = "done"
    /\ report' = emit_backtrace
    /\ copied' = Min(Size, MaxSize - 2)
    /\ result' = (copied' > 0)
    /\ UNCHANGED <<caller, walk, process, listing>>

\* Emit, copy what fits before the final '\0', and tell whether all did.
Emit ==
    /\ pc = "emit"
    /\ pc' = "done"
    /\ report' = emit_backtrace
    /\ copied' = Min(Size, MaxSize - 2)
    /\ result' = (copied' = Size)
    /\ UNCHANGED <<caller, walk, process, listing>>

Collect ==
    \/ unwind_backtrace \/ (\E ip \in Address : unwinder_cb(ip)) \/ EndOfStack
    \/ Describe \/ OpenTask \/ OpenTaskFails
    \/ (\E e \in Tid \cup {"."} : ReadEntry(e)) \/ collect_thread_info \/ EndOfList
    \/ Emit

Next == Collect \/ \E t \in Tid : ThreadStarts(t) \/ ThreadExits(t)

Spec == Init /\ [][Next]_vars

-----------------------------------------------------------------------------
(* Correctness.                                                            *)

\* Types; and the array of frames holds what is recorded in it, and the vector
\* of threads what is pushed: the limits are checked before each
\* (unwinder.cpp:38, backtrace.cpp:122).
TypeOK ==
    /\ pc \in {"call", "unwind", "describe", "opendir", "readdir", "info",
               "emit", "done", "fault"}
    /\ caller \in Callers
    /\ crash_ip \in Address /\ walked \in Seq(Address)
    /\ frames \in Seq(Nat) /\ Len(frames) <= MaxFrames
    /\ live \subseteq Tid /\ Self \in live /\ fresh \subseteq Tid \ live
    /\ entries \subseteq Tid \cup {"."} /\ due \subseteq live /\ entry \in Tid
    /\ threads \in Seq(ThreadInfo) /\ Len(threads) <= MaxThreads
    /\ copied \in Nat /\ result \in BOOLEAN

\* The frames are those a reader of the crash expects, whatever the unwinder
\* walks (unwinder.cpp:36-135): with `top' the last frame at the address of the
\* crash, or the first one walked, they are the walked frames from `top' on, in
\* order, without null ones and without repetitions; and none is missing
\* unless the array was full before it.
FramesFaithful ==
    walked # <<>> =>
      \E top \in DOMAIN walked, origin \in [DOMAIN frames -> DOMAIN walked] :
        /\ top = 1 \/ walked[top] = crash_ip
        /\ \A p \in DOMAIN walked : p > top => walked[p] # crash_ip
        /\ frames # <<>> /\ origin[1] = top
        /\ \A i, j \in DOMAIN frames : i < j => origin[i] < origin[j]
        /\ \A i \in DOMAIN frames : frames[i] = Shown(walked[origin[i]])
        /\ \A i \in DOMAIN frames \ {1} : frames[i] \notin {0, frames[i - 1]}
        /\ \A p \in top..Len(walked) :
             \/ \E i \in DOMAIN frames : origin[i] = p
             \/ Shown(walked[p]) = 0
             \/ \E i \in DOMAIN frames :
                  /\ frames[i] = Shown(walked[p]) /\ origin[i] < p
                  /\ i < Len(frames) => p < origin[i + 1]
             \/ Len(frames) = MaxFrames /\ origin[MaxFrames] < p

\* However the threads come and go while they are listed, a report that has
\* threads and did not reach their limit has the crashed one, once, with the
\* whole stack, and prints no stack for another (backtrace.cpp:110-136).
StackReported ==
    pc = "done" /\ threads # <<>> /\ Len(threads) < MaxThreads =>
      \E i \in DOMAIN threads :
        /\ threads[i].tid = Self /\ threads[i].crashed
        /\ report.stacks[i] = frames
        /\ \A j \in DOMAIN threads \ {i} :
             /\ threads[j].tid # Self /\ ~threads[j].crashed
             /\ report.stacks[j] = <<>>

AllParts == <<"context", "registers", "exception", "threads">>

\* A report that a caller will store is whole: the buffer did not cut it (a
\* report that just fits is told from one that is too long, backtrace.cpp:175),
\* and none of its parts was lost behind a null item (backtrace.cpp:154,
\* emitter.cpp:382), for every number of threads and frames found.
WholeReport == result => copied = Size /\ report.parts = AllParts

=============================================================================
