---------------------------- MODULE AnrHandler ----------------------------
(***************************************************************************)
(* The native ANR handler (anr-handler.cpp).  Android asks ART, on its     *)
(* "Signal Catcher" thread, to handle an ANR with SIGQUIT.  The agent      *)
(* takes the signal over: anr_interceptor writes a report and wakes a      *)
(* watchdog thread, which sends SIGQUIT on to ART.                         *)
(*                                                                         *)
(*   - the caller runs anr_handler_initialize and anr_handler_shutdown;    *)
(*   - watchdog d is the thread the d-th initialize creates;               *)
(*   - interceptor h is the handler's run for the h-th SIGQUIT, on one of  *)
(*     the threads that do not block it; that thread stops meanwhile.      *)
(***************************************************************************)
EXTENDS Integers, FiniteSets

CONSTANTS
    MaxStarts,   \* bound: calls of anr_handler_initialize
    MaxStops,    \* bound: calls of anr_handler_shutdown
    MaxAnrs,     \* bound: SIGQUITs sent to the process
    Others,      \* the threads besides the caller that do not block SIGQUIT
    DogHosts,    \* environment: the kernel may pick a watchdog to handle it
    Ordered,     \* environment: starts and stops alternate, start first
    ArtVisible,  \* environment: ART's thread can be found (no debugger)
    Failures     \* environment: the calls that may fail

Dogs   == 1..MaxStarts
Anrs   == 1..MaxAnrs
Caller == 0
None   == 0      \* no thread handle, no buffer
Hosts  == {Caller} \cup Others \cup (IF DogHosts THEN Dogs ELSE {})

ASSUME AnrAssumption ==
    /\ MaxStarts \in Nat /\ MaxStops \in Nat /\ MaxAnrs \in Nat
    /\ {DogHosts, Ordered, ArtVisible} \subseteq BOOLEAN
    /\ Others \cap (0..MaxStarts) = {}
    /\ Failures \subseteq {"pthread_create", "sem_init", "sem_post", "sigaction"}

VARIABLES
    caller,     \* where the caller is
    dog,        \* where each watchdog is
    handler,    \* where each run of the interceptor is
    host,       \* the thread each run of the interceptor is on
    held,       \* the report buffer each run of the interceptor is using
    enabled, triggered, mustPoll,  \* the flags, less their watchdog_ prefix
    sem,        \* the count of watchdog_semaphore
    thread,     \* watchdog_thread
    pid,        \* the global pid is this process
    tid,        \* anr_monitor_tid is ART's thread
    buffer,     \* reportBuffer
    heap,       \* the report buffers allocated and not freed
    installed,  \* SIGQUIT is handled by anr_interceptor
    starts, stops,  \* how often the bounded calls have happened
    lastCall,   \* how the last completed call ended
    alerts,     \* the number of SIGQUITs ART was sent
    owed,       \* the interceptors that rang with no alert and no stop since
    clean       \* no call has failed, and no watchdog began to run before its
                \* initialize was through

flags  == <<enabled, triggered, mustPoll, sem>>
target == <<pid, tid>>
memory == <<buffer, heap, held>>
calls  == <<starts, stops, lastCall>>
alarm  == <<alerts, owed>>
vars   == <<caller, dog, handler, host, flags, thread, target, memory,
            installed, calls, alarm, clean>>

TypeOK ==
    /\ caller \in {"idle", "create", "semInit", "install", "alloc", "enable",
                   "post", "join", "reset"}
    /\ dog \in [Dogs -> {"none", "loop", "choose", "wait", "stranded", "poll",
                         "alert", "end"}]
    /\ handler \in [Anrs -> {"none", "enter", "collect", "trigger", "post", "end"}]
    /\ host \in [Anrs -> Hosts]
    /\ held \in [Anrs -> 0..MaxStarts]
    /\ {enabled, triggered, mustPoll, pid, tid, installed, clean} \subseteq BOOLEAN
    /\ sem \in Nat
    /\ thread \in 0..MaxStarts /\ buffer \in 0..MaxStarts
    /\ heap \subseteq 1..MaxStarts
    /\ starts \in 0..MaxStarts /\ stops \in 0..MaxStops
    /\ lastCall \in {"none", "started", "failed", "stopped"}
    /\ alerts \in Nat /\ owed \subseteq Anrs

\* The library has just been loaded: `pid' is getpid() and `enabled' is true.
Init ==
    /\ caller = "idle"
    /\ dog = [d \in Dogs |-> "none"]
    /\ handler = [h \in Anrs |-> "none"]
    /\ host = [h \in Anrs |-> Caller]
    /\ held = [h \in Anrs |-> None]
    /\ enabled = TRUE /\ triggered = FALSE /\ mustPoll = FALSE /\ sem = 0
    /\ thread = None
    /\ pid = TRUE /\ tid = FALSE
    /\ buffer = None /\ heap = {}
    /\ installed = FALSE
    /\ starts = 0 /\ stops = 0 /\ lastCall = "none"
    /\ alerts = 0 /\ owed = {} /\ clean = TRUE

-----------------------------------------------------------------------------
Running(h) == handler[h] \notin {"none", "end"}

\* Thread t is not interrupted by a run of the interceptor.
Free(t) == \A h \in Anrs : host[h] = t => ~Running(h)

CallerGoto(from, to) == caller = from /\ Free(Caller) /\ caller' = to
DogGoto(d, from, to) == dog[d] = from /\ Free(d) /\ dog' = [dog EXCEPT ![d] = to]
HandlerGoto(h, from, to) ==
    handler[h] = from /\ handler' = [handler EXCEPT ![h] = to]

\* Deviation: nothing is posted.
SemPostSkipped == UNCHANGED <<sem, mustPoll>>
SemPost == sem' = sem + 1 /\ UNCHANGED mustPoll

-----------------------------------------------------------------------------
(* anr_handler_initialize                                                  *)

\* The call and detect_android_anr_handler.  Its `pid' is a local variable:
\* the global one is not set.
StartCall ==
    /\ starts < MaxStarts
    /\ Ordered => lastCall # "started"
    /\ CallerGoto("idle", "create")
    /\ tid' = (tid \/ ArtVisible)
    /\ starts' = starts + 1
    /\ UNCHANGED <<dog, handler, host, flags, thread, pid, memory, installed,
                   stops, lastCall, alarm, clean>>

CreateWatchdog ==
    /\ CallerGoto("create", "semInit")
    /\ dog' = [dog EXCEPT ![starts] = "loop"]
    /\ thread' = starts
    /\ UNCHANGED <<handler, host, flags, target, memory, installed, calls, alarm,
                   clean>>

CreateFails ==
    /\ "pthread_create" \in Failures
    /\ CallerGoto("create", "idle")
    /\ lastCall' = "failed"
    /\ clean' = FALSE
    /\ UNCHANGED <<dog, handler, host, flags, thread, target, memory, installed,
                   starts, stops, alarm>>

\* A thread that waits on the semaphore while sem_init resets it: undefined
\* behaviour.  It may be found by later posts, or be stranded.
SemInit ==
    /\ CallerGoto("semInit", "install")
    /\ mustPoll' = FALSE /\ sem' = 0
    /\ \E S \in SUBSET {d \in Dogs : dog[d] = "wait"} :
           dog' = [d \in Dogs |-> IF d \in S THEN "stranded" ELSE dog[d]]
    /\ UNCHANGED <<handler, host, enabled, triggered, thread, target, memory,
                   installed, calls, alarm, clean>>

SemInitFails ==
    /\ "sem_init" \in Failures
    /\ CallerGoto("semInit", "install")
    /\ mustPoll' = TRUE
    /\ clean' = FALSE
    /\ UNCHANGED <<dog, handler, host, enabled, triggered, sem, thread, target,
                   memory, installed, calls, alarm>>

\* A failure of install_handler is logged and ignored.
Install ==
    /\ CallerGoto("install", "alloc")
    /\ \/ installed' = TRUE /\ UNCHANGED clean
       \/ "sigaction" \in Failures /\ UNCHANGED installed /\ clean' = FALSE
    /\ UNCHANGED <<dog, handler, host, flags, thread, target, memory, calls, alarm>>

AllocBuffer ==
    /\ CallerGoto("alloc", "enable")
    /\ buffer' = starts /\ heap' = heap \cup {starts}
    /\ UNCHANGED <<dog, handler, host, flags, thread, target, held, installed,
                   calls, alarm, clean>>

\* Deviation: the flag is taken to be set already.
EnableOmitted ==
    /\ CallerGoto("enable", "idle")
    /\ lastCall' = "started"
    /\ UNCHANGED <<dog, handler, host, flags, thread, target, memory, installed,
                   starts, stops, alarm, clean>>

Enable ==
    /\ CallerGoto("enable", "idle")
    /\ enabled' = TRUE
    /\ lastCall' = "started"
    /\ UNCHANGED <<dog, handler, host, triggered, mustPoll, sem, thread, target,
                   memory, installed, starts, stops, alarm, clean>>

-----------------------------------------------------------------------------
(* anr_handler_shutdown                                                    *)

\* Deviation: the semaphore is posted before `enabled' is cleared.
StopCallStillEnabled ==
    /\ stops < MaxStops
    /\ Ordered => lastCall = "started"
    /\ CallerGoto("idle", "post")
    /\ stops' = stops + 1
    /\ UNCHANGED <<dog, handler, host, flags, thread, target, memory, installed,
                   starts, lastCall, alarm, clean>>

StopCall ==
    /\ stops < MaxStops
    /\ Ordered => lastCall = "started"
    /\ CallerGoto("idle", "post")
    /\ enabled' = FALSE
    /\ stops' = stops + 1
    /\ owed' = {}
    /\ UNCHANGED <<dog, handler, host, triggered, mustPoll, sem, thread, target,
                   memory, installed, starts, lastCall, alerts, clean>>

\* Deviation: the watchdog is not joined.
StopPostNoJoin ==
    /\ CallerGoto("post", "reset")
    /\ IF mustPoll THEN UNCHANGED <<sem, mustPoll>> ELSE SemPost
    /\ UNCHANGED <<dog, handler, host, enabled, triggered, thread, target,
                   memory, installed, calls, alarm, clean>>

StopPost ==
    /\ CallerGoto("post", "join")
    /\ \/ ~mustPoll /\ SemPost /\ UNCHANGED clean
       \/ mustPoll /\ UNCHANGED <<sem, mustPoll, clean>>
       \/ /\ ~mustPoll /\ "sem_post" \in Failures
          /\ clean' = FALSE /\ UNCHANGED <<sem, mustPoll>>
    /\ UNCHANGED <<dog, handler, host, enabled, triggered, thread, target,
                   memory, installed, calls, alarm>>

Join ==
    /\ CallerGoto("join", "reset")
    /\ thread # None => dog[thread] = "end"
    /\ thread' = None
    /\ UNCHANGED <<dog, handler, host, flags, target, memory, installed, calls,
                   alarm, clean>>

\* Deviation: the buffer is not freed.
ResetLeaks ==
    /\ CallerGoto("reset", "idle")
    /\ triggered' = FALSE /\ pid' = FALSE /\ tid' = FALSE
    /\ buffer' = None /\ lastCall' = "stopped"
    /\ UNCHANGED <<dog, handler, host, enabled, mustPoll, sem, thread, held,
                   heap, installed, starts, stops, alarm, clean>>

\* sem_close (which does nothing to a semaphore without a name), and
\* reset_android_anr_handler.  The SIGQUIT handler stays installed.
Reset ==
    /\ CallerGoto("reset", "idle")
    /\ triggered' = FALSE /\ pid' = FALSE /\ tid' = FALSE
    /\ buffer' = None /\ heap' = heap \ {buffer}
    /\ lastCall' = "stopped"
    /\ UNCHANGED <<dog, handler, host, enabled, mustPoll, sem, thread, held,
                   installed, starts, stops, alarm, clean>>

-----------------------------------------------------------------------------
(* anr_monitor_thread                                                      *)

DogLoop(d) ==
    /\ DogGoto(d, "loop", IF enabled THEN "choose" ELSE "end")
    /\ triggered' = IF enabled THEN FALSE ELSE triggered
    /\ clean' = (clean /\ caller \notin {"semInit", "install", "alloc", "enable"})
    /\ UNCHANGED <<caller, handler, host, enabled, mustPoll, sem, thread,
                   target, memory, installed, calls, alarm>>

DogChoose(d) ==
    /\ DogGoto(d, "choose", IF mustPoll THEN "poll" ELSE "wait")
    /\ UNCHANGED <<caller, handler, host, flags, thread, target, memory,
                   installed, calls, alarm, clean>>

\* Deviation: sem_wait does not wait.
SemWaitIgnoresCount(d) ==
    /\ DogGoto(d, "wait", "alert")
    /\ sem' = sem - 1
    /\ UNCHANGED <<caller, handler, host, enabled, triggered, mustPoll, thread,
                   target, memory, installed, calls, alarm, clean>>

SemWait(d) ==
    /\ sem > 0
    /\ DogGoto(d, "wait", "alert")
    /\ sem' = sem - 1
    /\ UNCHANGED <<caller, handler, host, enabled, triggered, mustPoll, thread,
                   target, memory, installed, calls, alarm, clean>>

\* The end of the loop of usleep().
Poll(d) ==
    /\ ~enabled \/ triggered
    /\ DogGoto(d, "poll", "alert")
    /\ UNCHANGED <<caller, handler, host, flags, thread, target, memory,
                   installed, calls, alarm, clean>>

\* `if (enabled)', then tgkill: it fails when `pid' is 0.
Alert(d) ==
    /\ DogGoto(d, "alert", "loop")
    /\ IF enabled /\ tid /\ pid THEN alerts' = alerts + 1 /\ owed' = {}
                                ELSE UNCHANGED alarm
    /\ UNCHANGED <<caller, handler, host, flags, thread, target, memory,
                   installed, calls, clean>>

-----------------------------------------------------------------------------
(* anr_interceptor                                                         *)

\* The kernel runs the handler on a thread that is not running it already.
\* A watchdog it interrupts in sem_wait finds the call failed (EINTR).
Deliver(h, t) ==
    /\ installed /\ Free(t)
    /\ t \in Dogs => dog[t] \notin {"none", "end"}
    /\ HandlerGoto(h, "none", "enter")
    /\ host' = [host EXCEPT ![h] = t]
    /\ dog' = [d \in Dogs |-> IF d = t /\ dog[d] \in {"wait", "stranded"}
                              THEN "poll" ELSE dog[d]]
    /\ UNCHANGED <<caller, flags, thread, target, memory, installed, calls, alarm,
                   clean>>

\* block_signal has no effect once the handler returns.
Enter(h) ==
    /\ HandlerGoto(h, "enter",
                   IF enabled /\ buffer # None THEN "collect" ELSE "trigger")
    /\ held' = [held EXCEPT ![h] = buffer]
    /\ UNCHANGED <<caller, dog, host, flags, thread, target, buffer, heap,
                   installed, calls, alarm, clean>>

\* collect_backtrace into the buffer and, unless it did not fit, from_anr.
Collect(h) ==
    /\ HandlerGoto(h, "collect", "trigger")
    /\ UNCHANGED <<caller, dog, host, flags, thread, target, memory, installed,
                   calls, alarm, clean>>

Trigger(h) ==
    /\ HandlerGoto(h, "trigger", "post")
    /\ triggered' = TRUE
    /\ owed' = IF enabled THEN owed \cup {h} ELSE owed
    /\ UNCHANGED <<caller, dog, host, enabled, mustPoll, sem, thread, target,
                   memory, installed, calls, alerts, clean>>

Post(h) ==
    /\ HandlerGoto(h, "post", "end")
    /\ \/ ~mustPoll /\ SemPost /\ UNCHANGED clean
       \/ mustPoll /\ UNCHANGED <<sem, mustPoll, clean>>
       \/ /\ ~mustPoll /\ "sem_post" \in Failures
          /\ mustPoll' = TRUE /\ clean' = FALSE /\ UNCHANGED sem
    /\ UNCHANGED <<caller, dog, host, enabled, triggered, thread, target,
                   memory, installed, calls, alarm>>

-----------------------------------------------------------------------------
CallerStep ==
    \/ CreateWatchdog \/ CreateFails \/ SemInit \/ SemInitFails \/ Install
    \/ AllocBuffer \/ Enable \/ StopPost \/ Join \/ Reset

DogStep(d) ==
    DogLoop(d) \/ DogChoose(d) \/ SemWait(d) \/ Poll(d) \/ Alert(d)

HandlerStep(h) == Enter(h) \/ Collect(h) \/ Trigger(h) \/ Post(h)

\* Every call has returned, every signal was handled, the watchdogs wait.  If
\* something failed, one may be stranded, and the caller with it.
Rest ==
    /\ \/ /\ caller = "idle"
          /\ starts = MaxStarts /\ (stops = MaxStops \/ Ordered)
          /\ \A h \in Anrs : ~Running(h)
          /\ \A d \in Dogs : dog[d] \in {"none", "end", "wait", "poll"}
       \/ ~clean
    /\ UNCHANGED vars

Next ==
    \/ StartCall \/ StopCall \/ CallerStep
    \/ \E d \in Dogs : DogStep(d)
    \/ \E h \in Anrs, t \in Hosts : Deliver(h, t)
    \/ \E h \in Anrs : HandlerStep(h)
    \/ Rest

Spec == Init /\ [][Next]_vars

\* Every thread that can run does; calls and ANRs need not happen.
FairSpec ==
    /\ Spec
    /\ WF_vars(CallerStep)
    /\ \A d \in Dogs : WF_vars(DogStep(d))
    /\ \A h \in Anrs : WF_vars(HandlerStep(h))

-----------------------------------------------------------------------------
(* Properties                                                              *)

\* ART is alerted of no more ANRs than were intercepted: neither a shutdown's
\* post of the semaphore nor a stale trigger makes it write traces for nothing.
\* (An interceptor that ran on the watchdog itself is counted twice: it makes
\* sem_wait fail, and the semaphore it posted is found on the next round.)
NoSpuriousAlert ==
    LET Rung == {h \in Anrs : handler[h] \in {"post", "end"}}
    IN  alerts <= Cardinality(Rung) + Cardinality({h \in Rung : host[h] \in Dogs})

\* An interceptor on the caller's or a watchdog's thread never writes its report
\* into a buffer that shutdown has freed (anr-handler.cpp:91 and 177): shutdown
\* frees it after the join.
BufferAlive ==
    \A h \in Anrs : handler[h] = "collect" /\ host[h] \notin Others
                       => held[h] \in heap

\* Once shutdown has returned no watchdog is left running and no report buffer
\* is left allocated (anr-handler.cpp:225-243), in this session or the next,
\* whatever failed on the way.
StoppedClean ==
    lastCall = "stopped" /\ caller = "idle" =>
        heap = {} /\ \A d \in Dogs : dog[d] \in {"none", "end"}

\* A watchdog leaves its loop (anr-handler.cpp:43) only in the stop that is to
\* join it or, once the agent has been stopped before, in the initialize that
\* created it, which enables it last (line 215); whatever fails.
WatchdogEnds ==
    [][\A d \in Dogs : dog[d] # "end" /\ dog'[d] = "end" =>
          \/ caller \in {"post", "join"}
          \/ stops > 0 /\ caller \in {"semInit", "install", "alloc", "enable"}]_vars

\* "Signal the ANR monitor thread to report" (anr-handler.cpp:103) and "Raise
\* SIGQUIT to alert ART's ANR processing" (anr-handler.cpp:60): with the process
\* and ART's thread known, an interceptor that rang is followed by an alert to
\* ART, unless the agent is stopped, something fails or a watchdog began to run
\* before its initialize was through.
RingAnswered ==
    \A h \in Anrs : h \in owed /\ tid /\ pid /\ clean ~> h \notin owed \/ ~clean

\* The same after a restart, where the process ought to be known as well.
RestartRings ==
    \A h \in Anrs : h \in owed /\ tid /\ clean ~> h \notin owed \/ ~clean

\* "Disable ANR handling via SIGQUIT" (anr-handler.cpp:223): a shutdown ends,
\* if nothing failed and every watchdog began to run after its initialize.
StopReturns == caller = "post" ~> caller = "idle" \/ ~clean

=============================================================================
