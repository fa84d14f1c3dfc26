--------------------------- MODULE SignalHandler ---------------------------
(***************************************************************************)
(* The crash signal handler of the agent (signal-handler.cpp, with the     *)
(* helpers of signal-utils.cpp).  Threads of three kinds run its code:     *)
(*                                                                         *)
(*   - a caller runs signal_handler_initialize and signal_handler_shutdown *)
(*     (from nativeStart and nativeStop);                                  *)
(*   - an installer is the detached thread each initialize creates, which  *)
(*     runs install_signal_observers once and is never joined;             *)
(*   - a faulter is an application thread that raises an observed signal   *)
(*     and runs whatever handler the kernel's table holds for it.          *)
(*                                                                         *)
(* The kernel's table of signal dispositions is part of the model.  The    *)
(* counters `initialized' and `intercepting' are volatile sig_atomic_t:    *)
(* each ++ and -- is a load and a store, two separate steps.               *)
(***************************************************************************)
EXTENDS Integers, Sequences, FiniteSets

CONSTANTS
    Callers,     \* threads that start and stop the agent
    Faulters,    \* application threads that may fault
    Observed,    \* observedSignals[], the observed signals in array order
    Original,    \* the application's disposition of each signal
    MaxStarts,   \* bound: calls of signal_handler_initialize
    MaxStops,    \* bound: calls of signal_handler_shutdown
    MaxFaults,   \* bound: signals delivered to the interceptor
    Settled,     \* environment: starts and stops do not overlap, and the
                 \* application acts only while no installer is pending
    Failures     \* environment: the calls that may fail

Signals    == {Observed[i] : i \in DOMAIN Observed}
Installers == 1..MaxStarts      \* the k-th initialize creates installer k
Threads    == Callers \cup Faulters \cup Installers
NoThread   == 0
NoStack    == 0

\* What the kernel does with a signal: run the interceptor, run a handler of
\* the application, take the default (fatal) action, or ignore it.
Dispositions == {"agent", "handler", "default", "ignore"}

FailureKinds ==
    {"sigaltstack", "pthread_create", "setname", "sigaction", "backtrace"}

ASSUME BoundsAssumption ==
    /\ MaxStarts \in Nat /\ MaxStops \in Nat /\ MaxFaults \in Nat
    /\ Settled \in BOOLEAN /\ Failures \subseteq FailureKinds

ASSUME ThreadsAssumption ==
    /\ Callers \cap Faulters = {}
    /\ (Callers \cup Faulters) \cap (0..MaxStarts) = {}

ASSUME SignalsAssumption ==
    /\ Observed \in Seq(Signals) /\ Observed # <<>>
    /\ \A i, j \in DOMAIN Observed : Observed[i] = Observed[j] => i = j
    /\ Original \in [Signals -> Dispositions \ {"agent"}]

VARIABLES
    pc,            \* where each thread is
    reg,           \* each thread's copy of the counter it is updating
    idx,           \* each thread's loop index over observedSignals
    sig,           \* the signal each faulter is handling
    pending,       \* the faulters for which raise() left a blocked signal
    disposition,   \* the kernel's signal table
    saved,         \* observedSignals[].sa_previous
    initialized,   \* signal-handler.cpp's initialized
    intercepting,  \* signal-handler.cpp's intercepting
    mutex,         \* the holder of the module-wide mutex
    stack,         \* _stack.ss_sp
    heap,          \* the signal stacks allocated and not freed
    reports,       \* the number of crash reports written
    alive,         \* the process has not been killed
    starts, stops, faults,  \* how often the bounded events have happened
    lastCall       \* how the last completed lifecycle call ended

local  == <<pc, reg, idx, sig, pending>>
kernel == <<disposition, saved>>
count  == <<initialized, intercepting>>
memory == <<stack, heap>>
done   == <<starts, stops, faults, lastCall>>
world  == <<sig, pending, kernel, memory, reports, alive, done>>
vars   == <<local, kernel, count, mutex, memory, reports, alive, done>>

CallerPCs == {"idle", "initStack", "initSpawn", "initUnlock",
              "stopLock", "dealloc", "stopUnlock"}
UninstallPCs == {"check", "restore", "dec", "decStore"}
InstallerPCs == {"none", "load", "loadStore", "install", "reset", "end"}
FaulterPCs == {"app", "enter", "enterStore", "collect", "store",
               "lock", "chain", "unlock", "leave", "leaveStore"}

PcTypeOK ==
    /\ pc \in [Threads -> CallerPCs \cup UninstallPCs
                             \cup InstallerPCs \cup FaulterPCs]
    /\ \A c \in Callers : pc[c] \in CallerPCs \cup UninstallPCs
    /\ \A k \in Installers : pc[k] \in InstallerPCs
    /\ \A t \in Faulters : pc[t] \in FaulterPCs \cup UninstallPCs

DataTypeOK ==
    /\ reg \in [Threads -> Int]
    /\ idx \in [Threads -> 1..Len(Observed)]
    /\ sig \in [Faulters -> Signals]
    /\ pending \subseteq Faulters
    /\ disposition \in [Signals -> Dispositions]
    /\ saved \in [Signals -> Dispositions]
    /\ initialized \in Int /\ intercepting \in Int
    /\ mutex \in Threads \cup {NoThread}
    /\ stack \in 0..MaxStarts /\ heap \subseteq 1..MaxStarts
    /\ reports \in Nat
    /\ alive \in BOOLEAN
    /\ starts \in 0..MaxStarts /\ stops \in 0..MaxStops
    /\ faults \in 0..MaxFaults
    /\ lastCall \in {"none", "started", "failed", "stopped"}

TypeOK == PcTypeOK /\ DataTypeOK

\* The process before the first nativeStart.  sa_previous is zero-initialised:
\* its sa_handler is SIG_DFL.
Init ==
    /\ pc = [t \in Threads |-> IF t \in Callers THEN "idle"
                               ELSE IF t \in Faulters THEN "app" ELSE "none"]
    /\ reg = [t \in Threads |-> 0]
    /\ idx = [t \in Threads |-> 1]
    /\ sig = [t \in Faulters |-> Observed[1]]
    /\ pending = {}
    /\ disposition = Original
    /\ saved = [s \in Signals |-> "default"]
    /\ initialized = 0 /\ intercepting = 0
    /\ mutex = NoThread
    /\ stack = NoStack /\ heap = {}
    /\ reports = 0
    /\ alive = TRUE
    /\ starts = 0 /\ stops = 0 /\ faults = 0
    /\ lastCall = "none"

-----------------------------------------------------------------------------
\* A living thread t is at a program point, and moves from one to another.
At(t, point)      == alive /\ pc[t] = point
Goto(t, from, to) == At(t, from) /\ pc' = [pc EXCEPT ![t] = to]

\* Deviation: the mutex is not taken.
LockIgnored(t) == mutex' = t
\* pthread_mutex_lock on a default (non-recursive) mutex: a thread that holds
\* the mutex already waits for itself.
Lock(t)   == mutex = NoThread /\ mutex' = t
Unlock(t) == mutex' = NoThread

SetIdx(t, i)     == idx' = [idx EXCEPT ![t] = i]
\* Deviation: the loop over observedSignals stops one early.
LastOffByOne(t)  == idx[t] + 1 = Len(Observed)
Last(t)          == idx[t] = Len(Observed)
Current(t)       == Observed[idx[t]]

\* One round of a loop over observedSignals; the last round leaves for `exit'.
Round(t, exit) ==
    IF Last(t) THEN pc' = [pc EXCEPT ![t] = exit] /\ UNCHANGED idx
               ELSE SetIdx(t, idx[t] + 1) /\ UNCHANGED pc

\* Steps that only move, take the mutex, release it, or load a counter.
Move(t, from, to)    == Goto(t, from, to) /\ UNCHANGED <<reg, idx, count, mutex, world>>
Acquire(t, from, to) == Goto(t, from, to) /\ Lock(t) /\ UNCHANGED <<reg, idx, count, world>>
Release(t, from, to) == Goto(t, from, to) /\ Unlock(t) /\ UNCHANGED <<reg, idx, count, world>>
LoadStep(t, from, to, counter) ==
    /\ Goto(t, from, to)
    /\ reg' = [reg EXCEPT ![t] = counter]
    /\ UNCHANGED <<idx, count, mutex, world>>

\* No installation, and no initialize or shutdown, is under way.
InstallersQuiet == \A k \in Installers : pc[k] \in {"none", "end"}
LifecycleQuiet  == InstallersQuiet /\ \A c \in Callers : pc[c] = "idle"

-----------------------------------------------------------------------------
(* signal_handler_initialize                                               *)

\* The call and its pthread_mutex_lock.
InitLock(c) ==
    /\ Settled => LifecycleQuiet
    /\ starts < MaxStarts
    /\ Goto(c, "idle", "initStack")
    /\ Lock(c)
    /\ starts' = starts + 1
    /\ UNCHANGED <<reg, idx, sig, pending, kernel, count, memory, reports,
                   alive, stops, faults, lastCall>>

\* set_sigstack: the previous _stack.ss_sp, if any, is overwritten.
SetSigstack(c) ==
    /\ Goto(c, "initStack", "initSpawn")
    /\ stack' = starts /\ heap' = heap \cup {starts}
    /\ UNCHANGED <<reg, idx, sig, pending, kernel, count, mutex, reports,
                   alive, done>>

\* malloc fails, or sigaltstack fails once the stack is allocated: the early
\* return leaves the mutex locked.
SetSigstackFails(c) ==
    /\ "sigaltstack" \in Failures
    /\ Goto(c, "initStack", "idle")
    /\ \/ stack' = NoStack /\ UNCHANGED heap
       \/ stack' = starts /\ heap' = heap \cup {starts}
    /\ lastCall' = "failed"
    /\ UNCHANGED <<reg, idx, sig, pending, kernel, count, mutex, reports,
                   alive, starts, stops, faults>>

\* block_signal, pthread_create, unblock_signal.
Spawn(c) ==
    /\ At(c, "initSpawn")
    /\ pc' = [pc EXCEPT ![c] = "initUnlock", ![starts] = "load"]
    /\ UNCHANGED <<reg, idx, count, mutex, world>>

SpawnFails(c) == "pthread_create" \in Failures /\ Move(c, "initSpawn", "initUnlock")

InitUnlock(c) ==
    /\ Goto(c, "initUnlock", "idle")
    /\ Unlock(c)
    /\ lastCall' = "started"
    /\ UNCHANGED <<reg, idx, sig, pending, kernel, count, memory, reports,
                   alive, starts, stops, faults>>

-----------------------------------------------------------------------------
(* install_signal_observers, on its own thread                             *)

InitializedLoad(k) == LoadStep(k, "load", "loadStore", initialized)

\* `if (!initialized++)', then pthread_setname_np.
InitializedStore(k) ==
    /\ At(k, "loadStore")
    /\ initialized' = reg[k] + 1
    /\ \/ reg[k] = 0 /\ pc' = [pc EXCEPT ![k] = "install"]
       \/ /\ reg[k] # 0 \/ "setname" \in Failures
          /\ pc' = [pc EXCEPT ![k] = "end"]
    /\ SetIdx(k, 1)
    /\ UNCHANGED <<reg, intercepting, mutex, world>>

\* Deviation: sa_previous is not passed to sigaction.
InstallWithoutSaving(k) ==
    /\ At(k, "install")
    /\ Round(k, "reset")
    /\ disposition' = [disposition EXCEPT ![Current(k)] = "agent"]
    /\ UNCHANGED <<saved, reg, sig, pending, count, mutex, memory, reports,
                   alive, done>>

\* install_handler for one signal; sigaction swaps the disposition and saves
\* the one it replaces.  A failure is logged and the loop goes on.
InstallHandler(k) ==
    /\ At(k, "install")
    /\ Round(k, "reset")
    /\ \/ /\ saved' = [saved EXCEPT ![Current(k)] = disposition[Current(k)]]
          /\ disposition' = [disposition EXCEPT ![Current(k)] = "agent"]
       \/ "sigaction" \in Failures /\ UNCHANGED kernel
    /\ UNCHANGED <<reg, sig, pending, count, mutex, memory, reports, alive,
                   done>>

ResetIntercepting(k) ==
    /\ Goto(k, "reset", "end")
    /\ intercepting' = 0
    /\ UNCHANGED <<reg, idx, initialized, mutex, world>>

-----------------------------------------------------------------------------
(* uninstall_handler, shared by the shutdown and the interceptor           *)

\* Deviation: the shutdown goes on as if it were the interceptor.
AfterUninstallAlwaysLock(t) == "lock"
AfterUninstall(t) == IF t \in Callers THEN "dealloc" ELSE "lock"

\* Deviation: `initialized > 1'.
UninstallCheckOffByOne(t) ==
    /\ Goto(t, "check", IF initialized > 1 THEN "restore"
                                           ELSE AfterUninstall(t))
    /\ SetIdx(t, 1)
    /\ UNCHANGED <<reg, count, mutex, world>>

\* Deviation: wait until there is something to uninstall.
UninstallCheckSpins(t) ==
    /\ Goto(t, "check", IF initialized > 0 THEN "restore" ELSE "check")
    /\ SetIdx(t, 1)
    /\ UNCHANGED <<reg, count, mutex, world>>

UninstallCheck(t) ==
    /\ Goto(t, "check", IF initialized > 0 THEN "restore"
                                           ELSE AfterUninstall(t))
    /\ SetIdx(t, 1)
    /\ UNCHANGED <<reg, count, mutex, world>>

\* sigaction(signo, &sa_previous, nullptr), one signal per step.
UninstallRestore(t) ==
    /\ At(t, "restore")
    /\ disposition' = [disposition EXCEPT ![Current(t)] = saved[Current(t)]]
    /\ Round(t, "dec")
    /\ UNCHANGED <<reg, sig, pending, saved, count, mutex, memory, reports,
                   alive, done>>

UninstallLoad(t) == LoadStep(t, "dec", "decStore", initialized)

UninstallStore(t) ==
    /\ Goto(t, "decStore", AfterUninstall(t))
    /\ initialized' = reg[t] - 1
    /\ UNCHANGED <<reg, idx, intercepting, mutex, world>>

-----------------------------------------------------------------------------
(* signal_handler_shutdown                                                 *)

StopCall(c) ==
    /\ Settled => LifecycleQuiet
    /\ stops < MaxStops
    /\ Goto(c, "idle", "stopLock")
    /\ stops' = stops + 1
    /\ UNCHANGED <<reg, idx, sig, pending, kernel, count, mutex, memory,
                   reports, alive, starts, faults, lastCall>>

StopLock(c) == Acquire(c, "stopLock", "check")

\* Deviation: the stack is forgotten, not freed.
DeallocLeaks(c) ==
    /\ Goto(c, "dealloc", "stopUnlock")
    /\ stack' = NoStack /\ UNCHANGED heap
    /\ UNCHANGED <<reg, idx, sig, pending, kernel, count, mutex, reports,
                   alive, done>>

\* Deviation: ss_sp is not reset after the free.
DeallocKeepsPointer(c) ==
    /\ Goto(c, "dealloc", "stopUnlock")
    /\ heap' = heap \ {stack} /\ UNCHANGED stack
    /\ UNCHANGED <<reg, idx, sig, pending, kernel, count, mutex, reports,
                   alive, done>>

Dealloc(c) ==
    /\ Goto(c, "dealloc", "stopUnlock")
    /\ heap' = heap \ {stack} /\ stack' = NoStack
    /\ UNCHANGED <<reg, idx, sig, pending, kernel, count, mutex, reports,
                   alive, done>>

StopUnlock(c) ==
    /\ Goto(c, "stopUnlock", "idle")
    /\ Unlock(c)
    /\ lastCall' = "stopped"
    /\ UNCHANGED <<reg, idx, sig, pending, kernel, count, memory, reports,
                   alive, starts, stops, faults>>

-----------------------------------------------------------------------------
(* A signal reaches a thread, and the interceptor                          *)

\* The kernel applies its table.  An application's handler may end the process
\* or let the thread go on; a hardware fault kills the process even when the
\* signal is ignored, a raised signal that is ignored is dropped.
Deliver(t, s) ==
    /\ \/ /\ disposition[s] = "agent" /\ faults < MaxFaults
          /\ pc' = [pc EXCEPT ![t] = "enter"] /\ faults' = faults + 1
          /\ UNCHANGED alive
       \/ /\ disposition[s] # "agent"
          /\ alive' = FALSE /\ UNCHANGED <<pc, faults>>
       \/ /\ \/ disposition[s] = "handler"
             \/ disposition[s] = "ignore" /\ t \in pending
          /\ UNCHANGED <<pc, faults, alive>>
    /\ sig' = [sig EXCEPT ![t] = s]
    /\ pending' = pending \ {t}
    /\ UNCHANGED <<reg, idx, kernel, count, mutex, memory, reports, starts,
                   stops, lastCall>>

\* Application code faults.
Fault(t) ==
    /\ Settled => InstallersQuiet
    /\ At(t, "app") /\ t \notin pending
    /\ \E s \in Signals : Deliver(t, s)

\* A signal raised inside the handler is blocked until the handler returns.
DeliverPending(t) ==
    /\ At(t, "app") /\ t \in pending
    /\ Deliver(t, sig[t])

InterceptingLoad(t) == LoadStep(t, "enter", "enterStore", intercepting)

\* Where the interceptor returns to: the interrupted code, or, when sa_previous
\* is the interceptor itself, the chained call that still holds the mutex.
ReturnPoint(t) == IF mutex = t THEN "unlock" ELSE "app"

\* Deviation: uninstall before the report is collected, and never collect it.
InterceptingStoreUninstalls(t) ==
    /\ Goto(t, "enterStore", IF reg[t] = 0 THEN "check" ELSE ReturnPoint(t))
    /\ intercepting' = reg[t] + 1
    /\ UNCHANGED <<reg, idx, initialized, mutex, world>>

\* `if (!intercepting++)': a later entrant returns and leaves the count raised.
InterceptingStore(t) ==
    /\ Goto(t, "enterStore", IF reg[t] = 0 THEN "collect" ELSE ReturnPoint(t))
    /\ intercepting' = reg[t] + 1
    /\ UNCHANGED <<reg, idx, initialized, mutex, world>>

\* collect_backtrace returns false when the report does not fit the buffer.
CollectBacktrace(t) ==
    \/ Move(t, "collect", "store")
    \/ "backtrace" \in Failures /\ Move(t, "collect", "check")

\* Deviation: chain without uninstalling.
StoreReportThenChain(t) ==
    /\ Goto(t, "store", "lock")
    /\ reports' = reports + 1
    /\ UNCHANGED <<reg, idx, sig, pending, kernel, count, mutex, memory,
                   alive, done>>

\* serializer::from_crash
StoreReport(t) ==
    /\ Goto(t, "store", "check")
    /\ reports' = reports + 1
    /\ UNCHANGED <<reg, idx, sig, pending, kernel, count, mutex, memory,
                   alive, done>>

ChainLock(t) == Acquire(t, "lock", "chain")

\* invoke_previous_sigaction and invoke_sigaction, with the mutex held: call a
\* handler (which may not return), or raise() for SIG_DFL, or do nothing.
Chain(t) ==
    /\ At(t, "chain")
    /\ \/ saved[sig[t]] = "agent" /\ pc' = [pc EXCEPT ![t] = "enter"]
                                  /\ UNCHANGED <<pending, alive>>
       \/ saved[sig[t]] = "handler" /\ alive' = FALSE
                                    /\ UNCHANGED <<pc, pending>>
       \/ /\ saved[sig[t]] # "agent"
          /\ pc' = [pc EXCEPT ![t] = "unlock"]
          /\ pending' = IF saved[sig[t]] = "default" THEN pending \cup {t}
                                                     ELSE pending
          /\ UNCHANGED alive
    /\ UNCHANGED <<reg, idx, sig, kernel, count, mutex, memory, reports, done>>

ChainUnlock(t) == Release(t, "unlock", "leave")

LeaveLoad(t) == LoadStep(t, "leave", "leaveStore", intercepting)

LeaveStore(t) ==
    /\ Goto(t, "leaveStore", "app")
    /\ intercepting' = reg[t] - 1
    /\ UNCHANGED <<reg, idx, initialized, mutex, world>>

-----------------------------------------------------------------------------
Uninstall(t) == \/ UninstallCheck(t) \/ UninstallRestore(t)
                \/ UninstallLoad(t)  \/ UninstallStore(t)

CallerStep(c) ==
    \/ SetSigstack(c) \/ SetSigstackFails(c) \/ Spawn(c) \/ SpawnFails(c)
    \/ InitUnlock(c) \/ StopLock(c) \/ Uninstall(c) \/ Dealloc(c)
    \/ StopUnlock(c)

InstallerStep(k) == \/ InitializedLoad(k) \/ InitializedStore(k)
                    \/ InstallHandler(k)  \/ ResetIntercepting(k)

InterceptorStep(t) ==
    \/ InterceptingLoad(t) \/ InterceptingStore(t) \/ CollectBacktrace(t)
    \/ StoreReport(t) \/ Uninstall(t) \/ ChainLock(t) \/ Chain(t)
    \/ ChainUnlock(t) \/ LeaveLoad(t) \/ LeaveStore(t) \/ DeliverPending(t)

\* The process is dead, or every thread is out of the agent's code and the
\* bounds leave the environment nothing to do.
AtRest == \A t \in Threads : pc[t] \in {"idle", "none", "end", "app"}
Rest == /\ ~alive \/ (AtRest /\ starts = MaxStarts /\ stops = MaxStops
                                /\ faults = MaxFaults)
        /\ UNCHANGED vars

Next == \/ \E c \in Callers : InitLock(c) \/ StopCall(c)
        \/ \E t \in Faulters : Fault(t)
        \/ \E c \in Callers : CallerStep(c)
        \/ \E k \in Installers : InstallerStep(k)
        \/ \E t \in Faulters : InterceptorStep(t)
        \/ Rest

Spec == Init /\ [][Next]_vars

\* The kernel runs every thread that can run; nothing makes the application
\* start, stop or fault.
FairSpec ==
    /\ Spec
    /\ \A c \in Callers : WF_vars(CallerStep(c))
    /\ \A k \in Installers : WF_vars(InstallerStep(k))
    /\ \A t \in Faulters : WF_vars(InterceptorStep(t))

-----------------------------------------------------------------------------
(* Properties                                                              *)

InUninstall(t) == pc[t] \in UninstallPCs

\* The steps a thread takes with the module-wide mutex held.
Critical(t) ==
    \/ pc[t] \in {"initStack", "initSpawn", "initUnlock", "dealloc",
                  "stopUnlock", "chain", "unlock"}
    \/ t \in Callers /\ InUninstall(t)

\* No two threads are inside initialize, shutdown or a chained handler at once:
\* the mutex of signal-handler.cpp:38 covers them, also across the early
\* return of a failed set_sigstack and a recursive call of the interceptor.
ChainExclusive ==
    \A t, u \in Threads : Critical(t) /\ Critical(u) => t = u

\* The handler the interceptor chains to (signal-handler.cpp:84, "chain to
\* previous signo handler for abend") is the one the application had before
\* the agent started, whoever else is uninstalling or crashing meanwhile.
ChainsToOriginal ==
    \A t \in Faulters : pc[t] = "chain" => saved[sig[t]] = Original[sig[t]]

\* "Uninstall the custom handler prior to calling the previous sigaction (to
\* prevent recursion)" (signal-handler.cpp:81): while a previous handler runs,
\* no observed signal leads to the interceptor.
NoRecursion ==
    (\E t \in Faulters : pc[t] = "chain")
        => \A s \in Signals : disposition[s] # "agent"

Installed == \A s \in Signals : disposition[s] = "agent"

\* "Remove all installed signal interceptors" (signal-handler.cpp:125 and 186):
\* after a shutdown, and with every installer thread finished, each signal is
\* back at the application's disposition.
RemovedAfterShutdown ==
    lastCall = "stopped" /\ LifecycleQuiet
        => \A s \in Signals : disposition[s] = Original[s]

\* "Install observed signal handlers" (signal-handler.cpp:94): an initialize
\* that returned true, with its installer finished and no signal intercepted,
\* leaves the interceptor installed for every observed signal.
InstalledAfterInitialize ==
    lastCall = "started" /\ LifecycleQuiet /\ faults = 0
        => Installed

\* "... clean up all alloc'd memory" (signal-handler.cpp:186): no signal stack
\* outlives a shutdown.
StacksFreed == lastCall = "stopped" /\ LifecycleQuiet => heap = {}

\* _stack.ss_sp never points to a freed stack, so dealloc frees no stack twice,
\* whatever fails and however initialize and shutdown of two threads overlap.
NoDanglingStack == stack # NoStack => stack \in heap

\* Seen from outside, one session is a guard that is armed, and stands until a
\* report is written or a stop is called; the process does not die under it.
GuardState ==
    IF Installed THEN "armed"
    ELSE IF \E k \in Installers : pc[k] \in {"load", "loadStore", "install"}
         THEN "arming"
    ELSE IF \E k \in Installers : pc[k] \in {"reset", "end"} THEN "removed"
    ELSE "off"

Guard == INSTANCE CrashGuard WITH guard <- GuardState, stopping <- (stops > 0)

\* One session implements CrashGuard: the observers, once installed for every
\* signal (signal-handler.cpp:94), are removed only after a report is stored
\* (l.77) or a shutdown called (l.188), and no signal kills the process while
\* they are in place, however crashes, stops and chained handlers interleave.
GuardSpec == Guard!Spec

\* A thread that entered the interceptor leaves it, or the process dies: it
\* waits for the mutex at most (signal-handler.cpp:225).
InterceptorReturns ==
    \A t \in Faulters : pc[t] = "enter" ~> (pc[t] = "app" \/ ~alive)

\* signal_handler_shutdown returns (signal-handler.cpp:188-199), whatever
\* crashes meanwhile.
ShutdownReturns ==
    \A c \in Callers : pc[c] = "stopLock" ~> (pc[c] = "idle" \/ ~alive)

=============================================================================
