--------------------------- MODULE AgentLifecycle ---------------------------
(***************************************************************************)
(* The agent as a whole, for one session: nativeStart, nativeStop and      *)
(* nativeSetContext (agent-ndk.cpp) and AgentNDK.start and stop            *)
(* (AgentNDK.kt), composed of the singleton (AgentNDK), the context        *)
(* (NativeContext), the exception handler (TerminateHandler) and the       *)
(* signal handler as CrashGuard promises it.  Of the ANR handler it says   *)
(* whether it is on, who handles SIGQUIT, and whether its watchdog can be  *)
(* joined; the ANR monitor is on or off.                                   *)
(*                                                                         *)
(* Every thread of the application may use the agent, and may crash or     *)
(* throw.  As in SignalHandler's sessions the agent is started once,       *)
(* starts and stops do not overlap, and signals are taken and the agent is *)
(* stopped only while no installer is pending.                             *)
(***************************************************************************)
EXTENDS Naturals

CONSTANTS
    Threads,     \* the threads of the application
    Contexts,    \* the ManagedContexts it builds agents with
    Default,     \* the ManagedContext of a default instance
    Classpaths,  \* the sets of names the JVM may be able to resolve
    LoadFails,   \* environment: System.loadLibrary may fail
    Failures,    \* environment: the calls of a start that may fail
    Limit,       \* bound: how often each kind of call and crash happens
    Null

Calls     == {"build", "getInstance", "set", "start", "stop", "crash", "ring"}
Instances == Contexts \cup {Default}

ASSUME LifecycleAssumption ==
    /\ Limit \in [Calls -> Nat]
    /\ LoadFails \in BOOLEAN
    /\ Failures \subseteq {"sigaltstack", "pthread_create", "sigaction"}
    /\ Null \notin Threads \cup Instances /\ Null \notin Nat
    /\ Null \notin {"agent", "application", "runtime", "JVMDelegate", "<init>"}
    /\ \A c \in Instances : /\ DOMAIN c = {"reportsDir", "sessionId", "buildId",
                                           "anrMonitor"}
                            /\ c.anrMonitor \in BOOLEAN
    /\ Default.sessionId = Null   \* ManagedContext() names no session

VARIABLES
    guard, reports, stopping, alive,                      \* CrashGuard
    handler, saved, mutex, terminateStep,                 \* TerminateHandler
    path, ids, anrMonitorEnabled,                         \* NativeContext
    initialized, delegate, methods, refs,
    found, loaded, arg, contextStep,
    agentNdk, lock, mine, defaults, instanceStep,         \* AgentNDK
    pc,       \* where each thread is in start, stop or a crash
    cause,    \* why each thread crashed
    signals,  \* how signal_handler_initialize left its mutex
    anr,      \* the native ANR handler: off, on, or on with a watchdog that
              \* waits on a semaphore no post reaches
    sigquit,  \* SIGQUIT is handled by anr_interceptor
    ringing,  \* an anr_interceptor is writing a report
    monitor,  \* the ANR monitor is on
    filed,    \* the reports written: of what, where to, with which ids
    last,     \* the call of start or stop that returned last
    calls     \* how often each bounded call was made

Guard     == INSTANCE CrashGuard
Exception == INSTANCE TerminateHandler WITH step <- terminateStep
Context   == INSTANCE NativeContext WITH step <- contextStep, Managed <- Instances
Agent     == INSTANCE AgentNDK WITH step <- instanceStep

guardVars     == <<guard, reports, stopping, alive>>
exceptionVars == <<handler, saved, mutex, terminateStep>>
contextVars   == <<path, ids, anrMonitorEnabled, initialized, delegate, methods,
                   refs, found, loaded, arg, contextStep>>
instanceVars  == <<agentNdk, lock, mine, defaults, instanceStep>>
anrVars       == <<anr, sigquit, ringing, monitor>>
crashVars     == <<cause, filed>>
vars == <<guardVars, exceptionVars, contextVars, instanceVars, anrVars,
          crashVars, signals, pc, last, calls>>

Starting == {"bind", "signals", "anr", "terminate", "started"}
Stopping == {"signalsOff", "anrOff", "joining", "terminateOff", "stopped"}
Crashing == {"fault", "intercepted", "reported", "chained"}

LocalTypeOK ==
    /\ guard \in {"off", "arming", "armed", "removed"} /\ reports \in Nat
    /\ stopping \in BOOLEAN /\ alive \in BOOLEAN
    /\ signals \in {"none", "returned", "locked"}
    /\ anr \in {"off", "on", "stranded"} /\ sigquit \in BOOLEAN
    /\ ringing \in BOOLEAN /\ monitor \in BOOLEAN
    /\ last \in {"none", "started", "stopped"}
    /\ pc \in [Threads -> {"idle"} \cup Starting \cup Stopping \cup Crashing]
    /\ cause \in [Threads -> {"none", "crash", "context", "exception", "abort"}]
    /\ calls \in [Calls -> Nat]

TypeOK == Exception!TypeOK /\ Context!TypeOK /\ Agent!TypeOK /\ LocalTypeOK

Init ==
    /\ Guard!Init /\ Exception!Init /\ Context!Init /\ Agent!Init
    /\ pc = [t \in Threads |-> "idle"]
    /\ cause = [t \in Threads |-> "none"]
    /\ signals = "none" /\ last = "none"
    /\ anr = "off" /\ sigquit = FALSE /\ ringing = FALSE /\ monitor = FALSE
    /\ filed = {}
    /\ calls = [k \in Calls |-> 0]

-----------------------------------------------------------------------------
Goto(t, from, to) == alive /\ pc[t] = from /\ pc' = [pc EXCEPT ![t] = to]

\* Thread t runs the application's code.
Idle(t) == pc[t] = "idle" /\ Context!Out(t) /\ Agent!Out(t)

\* Once the library is unloaded there is no agent left to call.
Call(t, k) ==
    /\ alive /\ Idle(t) /\ calls[k] < Limit[k]
    /\ loaded = "unloaded" => k = "crash"
    /\ calls' = [calls EXCEPT ![k] = @ + 1]

\* Nobody is starting or stopping the agent, or installing observers.
Settled ==
    /\ guard # "arming"
    /\ \A t \in Threads : pc[t] \notin Starting \cup Stopping

-----------------------------------------------------------------------------
(* The application gets an agent and sets its context                      *)

\* loadAgent: a failure is logged and counted.
LoadLibrary ==
    \/ Context!OnLoad
    \/ (loaded # "never" \/ LoadFails) /\ UNCHANGED contextVars

\* AgentNDK.Builder(...).build(); the builder loads the library.
Build(t, c) ==
    /\ Call(t, "build")
    /\ Agent!Build(t, c)
    /\ LoadLibrary
    /\ UNCHANGED <<guardVars, exceptionVars, anrVars, crashVars, pc, signals, last>>

GetInstance(t) ==
    /\ Call(t, "getInstance")
    /\ Agent!GetInstance(t)
    /\ UNCHANGED <<guardVars, exceptionVars, contextVars, anrVars, crashVars,
                   pc, signals, last>>

NativeSetContext(t, c) ==
    /\ Call(t, "set")
    /\ Context!SetContext(t, c)
    /\ UNCHANGED <<guardVars, exceptionVars, instanceVars, anrVars, crashVars, pc,
                   signals, last>>

\* The class loader of the agent is collected: nothing refers to the library.
Unload ==
    /\ alive /\ Settled /\ guard \in {"off", "removed"}
    /\ anr = "off" /\ ~sigquit /\ ~ringing
    /\ \A t \in Threads : Idle(t)
    /\ \A s \in Exception!Slots : handler[s] # "agent"
    /\ Context!OnUnload
    /\ UNCHANGED <<guardVars, exceptionVars, instanceVars, anrVars, crashVars,
                   pc, signals, last, calls>>

-----------------------------------------------------------------------------
(* AgentNDK.start and nativeStart                                          *)

\* start() up to the native code, which is missing when the library could not
\* be loaded: then UnsatisfiedLinkError is thrown with the monitor started.
Start(t) ==
    /\ Call(t, "start") /\ mine[t] # Null
    /\ signals = "none" /\ Settled
    /\ monitor' = (monitor \/ mine[t].anrMonitor)
    /\ \/ Context!SetContext(t, mine[t]) /\ pc' = [pc EXCEPT ![t] = "bind"]
       \/ loaded = "never" /\ UNCHANGED <<contextVars, pc>>
    /\ UNCHANGED <<guardVars, exceptionVars, instanceVars, crashVars, anr, sigquit,
                   ringing, signals, last>>

\* Deviation: the context is not waited for.
StartBindEarly(t) ==
    /\ Goto(t, "bind", "signals")
    /\ Context!BindDelegate
    /\ UNCHANGED <<path, ids, anrMonitorEnabled, found, loaded, arg, contextStep>>
    /\ UNCHANGED <<guardVars, exceptionVars, instanceVars, anrVars, crashVars,
                   signals, last, calls>>

\* bind_delegate; a failure is logged.
StartBind(t) ==
    /\ Goto(t, "bind", "signals") /\ Context!Out(t)
    /\ Context!BindDelegate
    /\ UNCHANGED <<path, ids, anrMonitorEnabled, found, loaded, arg, contextStep>>
    /\ UNCHANGED <<guardVars, exceptionVars, instanceVars, anrVars, crashVars,
                   signals, last, calls>>

\* signal_handler_initialize.  Without a signal stack it returns with its mutex
\* locked, without a thread to install the observers as if nothing had happened;
\* nativeStart goes on either way.
StartSignals(t) ==
    /\ Goto(t, "signals", "anr")
    /\ \/ Guard!Arm /\ signals' = "returned"
       \/ "pthread_create" \in Failures /\ signals' = "returned" /\ UNCHANGED guardVars
       \/ "sigaltstack" \in Failures /\ signals' = "locked" /\ UNCHANGED guardVars
    /\ UNCHANGED <<exceptionVars, contextVars, instanceVars, anrVars, crashVars,
                   last, calls>>

\* The thread that signal_handler_initialize created is through.
SignalsArmed ==
    /\ Guard!Armed
    /\ UNCHANGED <<exceptionVars, contextVars, instanceVars, anrVars, crashVars,
                   pc, signals, last, calls>>

\* anr_handler_initialize, if the context says so.  The watchdog may reach the
\* semaphore before it is initialised, and is then stranded.
StartAnr(t) ==
    /\ Goto(t, "anr", "terminate")
    /\ \/ /\ ~anrMonitorEnabled \/ "pthread_create" \in Failures
          /\ UNCHANGED <<anr, sigquit>>
       \/ /\ anrMonitorEnabled
          /\ anr' \in {"on", "stranded"}
          /\ sigquit' = TRUE \/ ("sigaction" \in Failures /\ UNCHANGED sigquit)
    /\ UNCHANGED <<guardVars, exceptionVars, contextVars, instanceVars, ringing,
                   monitor, crashVars, signals, last, calls>>

StartTerminate(t) ==
    /\ Goto(t, "terminate", "started")
    /\ Exception!InitializeLock(t)
    /\ UNCHANGED <<guardVars, contextVars, instanceVars, anrVars, crashVars,
                   signals, last, calls>>

\* A call returns once the exception handler is done.
Return(t) ==
    /\ Exception!Out(t)
    /\ \E call \in {"started", "stopped"} : Goto(t, call, "idle") /\ last' = call
    /\ UNCHANGED <<guardVars, exceptionVars, contextVars, instanceVars, anrVars,
                   crashVars, signals, calls>>

-----------------------------------------------------------------------------
(* AgentNDK.stop and nativeStop                                            *)

Stop(t) ==
    /\ Call(t, "stop") /\ mine[t] # Null
    /\ Settled /\ loaded = "loaded"
    /\ monitor' = (monitor /\ ~mine[t].anrMonitor)
    /\ Guard!Stop
    /\ pc' = [pc EXCEPT ![t] = "signalsOff"]
    /\ UNCHANGED <<exceptionVars, contextVars, instanceVars, crashVars, anr, sigquit,
                   ringing, signals, last>>

\* uninstall_handler, on behalf of a shutdown or of the interceptor.
Uninstall ==
    \/ Guard!Remove
    \/ guard # "armed" /\ UNCHANGED guardVars

\* signal_handler_shutdown waits for the mutex.
StopSignals(t) ==
    /\ Goto(t, "signalsOff", "anrOff") /\ signals # "locked"
    /\ Uninstall
    /\ UNCHANGED <<exceptionVars, contextVars, instanceVars, anrVars, crashVars,
                   signals, last, calls>>

\* anr_handler_shutdown, if the context says so now, up to its join.  SIGQUIT
\* stays with anr_interceptor.
StopAnr(t) ==
    /\ \/ /\ ~anrMonitorEnabled /\ UNCHANGED anr
          /\ Goto(t, "anrOff", "terminateOff")
       \/ /\ anrMonitorEnabled /\ anr' = "off"
          /\ Goto(t, "anrOff", IF anr = "stranded" THEN "joining" ELSE "terminateOff")
    /\ UNCHANGED <<guardVars, exceptionVars, contextVars, instanceVars, sigquit,
                   ringing, monitor, crashVars, signals, last, calls>>

\* A SIGQUIT that the watchdog itself is interrupted by ends its wait.
Joined(t) ==
    /\ Goto(t, "joining", "terminateOff") /\ sigquit
    /\ UNCHANGED <<guardVars, exceptionVars, contextVars, instanceVars, anrVars,
                   crashVars, signals, last, calls>>

StopTerminate(t) ==
    /\ Goto(t, "terminateOff", "stopped")
    /\ Exception!ShutdownLock(t)
    /\ UNCHANGED <<guardVars, contextVars, instanceVars, anrVars, crashVars,
                   signals, last, calls>>

-----------------------------------------------------------------------------
(* ART raises SIGQUIT for an ANR                                           *)

\* anr_interceptor finds itself enabled, on whichever thread it runs.
Ring ==
    /\ alive /\ sigquit /\ anr # "off" /\ ~ringing
    /\ calls["ring"] < Limit["ring"]
    /\ calls' = [calls EXCEPT !["ring"] = @ + 1]
    /\ ringing' = TRUE
    /\ UNCHANGED <<guardVars, exceptionVars, contextVars, instanceVars, anr, sigquit,
                   monitor, crashVars, signals, pc, last>>

\* serializer::from_anr, by when the agent may be stopped.
FileAnr ==
    /\ alive /\ ringing /\ ringing' = FALSE
    /\ filed' = filed \cup {[prefix |-> "anr-", of |-> "anr", dir |-> path,
                             ids |-> ids]}
    /\ UNCHANGED <<guardVars, exceptionVars, contextVars, instanceVars, anr, sigquit,
                   monitor, cause, signals, pc, last, calls>>

-----------------------------------------------------------------------------
(* A thread crashes                                                        *)

Fault(t, why) ==
    /\ pc' = [pc EXCEPT ![t] = "fault"]
    /\ cause' = [cause EXCEPT ![t] = why]
    /\ UNCHANGED <<guardVars, exceptionVars, contextVars, instanceVars, anrVars,
                   filed, signals, last>>

\* The application's code raises a signal, or lets an exception escape.
Crash(t) == Call(t, "crash") /\ Fault(t, "crash")

Throw(t, slot) == Call(t, "crash") /\ Fault(t, Exception!Outcome(slot))

\* set_native_context was given a null string.
ContextFault(t) ==
    /\ alive /\ contextStep[t] = "fault" /\ pc[t] \notin Crashing
    /\ Fault(t, "context")
    /\ UNCHANGED calls

Intercept(t) ==
    /\ guard = "armed"
    /\ Goto(t, "fault", "intercepted")
    /\ UNCHANGED <<guardVars, exceptionVars, contextVars, instanceVars, anrVars,
                   crashVars, signals, last, calls>>

\* The interceptor is busy with another thread: the fault happens again.
TurnedAway(t) ==
    /\ \E u \in Threads \ {t} : pc[u] \in Crashing \ {"fault"}
    /\ Goto(t, "intercepted", "fault")
    /\ UNCHANGED <<guardVars, exceptionVars, contextVars, instanceVars, anrVars,
                   crashVars, signals, last, calls>>

\* serializer::from_crash: from_crash is all that is ever reached.
FileReport(t) ==
    /\ Goto(t, "intercepted", "reported")
    /\ Guard!Report
    /\ filed' = filed \cup {[prefix |-> "crash-", of |-> cause[t],
                             dir |-> path, ids |-> ids]}
    /\ UNCHANGED <<exceptionVars, contextVars, instanceVars, anrVars, cause,
                   signals, last, calls>>

CrashUninstall(t) ==
    /\ Goto(t, "reported", "chained")
    /\ Uninstall
    /\ UNCHANGED <<exceptionVars, contextVars, instanceVars, anrVars, crashVars,
                   signals, last, calls>>

\* A handler of the application may keep the process alive.
Survive(t) ==
    /\ cause[t] = "crash"
    /\ Goto(t, "chained", "idle")
    /\ UNCHANGED <<guardVars, exceptionVars, contextVars, instanceVars, anrVars,
                   crashVars, signals, last, calls>>

Die(t) ==
    /\ pc[t] = "chained" \/ (pc[t] = "fault" /\ guard # "arming")
    /\ Guard!Die
    /\ UNCHANGED <<exceptionVars, contextVars, instanceVars, anrVars, crashVars,
                   pc, signals, last, calls>>

-----------------------------------------------------------------------------
\* What thread t does inside the components.
ExceptionStep(t) ==
    /\ alive /\ Exception!Step(t)
    /\ UNCHANGED <<guardVars, contextVars, instanceVars, anrVars, crashVars, pc,
                   signals, last, calls>>

ContextStep(t) ==
    /\ alive /\ Context!Step(t)
    /\ UNCHANGED <<guardVars, exceptionVars, instanceVars, anrVars, crashVars, pc,
                   signals, last, calls>>

InstanceStep(t) ==
    /\ alive /\ Agent!Step(t)
    /\ UNCHANGED <<guardVars, exceptionVars, contextVars, anrVars, crashVars, pc,
                   signals, last, calls>>

LifecycleStep(t) ==
    \/ StartBind(t) \/ StartSignals(t) \/ StartAnr(t) \/ StartTerminate(t)
    \/ StopSignals(t) \/ StopAnr(t) \/ Joined(t) \/ StopTerminate(t) \/ Return(t)

CrashStep(t) ==
    \/ ContextFault(t) \/ Intercept(t) \/ TurnedAway(t) \/ FileReport(t)
    \/ CrashUninstall(t) \/ Survive(t) \/ Die(t)

Step(t) == \/ ExceptionStep(t) \/ ContextStep(t) \/ InstanceStep(t)
           \/ LifecycleStep(t) \/ CrashStep(t)

CallStep(t) ==
    \/ \E c \in Contexts : Build(t, c) \/ NativeSetContext(t, c)
    \/ GetInstance(t) \/ Start(t) \/ Stop(t) \/ Crash(t)
    \/ \E slot \in {"terminate", "unexpected"} : Throw(t, slot)

\* Thread t waits for the mutex that was left locked, or for a watchdog.
Stuck(t) == pc[t] = "joining" \/ (pc[t] = "signalsOff" /\ signals = "locked")

\* The process is dead, or nothing but the application could go on.
Rest == /\ ~alive \/ \A t \in Threads : Idle(t) \/ Stuck(t)
        /\ UNCHANGED vars

Next ==
    \/ \E t \in Threads : Step(t) \/ CallStep(t)
    \/ SignalsArmed \/ Ring \/ FileAnr \/ Unload \/ Rest

Spec == Init /\ [][Next]_vars

-----------------------------------------------------------------------------
(* Properties                                                              *)

\* Every report of a crash or an ANR is written to the directory the application
\* named, whole, and carries both ids (native-context.cpp:53-75 against
\* serializer.cpp:69 and emitter.cpp), whichever threads set the context
\* meanwhile, as long as the application keeps one directory: the handlers are
\* installed after the context, and copying a path over itself leaves it whole.
ReportHome ==
    \A c \in Contexts :
        (\A d \in Contexts : d.reportsDir \in {c.reportsDir, Null}) =>
            \A r \in filed : /\ r.dir = <<c.reportsDir, c.reportsDir>>
                             /\ \A f \in Context!Ids : r.ids[f] # Null

\* Once a stop has returned (agent-ndk.cpp:93-100) no observer of the agent is
\* left and none of its exception handlers, whichever parts of the start failed
\* and however many stops there were, before the start too; and after a start and
\* one stop the application's own exception handlers are back.
StopRestores ==
    last = "stopped" /\ Settled =>
        /\ guard # "armed"
        /\ \A s \in Exception!Slots :
               /\ handler[s] # "agent"
               /\ signals # "none" /\ calls["stop"] = 1 => handler[s] = "application"

\* getInstance makes one default instance at most (AgentNDK.kt:79-81), however
\* many threads ask for it first.
OneDefault == defaults <= 1

\* "During startup, the native agent installs ... a C++ unhandled exception
\* handler" and "will report three types of native events: ... Unhandled
\* exceptions" (README.md:9 and 17-20): what the agent's exception handlers were
\* called for is reported as an exception.
ExceptionReported ==
    \A r \in filed : r.of = "exception" => r.prefix = "ex-"

=============================================================================
