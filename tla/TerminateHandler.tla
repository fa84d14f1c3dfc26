------------------------- MODULE TerminateHandler -------------------------
(***************************************************************************)
(* The handler of uncaught C++ exceptions (terminate-handler.cpp): what it *)
(* does to the two handlers the C++ runtime keeps, std::terminate's and    *)
(* std::unexpected's.  The library is built as C++14, which has both.      *)
(***************************************************************************)
EXTENDS Naturals

CONSTANTS
    Threads,   \* the threads that may call into this module
    Null       \* no handler, no thread

Slots == {"terminate", "unexpected"}

\* Whose handler is in a slot: the agent's (terminateHandler and
\* unexpectedHandler), the application's, or the runtime's own.
Handlers == {"agent", "application", "runtime"}

VARIABLES
    handler,  \* the C++ runtime's current handlers
    saved,    \* currentHandler and currentUnexpectedHandler
    mutex,    \* the holder of the module-wide mutex
    step      \* where each thread is in this module

terminateVars == <<handler, saved, mutex, step>>

TypeOK ==
    /\ handler \in [Slots -> Handlers]
    /\ saved \in [Slots -> Handlers \cup {Null}]
    /\ mutex \in Threads \cup {Null}
    /\ step \in [Threads -> {"out", "setTerminate", "setUnexpected",
                             "resetTerminate", "resetUnexpected"}]
    /\ \A t \in Threads : mutex = t <=> step[t] # "out"

\* The library is loaded: currentHandler is std::get_terminate().
Init ==
    /\ handler = [s \in Slots |-> "application"]
    /\ saved = [s \in Slots |-> IF s = "terminate" THEN handler[s] ELSE Null]
    /\ mutex = Null
    /\ step = [t \in Threads |-> "out"]

\* Thread t is not inside this module.
Out(t) == step[t] = "out"

Goto(t, from, to) == step[t] = from /\ step' = [step EXCEPT ![t] = to]

Enter(t, to) ==
    /\ mutex = Null /\ mutex' = t
    /\ Goto(t, "out", to)
    /\ UNCHANGED <<handler, saved>>

\* std::set_terminate and std::set_unexpected: null stands for the default.
Runtime(h) == IF h = Null THEN "runtime" ELSE h

\* Deviation: the previous handler is not kept.
SwapForgets(s) ==
    handler' = [handler EXCEPT ![s] = "agent"] /\ UNCHANGED saved

Swap(s) ==
    /\ saved' = [saved EXCEPT ![s] = handler[s]]
    /\ handler' = [handler EXCEPT ![s] = "agent"]

-----------------------------------------------------------------------------
(* terminate_handler_initialize                                            *)

InitializeLock(t) == Enter(t, "setTerminate")

SetTerminate(t) ==
    /\ Goto(t, "setTerminate", "setUnexpected")
    /\ Swap("terminate")
    /\ UNCHANGED mutex

\* Deviation: the mutex is not released.
SetUnexpectedNoUnlock(t) ==
    /\ Goto(t, "setUnexpected", "out")
    /\ Swap("unexpected")
    /\ UNCHANGED mutex

SetUnexpected(t) ==
    /\ Goto(t, "setUnexpected", "out")
    /\ Swap("unexpected")
    /\ mutex' = Null

-----------------------------------------------------------------------------
(* terminate_handler_shutdown                                              *)

ShutdownLock(t) == Enter(t, "resetTerminate")

ResetTerminate(t) ==
    /\ Goto(t, "resetTerminate", "resetUnexpected")
    /\ handler' = [handler EXCEPT !["terminate"] = Runtime(saved["terminate"])]
    /\ saved' = [saved EXCEPT !["terminate"] = Null]
    /\ UNCHANGED mutex

\* currentUnexpectedHandler keeps its value.
ResetUnexpected(t) ==
    /\ Goto(t, "resetUnexpected", "out")
    /\ handler' = [handler EXCEPT !["unexpected"] = Runtime(saved["unexpected"])]
    /\ mutex' = Null
    /\ UNCHANGED saved

Step(t) == \/ SetTerminate(t) \/ SetUnexpected(t)
           \/ ResetTerminate(t) \/ ResetUnexpected(t)

-----------------------------------------------------------------------------
\* How an exception that reached slot s ends.  The agent's handlers fault
\* before they write a report: the type of the current exception is null when
\* there is none, and collect_backtrace reads the siginfo they pass as null.
\* Whatever follows in them is never reached.  Other handlers abort.  Either
\* way the thread raises a signal.
Outcome(s) == IF handler[s] = "agent" THEN "exception" ELSE "abort"
=============================================================================
