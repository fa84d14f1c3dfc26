---------------------------- MODULE CrashGuard ----------------------------
(***************************************************************************)
(* What the signal handler promises the rest of the agent and the          *)
(* application for one session.  Once armed the guard stands until a       *)
(* report is written or the agent is stopped, and the process does not die *)
(* under it.  SignalHandler implements this; AgentLifecycle builds on it.  *)
(***************************************************************************)
EXTENDS Naturals

VARIABLES
    guard,     \* "off", "arming", "armed" or "removed"
    reports,   \* the number of crash reports written
    stopping,  \* a stop was called
    alive      \* the process has not been killed

guardVars == <<guard, reports, stopping, alive>>

Init == guard = "off" /\ reports = 0 /\ stopping = FALSE /\ alive = TRUE

\* The observers are about to be installed, on a thread of their own.
Arm ==
    /\ alive /\ guard = "off" /\ guard' = "arming"
    /\ UNCHANGED <<reports, stopping, alive>>

\* The last observer is in place.
Armed ==
    /\ alive /\ guard = "arming" /\ guard' = "armed"
    /\ UNCHANGED <<reports, stopping, alive>>

\* A signal that was intercepted is reported, if late: others may be removing
\* the observers meanwhile.
Report ==
    /\ alive /\ guard \in {"armed", "removed"}
    /\ reports' = reports + 1
    /\ UNCHANGED <<guard, stopping, alive>>

Stop == alive /\ stopping' = TRUE /\ UNCHANGED <<guard, reports, alive>>

\* The first observer is removed.
Remove ==
    /\ alive /\ guard = "armed" /\ guard' = "removed"
    /\ stopping \/ reports > 0
    /\ UNCHANGED <<reports, stopping, alive>>

Die ==
    /\ alive /\ guard # "armed"
    /\ alive' = FALSE
    /\ UNCHANGED <<guard, reports, stopping>>

Next == Arm \/ Armed \/ Report \/ Stop \/ Remove \/ Die

Spec == Init /\ [][Next]_guardVars
=============================================================================
