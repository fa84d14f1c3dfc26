-------------------------- MODULE MCAgentLifecycle --------------------------
(* Values for model checking AgentLifecycle.                               *)
EXTENDS AgentLifecycle, TLC

CONSTANTS main, other, dir, nowhere

MCContext(d, s, b, a) ==
    [reportsDir |-> d, sessionId |-> s, buildId |-> b, anrMonitor |-> a]

\* Two contexts that are whole, and one without a directory.
MCContexts == {MCContext(dir, "s", "b", TRUE), MCContext(dir, "s", "b", FALSE),
               MCContext(Null, "s", "b", TRUE)}

MCWhole == {MCContext(dir, "s", "b", TRUE)}

\* ManagedContext(): no Android context, hence a directory of nowhere.
MCDefault == MCContext(nowhere, Null, Null, TRUE)

\* The delegate is whole, lacks a method or is missing.
MCNames == {"JVMDelegate", "<init>", "onNativeCrash", "onNativeException",
            "onApplicationNotResponding"}
MCComplete == {MCNames}
MCClasspaths == {MCNames, MCNames \ {"onNativeException"}, MCNames \ {"JVMDelegate"}}

\* The threads are interchangeable.
MCSymmetry == Permutations(Threads)

MCLimit == [k \in Calls |-> IF k \in {"getInstance", "stop"} THEN 2 ELSE 1]
=============================================================================
