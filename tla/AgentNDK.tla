------------------------------ MODULE AgentNDK ------------------------------
(***************************************************************************)
(* The Kotlin singleton (AgentNDK.kt): Builder.build stores an instance    *)
(* without a lock, getInstance makes a default one, under a lock, when it  *)
(* finds none.  An instance is its ManagedContext, which never changes.    *)
(***************************************************************************)
EXTENDS Naturals

CONSTANTS
    Threads,     \* the threads that use the agent
    Contexts,    \* the ManagedContexts of the application
    Default,     \* ManagedContext(), the context of an instance by default
    Null

Instances == Contexts \cup {Default}

VARIABLES
    agentNdk,  \* the singleton
    lock,      \* the holder of the companion object's monitor
    mine,      \* the instance each thread was given
    defaults,  \* how many default instances were made
    step       \* where each thread is in build or getInstance

instanceVars == <<agentNdk, lock, mine, defaults, step>>

TypeOK ==
    /\ agentNdk \in Instances \cup {Null}
    /\ lock \in Threads \cup {Null}
    /\ mine \in [Threads -> Instances \cup {Null}]
    /\ defaults \in Nat
    /\ step \in [Threads -> {"out", "read", "lock", "store"}]
    /\ \A t \in Threads : lock = t <=> step[t] = "store"

Init ==
    /\ agentNdk = Null /\ lock = Null
    /\ mine = [t \in Threads |-> Null]
    /\ defaults = 0
    /\ step = [t \in Threads |-> "out"]

Out(t) == step[t] = "out"

Goto(t, from, to) == step[t] = from /\ step' = [step EXCEPT ![t] = to]

\* The last assignments of build, and its call of getInstance.
Build(t, c) ==
    /\ Goto(t, "out", "read")
    /\ agentNdk' = c
    /\ UNCHANGED <<lock, mine, defaults>>

GetInstance(t) == Goto(t, "out", "read") /\ UNCHANGED <<agentNdk, lock, mine, defaults>>

\* The read outside of the lock.
Read(t) ==
    \/ /\ agentNdk # Null
       /\ Goto(t, "read", "out")
       /\ mine' = [mine EXCEPT ![t] = agentNdk]
       /\ UNCHANGED <<agentNdk, lock, defaults>>
    \/ /\ agentNdk = Null
       /\ Goto(t, "read", "lock")
       /\ UNCHANGED <<agentNdk, lock, mine, defaults>>

\* Deviation: no second look.
LockAndStore(t) ==
    /\ lock = Null
    /\ lock' = t /\ Goto(t, "lock", "store") /\ UNCHANGED mine
    /\ UNCHANGED <<agentNdk, defaults>>

\* The read inside of the lock.
Lock(t) ==
    /\ lock = Null
    /\ \/ /\ agentNdk # Null
          /\ Goto(t, "lock", "out")
          /\ mine' = [mine EXCEPT ![t] = agentNdk]
          /\ UNCHANGED lock
       \/ /\ agentNdk = Null
          /\ Goto(t, "lock", "store")
          /\ lock' = t
          /\ UNCHANGED mine
    /\ UNCHANGED <<agentNdk, defaults>>

Store(t) ==
    /\ Goto(t, "store", "out")
    /\ agentNdk' = Default
    /\ defaults' = defaults + 1
    /\ mine' = [mine EXCEPT ![t] = Default]
    /\ lock' = Null

Step(t) == Read(t) \/ Lock(t) \/ Store(t)
=============================================================================
