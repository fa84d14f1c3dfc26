------------------------ MODULE SignalHandlerProofs ------------------------
(***************************************************************************)
(* Theorems about SignalHandler, for every number of threads, signals,     *)
(* starts, stops and faults.                                               *)
(***************************************************************************)
EXTENDS SignalHandler, TLAPS

\* The observed array is not empty and an index into it names a signal.
LEMMA ObservedSignals ==
    /\ Len(Observed) \in Nat \ {0}
    /\ \A i \in 1..Len(Observed) : Observed[i] \in Signals
<1>1. Observed \in Seq(Signals) /\ Observed # <<>>
  BY SignalsAssumption
<1>2. DOMAIN Observed = 1..Len(Observed) /\ Len(Observed) \in Nat
  BY <1>1
<1>3. Len(Observed) # 0
  BY <1>1
<1>4. \A i \in 1..Len(Observed) : Observed[i] \in Signals
  BY <1>2 DEF Signals
<1> QED
  BY <1>2, <1>3, <1>4

\* Each signal is observed at one index.
LEMMA ObservedIndex ==
    /\ DOMAIN Observed = 1..Len(Observed)
    /\ \A s \in Signals : \E i \in 1..Len(Observed) : s = Observed[i]
    /\ \A i, j \in 1..Len(Observed) : Observed[i] = Observed[j] => i = j
<1>1. Observed \in Seq(Signals)
  BY SignalsAssumption
<1>2. DOMAIN Observed = 1..Len(Observed)
  BY <1>1
<1> QED
  BY <1>2, SignalsAssumption DEF Signals

\* An initialize under way has been counted.
StartCounted == \A c \in Callers : pc[c] \in {"initStack", "initSpawn"} => starts \in Installers

TypeInv == TypeOK /\ StartCounted

\* A delivery keeps the types: the table decides where the thread goes.
LEMMA DeliverType ==
    ASSUME TypeInv, NEW t \in Faulters, NEW s \in Signals, pc[t] = "app",
           Deliver(t, s)
    PROVE  TypeInv'
<1> USE BoundsAssumption, ThreadsAssumption DEF TypeInv, TypeOK, Deliver
<1>1. pc' = pc \/ pc' = [pc EXCEPT ![t] = "enter"]
  OBVIOUS
<1>2. PcTypeOK'
  BY <1>1 DEF PcTypeOK, Threads, Installers, CallerPCs, UninstallPCs,
              InstallerPCs, FaulterPCs
<1>3. faults' \in 0..MaxFaults /\ alive' \in BOOLEAN
  <2>1. \/ faults' = faults
        \/ faults < MaxFaults /\ faults' = faults + 1
    OBVIOUS
  <2>2. alive' = alive \/ alive' = FALSE
    OBVIOUS
  <2> QED
    <3>1. faults \in 0..MaxFaults /\ alive \in BOOLEAN
      BY DEF DataTypeOK
    <3>2. faults' \in 0..MaxFaults
      BY ONLY <3>1, <2>1, BoundsAssumption
    <3>3. alive' \in BOOLEAN
      BY ONLY <3>1, <2>2
    <3> QED
      BY <3>2, <3>3
<1>4. sig' \in [Faulters -> Signals] /\ pending' \subseteq Faulters
  BY DEF DataTypeOK
<1>5. DataTypeOK'
  BY <1>3, <1>4 DEF DataTypeOK, kernel, count, memory
<1>6. StartCounted'
  BY <1>1 DEF PcTypeOK, StartCounted, Threads
<1> QED
  BY <1>2, <1>5, <1>6

\* Every reachable state is well typed, and an initialize that is about to
\* create its installer is the one that was counted last: the thread that
\* pthread_create starts (signal-handler.cpp:162) is one nobody else runs.
THEOREM TypeInvariant == Spec => []TypeInv
<1>1. Init => TypeInv
  BY BoundsAssumption, ThreadsAssumption, SignalsAssumption, ObservedSignals
  DEF Init, TypeInv, TypeOK, PcTypeOK, DataTypeOK, StartCounted, Threads, Installers, NoThread, NoStack,
      CallerPCs, UninstallPCs, InstallerPCs, FaulterPCs, Dispositions
<1>2. ASSUME TypeInv, [Next]_vars PROVE TypeInv'
  <2> USE <1>2, ObservedSignals, BoundsAssumption, ThreadsAssumption
     DEF TypeInv, TypeOK, At, Goto, count, kernel, memory, done, world
  <2>1. ASSUME NEW c \in Callers, InitLock(c) PROVE TypeInv'
    <3>1. PcTypeOK'
      BY <2>1 DEF InitLock, Lock,
         PcTypeOK, Threads, Installers,
         CallerPCs, UninstallPCs, InstallerPCs, FaulterPCs
    <3>2. DataTypeOK'
      BY <2>1 DEF InitLock, Lock, DataTypeOK, StartCounted, Threads, Installers, Dispositions
    <3>3. StartCounted'
      BY <2>1 DEF InitLock, Lock, DataTypeOK, PcTypeOK, StartCounted, Threads, Installers
    <3> QED
      BY <3>1, <3>2, <3>3
  <2>2. ASSUME NEW c \in Callers, StopCall(c) PROVE TypeInv'
    BY <2>2 DEF StopCall, DataTypeOK, StartCounted, Dispositions, NoThread,
         PcTypeOK, Threads, Installers,
         CallerPCs, UninstallPCs, InstallerPCs, FaulterPCs
  <2>3. ASSUME NEW c \in Callers, SetSigstack(c) PROVE TypeInv'
    BY <2>3 DEF SetSigstack, NoStack, DataTypeOK, StartCounted, Dispositions, NoThread,
         PcTypeOK, Threads, Installers,
         CallerPCs, UninstallPCs, InstallerPCs, FaulterPCs
  <2>4. ASSUME NEW c \in Callers, SetSigstackFails(c) PROVE TypeInv'
    <3>1. PcTypeOK'
      BY <2>4 DEF SetSigstackFails, NoStack,
         PcTypeOK, Threads, Installers,
         CallerPCs, UninstallPCs, InstallerPCs, FaulterPCs
    <3>2. DataTypeOK'
      <4>1. starts \in 1..MaxStarts
        BY <2>4 DEF SetSigstackFails, StartCounted, Installers
      <4>2. stack \in 0..MaxStarts /\ heap \subseteq 1..MaxStarts
        BY DEF DataTypeOK
      <4>3. CASE stack' = NoStack /\ UNCHANGED heap
        BY <2>4, <4>2, <4>3 DEF SetSigstackFails, DataTypeOK, NoStack
      <4>4. CASE stack' = starts /\ heap' = heap \cup {starts}
        BY <2>4, <4>1, <4>2, <4>4 DEF SetSigstackFails, DataTypeOK
      <4> QED
        BY <2>4, <4>3, <4>4 DEF SetSigstackFails
    <3>3. StartCounted'
      BY <2>4 DEF SetSigstackFails, NoStack, DataTypeOK, PcTypeOK, StartCounted, Threads, Installers
    <3> QED
      BY <3>1, <3>2, <3>3
  <2>5. ASSUME NEW c \in Callers, Spawn(c) PROVE TypeInv'
    <3>1. PcTypeOK'
      <4>1. starts \in Installers /\ starts \notin Callers \cup Faulters
        BY <2>5 DEF Spawn, StartCounted, Installers
      <4>2. pc' = [pc EXCEPT ![c] = "initUnlock", ![starts] = "load"]
        BY <2>5 DEF Spawn
      <4>3. pc' \in [Threads -> CallerPCs \cup UninstallPCs
                                \cup InstallerPCs \cup FaulterPCs]
        BY <4>2 DEF PcTypeOK, CallerPCs, InstallerPCs
      <4> QED
        BY <4>1, <4>2, <4>3 DEF PcTypeOK, Threads, Installers, CallerPCs, InstallerPCs
    <3>2. DataTypeOK'
      BY <2>5 DEF Spawn, DataTypeOK, StartCounted, Threads, Installers, Dispositions
    <3>3. StartCounted'
      BY <2>5 DEF Spawn, DataTypeOK, PcTypeOK, StartCounted, Threads, Installers
    <3> QED
      BY <3>1, <3>2, <3>3
  <2>6. ASSUME NEW c \in Callers, SpawnFails(c) PROVE TypeInv'
    BY <2>6 DEF SpawnFails, Move, DataTypeOK, StartCounted, Dispositions, NoThread,
         PcTypeOK, Threads, Installers,
         CallerPCs, UninstallPCs, InstallerPCs, FaulterPCs
  <2>7. ASSUME NEW c \in Callers, InitUnlock(c) PROVE TypeInv'
    BY <2>7 DEF InitUnlock, Unlock, DataTypeOK, StartCounted, Dispositions, NoThread,
         PcTypeOK, Threads, Installers,
         CallerPCs, UninstallPCs, InstallerPCs, FaulterPCs
  <2>8. ASSUME NEW c \in Callers, StopLock(c) PROVE TypeInv'
    BY <2>8 DEF StopLock, Acquire, Lock, DataTypeOK, StartCounted, Dispositions, NoThread,
         PcTypeOK, Threads, Installers,
         CallerPCs, UninstallPCs, InstallerPCs, FaulterPCs
  <2>9. ASSUME NEW c \in Callers, Dealloc(c) PROVE TypeInv'
    <3>1. PcTypeOK'
      BY <2>9 DEF Dealloc, NoStack,
         PcTypeOK, Threads, Installers,
         CallerPCs, UninstallPCs, InstallerPCs, FaulterPCs
    <3>2. DataTypeOK'
      BY <2>9 DEF Dealloc, NoStack, DataTypeOK, StartCounted, Threads, Installers, Dispositions
    <3>3. StartCounted'
      BY <2>9 DEF Dealloc, NoStack, DataTypeOK, PcTypeOK, StartCounted, Threads, Installers
    <3> QED
      BY <3>1, <3>2, <3>3
  <2>10. ASSUME NEW c \in Callers, StopUnlock(c) PROVE TypeInv'
    BY <2>10 DEF StopUnlock, Unlock, DataTypeOK, StartCounted, Dispositions, NoThread,
         PcTypeOK, Threads, Installers,
         CallerPCs, UninstallPCs, InstallerPCs, FaulterPCs
  <2>11. ASSUME NEW t \in Callers \cup Faulters, UninstallCheck(t) PROVE TypeInv'
    BY <2>11 DEF UninstallCheck, AfterUninstall, SetIdx, DataTypeOK, StartCounted, Dispositions, NoThread,
         PcTypeOK, Threads, Installers,
         CallerPCs, UninstallPCs, InstallerPCs, FaulterPCs
  <2>12. ASSUME NEW t \in Callers \cup Faulters, UninstallRestore(t) PROVE TypeInv'
    <3>0. t \in Threads /\ idx[t] \in 1..Len(Observed) /\ Observed[idx[t]] \in Signals
      BY <2>12 DEF DataTypeOK, Threads
    <3>1. PcTypeOK'
      BY <2>12 DEF UninstallRestore, Round, PcTypeOK, Threads, Installers,
         CallerPCs, UninstallPCs, InstallerPCs, FaulterPCs
    <3>2. idx' \in [Threads -> 1..Len(Observed)]
      BY <2>12, <3>0 DEF UninstallRestore, Current, Round, Last, SetIdx, DataTypeOK
    <3>3. disposition' \in [Signals -> Dispositions] /\ saved' \in [Signals -> Dispositions]
      BY <2>12, <3>0 DEF UninstallRestore, Current, DataTypeOK, Dispositions
    <3>4. DataTypeOK'
      BY <2>12, <3>2, <3>3 DEF UninstallRestore, DataTypeOK
    <3>5. StartCounted'
      BY <2>12 DEF UninstallRestore, Round, DataTypeOK, PcTypeOK, StartCounted, Threads, Installers
    <3> QED
      BY <3>1, <3>4, <3>5
  <2>13. ASSUME NEW t \in Callers \cup Faulters, UninstallLoad(t) PROVE TypeInv'
    BY <2>13 DEF UninstallLoad, LoadStep, DataTypeOK, StartCounted, Dispositions, NoThread,
         PcTypeOK, Threads, Installers,
         CallerPCs, UninstallPCs, InstallerPCs, FaulterPCs
  <2>14. ASSUME NEW t \in Callers \cup Faulters, UninstallStore(t) PROVE TypeInv'
    BY <2>14 DEF UninstallStore, AfterUninstall, DataTypeOK, StartCounted, Dispositions, NoThread,
         PcTypeOK, Threads, Installers,
         CallerPCs, UninstallPCs, InstallerPCs, FaulterPCs
  <2>15. ASSUME NEW k \in Installers, InitializedLoad(k) PROVE TypeInv'
    BY <2>15 DEF InitializedLoad, LoadStep, DataTypeOK, StartCounted, Dispositions, NoThread,
         PcTypeOK, Threads, Installers,
         CallerPCs, UninstallPCs, InstallerPCs, FaulterPCs
  <2>16. ASSUME NEW k \in Installers, InitializedStore(k) PROVE TypeInv'
    <3>1. PcTypeOK'
      BY <2>16 DEF InitializedStore, SetIdx,
         PcTypeOK, Threads, Installers,
         CallerPCs, UninstallPCs, InstallerPCs, FaulterPCs
    <3>2. DataTypeOK'
      BY <2>16 DEF InitializedStore, SetIdx, DataTypeOK, StartCounted, Threads, Installers, Dispositions
    <3>3. StartCounted'
      BY <2>16 DEF InitializedStore, SetIdx, DataTypeOK, PcTypeOK, StartCounted, Threads, Installers
    <3> QED
      BY <3>1, <3>2, <3>3
  <2>17. ASSUME NEW k \in Installers, InstallHandler(k) PROVE TypeInv'
    <3>0. k \in Threads /\ idx[k] \in 1..Len(Observed) /\ Observed[idx[k]] \in Signals
      BY <2>17 DEF DataTypeOK, Threads
    <3>1. PcTypeOK'
      BY <2>17 DEF InstallHandler, Round, PcTypeOK, Threads, Installers,
         CallerPCs, UninstallPCs, InstallerPCs, FaulterPCs
    <3>2. idx' \in [Threads -> 1..Len(Observed)]
      <4>1. \/ idx' = idx
            \/ idx[k] # Len(Observed) /\ idx' = [idx EXCEPT ![k] = idx[k] + 1]
        BY <2>17 DEF InstallHandler, Round, Last, SetIdx
      <4> QED
        BY <3>0, <4>1 DEF DataTypeOK
    <3>3. disposition' \in [Signals -> Dispositions] /\ saved' \in [Signals -> Dispositions]
      BY <2>17, <3>0 DEF InstallHandler, Current, DataTypeOK, Dispositions
    <3>4. DataTypeOK'
      BY <2>17, <3>2, <3>3 DEF InstallHandler, DataTypeOK
    <3>5. StartCounted'
      BY <2>17 DEF InstallHandler, Round, DataTypeOK, PcTypeOK, StartCounted, Threads, Installers
    <3> QED
      BY <3>1, <3>4, <3>5
  <2>18. ASSUME NEW k \in Installers, ResetIntercepting(k) PROVE TypeInv'
    BY <2>18 DEF ResetIntercepting, DataTypeOK, StartCounted, Dispositions, NoThread,
         PcTypeOK, Threads, Installers,
         CallerPCs, UninstallPCs, InstallerPCs, FaulterPCs
  <2>19. ASSUME NEW t \in Faulters, Fault(t) PROVE TypeInv'
    <3>0. PICK s \in Signals : Deliver(t, s)
      BY <2>19 DEF Fault
    <3> QED
      BY <2>19, <3>0, DeliverType DEF Fault
  <2>20. ASSUME NEW t \in Faulters, DeliverPending(t) PROVE TypeInv'
    <3>0. sig[t] \in Signals /\ Deliver(t, sig[t])
      BY <2>20 DEF DeliverPending, DataTypeOK
    <3> QED
      BY <2>20, <3>0, DeliverType DEF DeliverPending
  <2>21. ASSUME NEW t \in Faulters, InterceptingLoad(t) PROVE TypeInv'
    BY <2>21 DEF InterceptingLoad, LoadStep, DataTypeOK, StartCounted, Dispositions, NoThread,
         PcTypeOK, Threads, Installers,
         CallerPCs, UninstallPCs, InstallerPCs, FaulterPCs
  <2>22. ASSUME NEW t \in Faulters, InterceptingStore(t) PROVE TypeInv'
    BY <2>22 DEF InterceptingStore, ReturnPoint, DataTypeOK, StartCounted, Dispositions, NoThread,
         PcTypeOK, Threads, Installers,
         CallerPCs, UninstallPCs, InstallerPCs, FaulterPCs
  <2>23. ASSUME NEW t \in Faulters, CollectBacktrace(t) PROVE TypeInv'
    <3>1. \E to \in {"store", "check"} : Move(t, "collect", to)
      BY <2>23 DEF CollectBacktrace
    <3> QED
      BY <3>1 DEF Move, DataTypeOK, StartCounted,
         PcTypeOK, Threads, Installers,
         CallerPCs, UninstallPCs, InstallerPCs, FaulterPCs
  <2>24. ASSUME NEW t \in Faulters, StoreReport(t) PROVE TypeInv'
    BY <2>24 DEF StoreReport, DataTypeOK, StartCounted, Dispositions, NoThread,
         PcTypeOK, Threads, Installers,
         CallerPCs, UninstallPCs, InstallerPCs, FaulterPCs
  <2>25. ASSUME NEW t \in Faulters, ChainLock(t) PROVE TypeInv'
    BY <2>25 DEF ChainLock, Acquire, Lock, DataTypeOK, StartCounted, Dispositions, NoThread,
         PcTypeOK, Threads, Installers,
         CallerPCs, UninstallPCs, InstallerPCs, FaulterPCs
  <2>26. ASSUME NEW t \in Faulters, Chain(t) PROVE TypeInv'
    <3>1. PcTypeOK'
      BY <2>26 DEF Chain,
         PcTypeOK, Threads, Installers,
         CallerPCs, UninstallPCs, InstallerPCs, FaulterPCs
    <3>2. DataTypeOK'
      BY <2>26 DEF Chain, DataTypeOK, StartCounted, Threads, Installers, Dispositions
    <3>3. StartCounted'
      BY <2>26 DEF Chain, DataTypeOK, PcTypeOK, StartCounted, Threads, Installers
    <3> QED
      BY <3>1, <3>2, <3>3
  <2>27. ASSUME NEW t \in Faulters, ChainUnlock(t) PROVE TypeInv'
    BY <2>27 DEF ChainUnlock, Release, Unlock, DataTypeOK, StartCounted, Dispositions, NoThread,
         PcTypeOK, Threads, Installers,
         CallerPCs, UninstallPCs, InstallerPCs, FaulterPCs
  <2>28. ASSUME NEW t \in Faulters, LeaveLoad(t) PROVE TypeInv'
    BY <2>28 DEF LeaveLoad, LoadStep, DataTypeOK, StartCounted, Dispositions, NoThread,
         PcTypeOK, Threads, Installers,
         CallerPCs, UninstallPCs, InstallerPCs, FaulterPCs
  <2>29. ASSUME NEW t \in Faulters, LeaveStore(t) PROVE TypeInv'
    BY <2>29 DEF LeaveStore, DataTypeOK, StartCounted, Dispositions, NoThread,
         PcTypeOK, Threads, Installers,
         CallerPCs, UninstallPCs, InstallerPCs, FaulterPCs
  <2>30. CASE UNCHANGED vars
    BY <2>30 DEF vars, local, PcTypeOK, DataTypeOK, StartCounted
  <2> QED
    BY <2>1, <2>2, <2>3, <2>4, <2>5, <2>6, <2>7, <2>8, <2>9, <2>10, <2>11,
       <2>12, <2>13, <2>14, <2>15, <2>16, <2>17, <2>18, <2>19, <2>20, <2>21,
       <2>22, <2>23, <2>24, <2>25, <2>26, <2>27, <2>28, <2>29, <2>30
    DEF Next, Rest, CallerStep, InstallerStep, InterceptorStep, Uninstall
<1> QED
  BY <1>1, <1>2, PTL DEF Spec

\* Every variable of the signal handler stays in its type.
THEOREM TypeCorrect == Spec => []TypeOK
<1>1. TypeInv => TypeOK
  BY DEF TypeInv
<1> QED
  BY <1>1, TypeInvariant, PTL

\* Whoever is at a critical step holds the mutex.  ChainExclusive is not
\* inductive by itself: it does not say who keeps a second thread out.
MutexInv == \A t \in Threads : Critical(t) => mutex = t

\* A thread leaves the critical steps only with the mutex released, or, when
\* set_sigstack failed, with the mutex locked for good.
LEMMA MutexHeld == Spec => []MutexInv
<1>1. Init => MutexInv
  BY ThreadsAssumption
  DEF Init, MutexInv, Critical, InUninstall, UninstallPCs, Threads, Installers
<1>2. ASSUME TypeOK, MutexInv, [Next]_vars PROVE MutexInv'
  <2>0. NoThread \notin Threads
    BY ThreadsAssumption, BoundsAssumption DEF NoThread, Threads, Installers
  <2>a. pc \in [Threads -> CallerPCs \cup UninstallPCs
                                   \cup InstallerPCs \cup FaulterPCs]
    BY <1>2 DEF TypeOK, PcTypeOK
  <2>b. Callers \subseteq Threads /\ Faulters \subseteq Threads
        /\ Installers \subseteq Threads /\ Faulters \cap Callers = {}
    BY ThreadsAssumption DEF Threads
  <2> USE <1>2, <2>0, <2>a, <2>b DEF MutexInv, Critical, InUninstall, UninstallPCs, At, Goto
  <2>1. ASSUME NEW c \in Callers, InitLock(c) PROVE MutexInv'
    BY <2>1 DEF InitLock, Lock
  <2>2. ASSUME NEW c \in Callers, StopCall(c) PROVE MutexInv'
    BY <2>2 DEF StopCall
  <2>3. ASSUME NEW c \in Callers, SetSigstack(c) PROVE MutexInv'
    BY <2>3 DEF SetSigstack
  <2>4. ASSUME NEW c \in Callers, SetSigstackFails(c) PROVE MutexInv'
    BY <2>4 DEF SetSigstackFails
  <2>5. ASSUME NEW c \in Callers, Spawn(c) PROVE MutexInv'
    BY <2>5 DEF Spawn
  <2>6. ASSUME NEW c \in Callers, SpawnFails(c) PROVE MutexInv'
    BY <2>6 DEF SpawnFails, Move
  <2>7. ASSUME NEW c \in Callers, InitUnlock(c) PROVE MutexInv'
    BY <2>7 DEF InitUnlock, Unlock
  <2>8. ASSUME NEW c \in Callers, StopLock(c) PROVE MutexInv'
    BY <2>8 DEF StopLock, Acquire, Lock
  <2>9. ASSUME NEW c \in Callers, Dealloc(c) PROVE MutexInv'
    BY <2>9 DEF Dealloc
  <2>10. ASSUME NEW c \in Callers, StopUnlock(c) PROVE MutexInv'
    BY <2>10 DEF StopUnlock, Unlock
  <2>11. ASSUME NEW t \in Callers \cup Faulters, UninstallCheck(t) PROVE MutexInv'
    BY <2>11 DEF UninstallCheck, AfterUninstall, SetIdx
  <2>12. ASSUME NEW t \in Callers \cup Faulters, UninstallRestore(t) PROVE MutexInv'
    BY <2>12 DEF UninstallRestore, Round, Last, SetIdx
  <2>13. ASSUME NEW t \in Callers \cup Faulters, UninstallLoad(t) PROVE MutexInv'
    BY <2>13 DEF UninstallLoad, LoadStep
  <2>14. ASSUME NEW t \in Callers \cup Faulters, UninstallStore(t) PROVE MutexInv'
    BY <2>14 DEF UninstallStore, AfterUninstall
  <2>15. ASSUME NEW k \in Installers, InitializedLoad(k) PROVE MutexInv'
    BY <2>15 DEF InitializedLoad, LoadStep
  <2>16. ASSUME NEW k \in Installers, InitializedStore(k) PROVE MutexInv'
    BY <2>16 DEF InitializedStore, SetIdx
  <2>17. ASSUME NEW k \in Installers, InstallHandler(k) PROVE MutexInv'
    BY <2>17 DEF InstallHandler, Round, Last, SetIdx
  <2>18. ASSUME NEW k \in Installers, ResetIntercepting(k) PROVE MutexInv'
    BY <2>18 DEF ResetIntercepting
  <2>19. ASSUME NEW t \in Faulters, Fault(t) PROVE MutexInv'
    BY <2>19 DEF Fault, Deliver
  <2>20. ASSUME NEW t \in Faulters, DeliverPending(t) PROVE MutexInv'
    BY <2>20 DEF DeliverPending, Deliver
  <2>21. ASSUME NEW t \in Faulters, InterceptingLoad(t) PROVE MutexInv'
    BY <2>21 DEF InterceptingLoad, LoadStep
  <2>22. ASSUME NEW t \in Faulters, InterceptingStore(t) PROVE MutexInv'
    BY <2>22 DEF InterceptingStore, ReturnPoint
  <2>23. ASSUME NEW t \in Faulters, CollectBacktrace(t) PROVE MutexInv'
    BY <2>23 DEF CollectBacktrace, Move
  <2>24. ASSUME NEW t \in Faulters, StoreReport(t) PROVE MutexInv'
    BY <2>24 DEF StoreReport
  <2>25. ASSUME NEW t \in Faulters, ChainLock(t) PROVE MutexInv'
    BY <2>25 DEF ChainLock, Acquire, Lock
  <2>26. ASSUME NEW t \in Faulters, Chain(t) PROVE MutexInv'
    BY <2>26 DEF Chain
  <2>27. ASSUME NEW t \in Faulters, ChainUnlock(t) PROVE MutexInv'
    BY <2>27 DEF ChainUnlock, Release, Unlock
  <2>28. ASSUME NEW t \in Faulters, LeaveLoad(t) PROVE MutexInv'
    BY <2>28 DEF LeaveLoad, LoadStep
  <2>29. ASSUME NEW t \in Faulters, LeaveStore(t) PROVE MutexInv'
    BY <2>29 DEF LeaveStore
  <2>30. CASE UNCHANGED vars
    BY <2>30 DEF vars, local
  <2> QED
    BY <2>1, <2>2, <2>3, <2>4, <2>5, <2>6, <2>7, <2>8, <2>9, <2>10, <2>11,
       <2>12, <2>13, <2>14, <2>15, <2>16, <2>17, <2>18, <2>19, <2>20, <2>21,
       <2>22, <2>23, <2>24, <2>25, <2>26, <2>27, <2>28, <2>29, <2>30
    DEF Next, Rest, CallerStep, InstallerStep, InterceptorStep, Uninstall
<1> QED
  BY <1>1, <1>2, TypeCorrect, PTL DEF Spec

\* No two threads are in initialize, shutdown or a chained handler together:
\* the mutex of signal-handler.cpp:38 serialises them on every path.
THEOREM MutualExclusion == Spec => []ChainExclusive
<1>1. MutexInv => ChainExclusive
  BY DEF MutexInv, ChainExclusive
<1> QED
  BY <1>1, MutexHeld, PTL

-----------------------------------------------------------------------------
(***************************************************************************)
(* One session: the process starts the agent once, its lifecycle calls do  *)
(* not overlap the installer (Settled), and pthread_setname_np, sigaction  *)
(* and collect_backtrace succeed.  Any number of threads may crash, at any *)
(* point, and the agent may be stopped at any time.                        *)
(***************************************************************************)
OneSession ==
    /\ MaxStarts = 1 /\ Settled
    /\ Failures \cap {"setname", "sigaction", "backtrace"} = {}

Back == \A s \in Signals : disposition[s] = Original[s]
StopPCs == {"stopLock", "dealloc", "stopUnlock"} \cup UninstallPCs

\* Which threads can be where while the installer, thread 1, is at its steps.
PhaseInv ==
    /\ \A c, d \in Callers : pc[c] # "idle" /\ pc[d] # "idle" => c = d
    /\ pc[1] # "end" => pending = {} /\ \A t \in Faulters : pc[t] = "app"
    /\ \A t \in Faulters : mutex = t => pc[t] \in {"chain", "unlock"}
    /\ pc[1] \in {"load", "loadStore", "install", "reset"}
           => \A c \in Callers : pc[c] \in {"idle", "initUnlock"}
    /\ \A c \in Callers : pc[c] \in {"initStack", "initSpawn"} => pc[1] = "none"
    /\ pc[1] = "none" =>
           \A c \in Callers : pc[c] \notin {"restore", "dec", "decStore"}
    /\ starts = 0 => pc[1] = "none"
    /\ pc[1] \in {"none", "load", "loadStore"} => initialized = 0
    /\ pc[1] = "loadStore" => reg[1] = 0
    /\ pc[1] \in {"install", "reset"} => initialized = 1

\* The table while it is being filled.
InstallInv ==
    /\ pc[1] \in {"none", "load", "loadStore"} => Back
    /\ pc[1] = "install" => \A i \in DOMAIN Observed :
           IF i < idx[1] THEN /\ disposition[Observed[i]] = "agent"
                              /\ saved[Observed[i]] = Original[Observed[i]]
                         ELSE disposition[Observed[i]] = Original[Observed[i]]
    /\ pc[1] = "reset" => Installed
    /\ pc[1] \in {"reset", "end"} => saved = Original

\* The table while it is being emptied, by several threads at once.
RestoreInv ==
    /\ pc[1] = "end" =>
           \A s \in Signals : disposition[s] \in {"agent", Original[s]}
    /\ pc[1] = "end" /\ initialized <= 0 => Back
    /\ \A t \in Callers \cup Faulters : pc[t] = "restore" =>
           \A i \in 1..(idx[t] - 1) :
               disposition[Observed[i]] = Original[Observed[i]]
    /\ \A t \in Callers \cup Faulters :
           pc[t] \in {"dec", "decStore", "lock", "chain", "unlock", "leave",
                      "leaveStore", "dealloc", "stopUnlock"} => Back

\* What has been reported, and what the last call left.
OutcomeInv ==
    /\ \A t \in Faulters :
           pc[t] \in {"lock", "chain", "unlock", "leave", "leaveStore"}
                       \cup UninstallPCs => reports > 0
    /\ stops = 0 => \A c \in Callers : pc[c] \notin StopPCs
    /\ pc[1] = "end" /\ stops = 0 /\ reports = 0 => Installed
    /\ lastCall = "stopped" /\ pc[1] # "none" =>
           \/ \E c \in Callers : pc[c] = "initUnlock"
           \/ pc[1] = "end" /\ Back

SessionInv == PhaseInv /\ InstallInv /\ RestoreInv /\ OutcomeInv

\* Facts about threads that every step below uses.
LEMMA SessionThreads ==
    ASSUME OneSession, TypeOK
    PROVE  /\ Installers = {1} /\ 1 \notin Callers \cup Faulters
           /\ Threads = Callers \cup Faulters \cup {1}
           /\ Callers \cap Faulters = {} /\ NoThread \notin Threads
           /\ pc \in [Threads -> CallerPCs \cup UninstallPCs
                                   \cup InstallerPCs \cup FaulterPCs]
           /\ pc[1] \in InstallerPCs
<1>1. Installers = {1}
  BY DEF OneSession, Installers
<1> QED
  BY <1>1, ThreadsAssumption, BoundsAssumption
  DEF OneSession, Threads, TypeOK, PcTypeOK, NoThread

\* In a single session: a signal reaches the interceptor only once the
\* installer has finished.
LEMMA DeliveryEffect ==
    ASSUME OneSession, TypeInv, PhaseInv, InstallInv, NEW t \in Faulters,
           Fault(t) \/ DeliverPending(t)
    PROVE  /\ pc' = pc \/ (/\ pc[1] = "end" /\ pc[t] = "app"
                           /\ pc' = [pc EXCEPT ![t] = "enter"])
           /\ pending' \subseteq pending
           /\ UNCHANGED <<reg, idx, disposition, saved, initialized, reports,
                          starts, stops, lastCall, mutex>>
<1>1. PICK s \in Signals : Deliver(t, s)
  BY DEF Fault, DeliverPending, TypeInv, TypeOK, DataTypeOK
<1>2. pc[t] = "app" /\ (pc[1] = "end" \/ (Fault(t) /\ pc[1] \in {"none", "end"}))
  BY SessionThreads DEF Fault, DeliverPending, At, PhaseInv, OneSession,
     InstallersQuiet, TypeInv
<1>3. disposition[s] = "agent" => pc[1] = "end"
  BY <1>2, SignalsAssumption DEF InstallInv, Back
<1> QED
  BY <1>1, <1>2, <1>3 DEF Deliver, kernel, count

\* In a single session: a chained handler is never the interceptor itself.
LEMMA ChainEffect ==
    ASSUME OneSession, TypeInv, PhaseInv, InstallInv, NEW t \in Faulters,
           Chain(t)
    PROVE  /\ pc[1] = "end" /\ pc[t] = "chain"
           /\ \E to \in {"chain", "unlock"} : pc' = [pc EXCEPT ![t] = to]
           /\ UNCHANGED <<reg, idx, disposition, saved, initialized, reports,
                          starts, stops, lastCall>>
<1>1. pc[1] = "end" /\ pc[t] = "chain"
  BY DEF Chain, At, PhaseInv
<1>2. pc = [pc EXCEPT ![t] = "chain"]
  BY <1>1, SessionThreads DEF TypeInv
<1>3. saved[sig[t]] # "agent"
  BY <1>1, SignalsAssumption DEF InstallInv, TypeInv, TypeOK, DataTypeOK
<1> QED
  BY <1>1, <1>2, <1>3 DEF Chain, kernel, count, done

\* In a single session: pthread_create starts installer 1.
LEMMA SpawnEffect ==
    ASSUME OneSession, TypeInv, PhaseInv, NEW c \in Callers, Spawn(c)
    PROVE  /\ pc[1] = "none" /\ pc'[1] = "load" /\ pc'[c] = "initUnlock"
           /\ \A t \in Callers \cup Faulters : t # c => pc'[t] = pc[t]
           /\ UNCHANGED <<reg, idx, disposition, saved, initialized, reports,
                          starts, stops, lastCall>>
<1>1. starts = 1 /\ pc[1] = "none"
  BY SessionThreads DEF Spawn, StartCounted, TypeInv, At, PhaseInv
<1> QED
  BY <1>1, SessionThreads DEF Spawn, TypeInv, world, kernel, count, done

\* In a single session: the installer finds `initialized' at zero.
LEMMA InstallStartEffect ==
    ASSUME OneSession, TypeInv, PhaseInv, NEW k \in Installers, InitializedStore(k)
    PROVE  /\ k = 1 /\ pc[1] = "loadStore" /\ initialized' = 1
           /\ pc' = [pc EXCEPT ![1] = "install"] /\ idx' = [idx EXCEPT ![1] = 1]
           /\ UNCHANGED <<disposition, saved, reports, starts, stops, lastCall>>
<1>1. k = 1 /\ pc[1] = "loadStore" /\ reg[1] = 0
  BY SessionThreads DEF InitializedStore, TypeInv, At, PhaseInv
<1>2. "setname" \notin Failures
  BY DEF OneSession
<1> QED
  BY <1>1, <1>2 DEF InitializedStore, SetIdx, world, kernel, done

\* In a single session: one round of the installing loop.
LEMMA InstallEffect ==
    ASSUME OneSession, TypeInv, NEW k \in Installers, InstallHandler(k)
    PROVE  /\ k = 1 /\ pc[1] = "install" /\ idx[1] \in 1..Len(Observed)
           /\ disposition' = [disposition EXCEPT ![Observed[idx[1]]] = "agent"]
           /\ saved' = [saved EXCEPT ![Observed[idx[1]]] = disposition[Observed[idx[1]]]]
           /\ \/ /\ idx[1] = Len(Observed) /\ UNCHANGED idx
                 /\ pc' = [pc EXCEPT ![1] = "reset"]
              \/ /\ idx[1] # Len(Observed) /\ UNCHANGED pc
                 /\ idx' = [idx EXCEPT ![1] = idx[1] + 1]
           /\ UNCHANGED <<initialized, reports, starts, stops, lastCall>>
<1>1. k = 1 /\ pc[1] = "install" /\ idx[1] \in 1..Len(Observed)
  BY SessionThreads DEF InstallHandler, At, TypeInv, TypeOK, DataTypeOK
<1>2. "sigaction" \notin Failures
  BY DEF OneSession
<1> QED
  BY <1>1, <1>2 DEF InstallHandler, Round, Last, SetIdx, Current, count, done

\* In a single session: one round of the uninstalling loop, run by anyone.
LEMMA RestoreEffect ==
    ASSUME OneSession, TypeInv, PhaseInv, InstallInv,
           NEW t \in Callers \cup Faulters, UninstallRestore(t)
    PROVE  /\ pc[1] = "end" /\ pc[t] = "restore" /\ idx[t] \in 1..Len(Observed)
           /\ disposition' = [disposition EXCEPT ![Observed[idx[t]]]
                                = Original[Observed[idx[t]]]]
           /\ \/ /\ idx[t] = Len(Observed) /\ UNCHANGED idx
                 /\ pc' = [pc EXCEPT ![t] = "dec"]
              \/ /\ idx[t] # Len(Observed) /\ UNCHANGED pc
                 /\ idx' = [idx EXCEPT ![t] = idx[t] + 1]
           /\ UNCHANGED <<saved, initialized, reports, starts, stops, lastCall>>
<1>1. pc[t] = "restore" /\ idx[t] \in 1..Len(Observed)
  BY SessionThreads DEF UninstallRestore, At, TypeInv, TypeOK, DataTypeOK
<1>2. pc[1] = "end" /\ saved = Original
  BY <1>1, SessionThreads DEF PhaseInv, InstallInv, TypeInv, InstallerPCs
<1> QED
  BY <1>1, <1>2 DEF UninstallRestore, Round, Last, SetIdx, Current, count, done

\* Who can be where is preserved by every step.
LEMMA PhaseStep ==
    ASSUME OneSession, TypeInv, PhaseInv, InstallInv, [Next]_vars
    PROVE  PhaseInv'
<1> USE SessionThreads DEF PhaseInv, TypeInv, At, Goto, count, kernel, memory, done, world
<1>1. ASSUME NEW c \in Callers, InitLock(c) PROVE PhaseInv'
  <2>1. starts = 0 /\ LifecycleQuiet
    BY <1>1 DEF InitLock, OneSession, TypeOK, DataTypeOK
  <2>2. pc[1] = "none" /\ pc'[1] = "none" /\ pc'[c] = "initStack" /\ mutex' = c
    BY <1>1, <2>1 DEF InitLock, Lock
  <2>3. \A d \in Callers : d # c => pc'[d] = "idle"
    BY <1>1, <2>1 DEF InitLock, LifecycleQuiet
  <2>4. \A t \in Faulters : pc'[t] = "app" /\ mutex' # t
    BY <1>1, <2>2 DEF InitLock
  <2>5. starts' = 1 /\ UNCHANGED <<pending, initialized, reg>>
    BY <1>1, <2>1 DEF InitLock
  <2> QED
    BY <2>2, <2>3, <2>4, <2>5
<1>2. ASSUME NEW c \in Callers, StopCall(c) PROVE PhaseInv'
  <2>1. LifecycleQuiet
    BY <1>2 DEF StopCall, OneSession
  <2> QED
    BY <1>2, <2>1 DEF StopCall, LifecycleQuiet, InstallersQuiet
<1>3. ASSUME NEW c \in Callers, SetSigstack(c) PROVE PhaseInv'
  BY <1>3 DEF SetSigstack
<1>4. ASSUME NEW c \in Callers, SetSigstackFails(c) PROVE PhaseInv'
  BY <1>4 DEF SetSigstackFails
<1>5. ASSUME NEW c \in Callers, Spawn(c) PROVE PhaseInv'
  <2>1. starts = 1 /\ pc' = [pc EXCEPT ![c] = "initUnlock", ![1] = "load"]
    BY <1>5 DEF Spawn, StartCounted
  <2>2. \A d \in Callers : pc'[d] = IF d = c THEN "initUnlock" ELSE "idle"
    BY <1>5, <2>1 DEF Spawn
  <2> QED
    BY <1>5, <2>1, <2>2 DEF Spawn
<1>6. ASSUME NEW c \in Callers, SpawnFails(c) PROVE PhaseInv'
  BY <1>6 DEF SpawnFails, Move
<1>7. ASSUME NEW c \in Callers, InitUnlock(c) PROVE PhaseInv'
  BY <1>7 DEF InitUnlock, Unlock
<1>8. ASSUME NEW c \in Callers, StopLock(c) PROVE PhaseInv'
  BY <1>8 DEF StopLock, Acquire, Lock
<1>9. ASSUME NEW c \in Callers, Dealloc(c) PROVE PhaseInv'
  BY <1>9 DEF Dealloc
<1>10. ASSUME NEW c \in Callers, StopUnlock(c) PROVE PhaseInv'
  BY <1>10 DEF StopUnlock, Unlock
<1>11. ASSUME NEW t \in Callers \cup Faulters, UninstallCheck(t) PROVE PhaseInv'
  BY <1>11 DEF UninstallCheck, AfterUninstall, SetIdx
<1>12. ASSUME NEW t \in Callers \cup Faulters, UninstallRestore(t) PROVE PhaseInv'
  BY <1>12 DEF UninstallRestore, Current, Round, Last, SetIdx
<1>13. ASSUME NEW t \in Callers \cup Faulters, UninstallLoad(t) PROVE PhaseInv'
  BY <1>13 DEF UninstallLoad, LoadStep
<1>14. ASSUME NEW t \in Callers \cup Faulters, UninstallStore(t) PROVE PhaseInv'
  BY <1>14 DEF UninstallStore, AfterUninstall
<1>15. ASSUME NEW k \in Installers, InitializedLoad(k) PROVE PhaseInv'
  <2>1. reg \in [Threads -> Int] /\ k = 1
    BY <1>15 DEF TypeOK, DataTypeOK
  <2> QED
    BY <1>15, <2>1 DEF InitializedLoad, LoadStep
<1>16. ASSUME NEW k \in Installers, InitializedStore(k) PROVE PhaseInv'
  BY <1>16 DEF InitializedStore, SetIdx
<1>17. ASSUME NEW k \in Installers, InstallHandler(k) PROVE PhaseInv'
  BY <1>17 DEF InstallHandler, Current, Round, Last, SetIdx
<1>18. ASSUME NEW k \in Installers, ResetIntercepting(k) PROVE PhaseInv'
  BY <1>18 DEF ResetIntercepting
<1>19. ASSUME NEW t \in Faulters, Fault(t) PROVE PhaseInv'
  BY <1>19, DeliveryEffect
<1>20. ASSUME NEW t \in Faulters, DeliverPending(t) PROVE PhaseInv'
  BY <1>20, DeliveryEffect
<1>21. ASSUME NEW t \in Faulters, InterceptingLoad(t) PROVE PhaseInv'
  BY <1>21 DEF InterceptingLoad, LoadStep
<1>22. ASSUME NEW t \in Faulters, InterceptingStore(t) PROVE PhaseInv'
  BY <1>22 DEF InterceptingStore, ReturnPoint
<1>23. ASSUME NEW t \in Faulters, CollectBacktrace(t) PROVE PhaseInv'
  BY <1>23 DEF CollectBacktrace, Move
<1>24. ASSUME NEW t \in Faulters, StoreReport(t) PROVE PhaseInv'
  BY <1>24 DEF StoreReport
<1>25. ASSUME NEW t \in Faulters, ChainLock(t) PROVE PhaseInv'
  BY <1>25 DEF ChainLock, Acquire, Lock
<1>26. ASSUME NEW t \in Faulters, Chain(t) PROVE PhaseInv'
  <2>1. UNCHANGED mutex
    BY <1>26 DEF Chain
  <2> QED
    BY <1>26, <2>1, ChainEffect
<1>27. ASSUME NEW t \in Faulters, ChainUnlock(t) PROVE PhaseInv'
  BY <1>27 DEF ChainUnlock, Release, Unlock
<1>28. ASSUME NEW t \in Faulters, LeaveLoad(t) PROVE PhaseInv'
  BY <1>28 DEF LeaveLoad, LoadStep
<1>29. ASSUME NEW t \in Faulters, LeaveStore(t) PROVE PhaseInv'
  BY <1>29 DEF LeaveStore
<1>30. CASE UNCHANGED vars
  BY <1>30 DEF vars, local
<1> QED
  BY <1>1, <1>2, <1>3, <1>4, <1>5, <1>6, <1>7, <1>8, <1>9, <1>10, <1>11,
     <1>12, <1>13, <1>14, <1>15, <1>16, <1>17, <1>18, <1>19, <1>20, <1>21,
     <1>22, <1>23, <1>24, <1>25, <1>26, <1>27, <1>28, <1>29, <1>30
  DEF Next, Rest, CallerStep, InstallerStep, InterceptorStep, Uninstall

\* The installer fills the table undisturbed.
LEMMA InstallStep ==
    ASSUME OneSession, TypeInv, PhaseInv, InstallInv, RestoreInv, [Next]_vars
    PROVE  InstallInv'
<1> USE SessionThreads DEF PhaseInv, InstallInv, Back, Installed, TypeInv, At, Goto, count, kernel, memory, done, world
<1>1. ASSUME NEW c \in Callers, InitLock(c) PROVE InstallInv'
  BY <1>1 DEF InitLock, Lock
<1>2. ASSUME NEW c \in Callers, StopCall(c) PROVE InstallInv'
  BY <1>2 DEF StopCall
<1>3. ASSUME NEW c \in Callers, SetSigstack(c) PROVE InstallInv'
  BY <1>3 DEF SetSigstack
<1>4. ASSUME NEW c \in Callers, SetSigstackFails(c) PROVE InstallInv'
  BY <1>4 DEF SetSigstackFails
<1>5. ASSUME NEW c \in Callers, Spawn(c) PROVE InstallInv'
  BY <1>5, SpawnEffect
<1>6. ASSUME NEW c \in Callers, SpawnFails(c) PROVE InstallInv'
  BY <1>6 DEF SpawnFails, Move
<1>7. ASSUME NEW c \in Callers, InitUnlock(c) PROVE InstallInv'
  BY <1>7 DEF InitUnlock, Unlock
<1>8. ASSUME NEW c \in Callers, StopLock(c) PROVE InstallInv'
  BY <1>8 DEF StopLock, Acquire, Lock
<1>9. ASSUME NEW c \in Callers, Dealloc(c) PROVE InstallInv'
  BY <1>9 DEF Dealloc
<1>10. ASSUME NEW c \in Callers, StopUnlock(c) PROVE InstallInv'
  BY <1>10 DEF StopUnlock, Unlock
<1>11. ASSUME NEW t \in Callers \cup Faulters, UninstallCheck(t) PROVE InstallInv'
  BY <1>11 DEF UninstallCheck, AfterUninstall, SetIdx
<1>12. ASSUME NEW t \in Callers \cup Faulters, UninstallRestore(t) PROVE InstallInv'
  BY <1>12, RestoreEffect
<1>13. ASSUME NEW t \in Callers \cup Faulters, UninstallLoad(t) PROVE InstallInv'
  BY <1>13 DEF UninstallLoad, LoadStep
<1>14. ASSUME NEW t \in Callers \cup Faulters, UninstallStore(t) PROVE InstallInv'
  BY <1>14 DEF UninstallStore, AfterUninstall
<1>15. ASSUME NEW k \in Installers, InitializedLoad(k) PROVE InstallInv'
  BY <1>15 DEF InitializedLoad, LoadStep
<1>16. ASSUME NEW k \in Installers, InitializedStore(k) PROVE InstallInv'
  <2>1. idx'[1] = 1 /\ pc'[1] = "install"
    BY <1>16, InstallStartEffect DEF TypeOK, DataTypeOK
  <2>2. \A i \in DOMAIN Observed : ~(i < 1) /\ Observed[i] \in Signals
    BY ObservedSignals, ObservedIndex
  <2> QED
    BY <1>16, <2>1, <2>2, InstallStartEffect
<1>17. ASSUME NEW k \in Installers, InstallHandler(k) PROVE InstallInv'
  <2> DEFINE here == Observed[idx[1]]
  <2>1. /\ here \in Signals /\ disposition[here] = Original[here]
        /\ \A i \in 1..Len(Observed) : i # idx[1] => Observed[i] # here
    BY <1>17, InstallEffect, ObservedSignals, ObservedIndex
  <2>2. \A i \in 1..Len(Observed) :
            IF i <= idx[1]
            THEN disposition'[Observed[i]] = "agent"
                 /\ saved'[Observed[i]] = Original[Observed[i]]
            ELSE disposition'[Observed[i]] = Original[Observed[i]]
    <3>1. /\ disposition' = [disposition EXCEPT ![here] = "agent"]
          /\ saved' = [saved EXCEPT ![here] = Original[here]]
          /\ pc[1] = "install" /\ idx[1] \in 1..Len(Observed)
      BY <1>17, <2>1, InstallEffect
    <3>2. \A i \in 1..Len(Observed) :
              /\ disposition'[Observed[i]] = IF i = idx[1] THEN "agent"
                                              ELSE disposition[Observed[i]]
              /\ saved'[Observed[i]] = IF i = idx[1] THEN Original[Observed[i]]
                                        ELSE saved[Observed[i]]
      BY <2>1, <3>1, ObservedSignals DEF TypeOK, DataTypeOK
    <3>3. \A i \in 1..Len(Observed) :
              IF i < idx[1] THEN /\ disposition[Observed[i]] = "agent"
                                 /\ saved[Observed[i]] = Original[Observed[i]]
                            ELSE disposition[Observed[i]] = Original[Observed[i]]
      BY <3>1, ObservedIndex
    <3> HIDE DEF InstallInv, PhaseInv, TypeInv
    <3> QED
      BY <3>1, <3>2, <3>3
  <2>3. CASE idx[1] = Len(Observed)
    <3>1. \A s \in Signals : disposition'[s] = "agent" /\ saved'[s] = Original[s]
      BY <2>2, <2>3, ObservedSignals, ObservedIndex
    <3>2. saved' = Original
      BY <1>17, <3>1, InstallEffect, SignalsAssumption DEF TypeOK, DataTypeOK
    <3> QED
      BY <1>17, <2>3, <3>1, <3>2, InstallEffect
  <2>4. CASE idx[1] # Len(Observed)
    <3>1. pc' = pc /\ idx'[1] = idx[1] + 1
      BY <1>17, <2>4, InstallEffect DEF TypeOK, DataTypeOK
    <3> QED
      BY <1>17, <2>2, <3>1, InstallEffect, ObservedSignals, ObservedIndex
  <2> QED
    BY <2>3, <2>4
<1>18. ASSUME NEW k \in Installers, ResetIntercepting(k) PROVE InstallInv'
  BY <1>18 DEF ResetIntercepting
<1>19. ASSUME NEW t \in Faulters, Fault(t) PROVE InstallInv'
  BY <1>19, DeliveryEffect
<1>20. ASSUME NEW t \in Faulters, DeliverPending(t) PROVE InstallInv'
  BY <1>20, DeliveryEffect
<1>21. ASSUME NEW t \in Faulters, InterceptingLoad(t) PROVE InstallInv'
  BY <1>21 DEF InterceptingLoad, LoadStep
<1>22. ASSUME NEW t \in Faulters, InterceptingStore(t) PROVE InstallInv'
  BY <1>22 DEF InterceptingStore, ReturnPoint
<1>23. ASSUME NEW t \in Faulters, CollectBacktrace(t) PROVE InstallInv'
  BY <1>23 DEF CollectBacktrace, Move, OneSession
<1>24. ASSUME NEW t \in Faulters, StoreReport(t) PROVE InstallInv'
  BY <1>24 DEF StoreReport
<1>25. ASSUME NEW t \in Faulters, ChainLock(t) PROVE InstallInv'
  BY <1>25 DEF ChainLock, Acquire, Lock
<1>26. ASSUME NEW t \in Faulters, Chain(t) PROVE InstallInv'
  BY <1>26, ChainEffect
<1>27. ASSUME NEW t \in Faulters, ChainUnlock(t) PROVE InstallInv'
  BY <1>27 DEF ChainUnlock, Release, Unlock
<1>28. ASSUME NEW t \in Faulters, LeaveLoad(t) PROVE InstallInv'
  BY <1>28 DEF LeaveLoad, LoadStep
<1>29. ASSUME NEW t \in Faulters, LeaveStore(t) PROVE InstallInv'
  BY <1>29 DEF LeaveStore
<1>30. CASE UNCHANGED vars
  BY <1>30 DEF vars, local
<1> QED
  BY <1>1, <1>2, <1>3, <1>4, <1>5, <1>6, <1>7, <1>8, <1>9, <1>10, <1>11,
     <1>12, <1>13, <1>14, <1>15, <1>16, <1>17, <1>18, <1>19, <1>20, <1>21,
     <1>22, <1>23, <1>24, <1>25, <1>26, <1>27, <1>28, <1>29, <1>30
  DEF Next, Rest, CallerStep, InstallerStep, InterceptorStep, Uninstall

\* Threads that empty the table together only help each other.
LEMMA RestoreStep ==
    ASSUME OneSession, TypeInv, PhaseInv, InstallInv, RestoreInv, [Next]_vars
    PROVE  RestoreInv'
<1> USE SessionThreads DEF PhaseInv, InstallInv, RestoreInv, Back, Installed, TypeInv, At, Goto, count, kernel, memory, done, world
<1>1. ASSUME NEW c \in Callers, InitLock(c) PROVE RestoreInv'
  BY <1>1 DEF InitLock, Lock
<1>2. ASSUME NEW c \in Callers, StopCall(c) PROVE RestoreInv'
  BY <1>2 DEF StopCall
<1>3. ASSUME NEW c \in Callers, SetSigstack(c) PROVE RestoreInv'
  BY <1>3 DEF SetSigstack
<1>4. ASSUME NEW c \in Callers, SetSigstackFails(c) PROVE RestoreInv'
  BY <1>4 DEF SetSigstackFails
<1>5. ASSUME NEW c \in Callers, Spawn(c) PROVE RestoreInv'
  BY <1>5, SpawnEffect
<1>6. ASSUME NEW c \in Callers, SpawnFails(c) PROVE RestoreInv'
  BY <1>6 DEF SpawnFails, Move
<1>7. ASSUME NEW c \in Callers, InitUnlock(c) PROVE RestoreInv'
  BY <1>7 DEF InitUnlock, Unlock
<1>8. ASSUME NEW c \in Callers, StopLock(c) PROVE RestoreInv'
  BY <1>8 DEF StopLock, Acquire, Lock
<1>9. ASSUME NEW c \in Callers, Dealloc(c) PROVE RestoreInv'
  BY <1>9 DEF Dealloc
<1>10. ASSUME NEW c \in Callers, StopUnlock(c) PROVE RestoreInv'
  BY <1>10 DEF StopUnlock, Unlock
<1>11. ASSUME NEW t \in Callers \cup Faulters, UninstallCheck(t) PROVE RestoreInv'
  <2>1. initialized \in Int /\ idx \in [Threads -> 1..Len(Observed)]
    BY DEF TypeOK, DataTypeOK
  <2>2. pc[1] \in {"none", "end"} /\ pc[t] = "check"
    BY <1>11 DEF UninstallCheck, InstallerPCs
  <2>3. CASE initialized > 0
    BY <1>11, <2>1, <2>2, <2>3 DEF UninstallCheck, SetIdx
  <2>4. CASE ~(initialized > 0)
    BY <1>11, <2>1, <2>2, <2>4 DEF UninstallCheck, AfterUninstall, SetIdx
  <2> QED
    BY <2>3, <2>4
<1>12. ASSUME NEW t \in Callers \cup Faulters, UninstallRestore(t) PROVE RestoreInv'
  <2> DEFINE here == Observed[idx[t]]
  <2>1. \A s \in Signals :
            disposition'[s] = IF s = here THEN Original[s] ELSE disposition[s]
    BY <1>12, RestoreEffect DEF TypeOK, DataTypeOK
  <2>2. \A i \in 1..Len(Observed) : Observed[i] \in Signals
    BY ObservedSignals
  <2>3. idx \in [Threads -> 1..Len(Observed)] /\ Len(Observed) \in Nat
    BY ObservedSignals DEF TypeOK, DataTypeOK
  <2>4. \A s \in Signals : disposition[s] = Original[s] => disposition'[s] = Original[s]
    BY <2>1
  <2>5. \A i \in 1..idx[t] : disposition'[Observed[i]] = Original[Observed[i]]
    <3>1. pc[t] = "restore" /\ idx[t] \in 1..Len(Observed)
      BY <1>12, RestoreEffect
    <3>2. \A i \in 1..(idx[t] - 1) : disposition[Observed[i]] = Original[Observed[i]]
      BY <3>1
    <3> HIDE DEF PhaseInv, InstallInv, RestoreInv, TypeInv
    <3> QED
      BY <2>1, <2>2, <2>3, <3>1, <3>2
  <2>6. CASE idx[t] = Len(Observed)
    <3>1. Back'
      BY <2>5, <2>6, ObservedIndex
    <3>2. pc[1] = "end" /\ idx' = idx /\ pc' = [pc EXCEPT ![t] = "dec"]
      BY <1>12, <2>6, RestoreEffect
    <3>3. \A u \in Callers \cup Faulters : pc'[u] = "restore" =>
              \A i \in 1..(idx[u] - 1) : Observed[i] \in Signals
      BY <2>2, <2>3, <3>2
    <3> QED
      BY <3>1, <3>2, <3>3
  <2>7. CASE idx[t] # Len(Observed)
    <3>1. pc' = pc /\ idx'[t] = idx[t] + 1
          /\ \A u \in Callers \cup Faulters : u # t => idx'[u] = idx[u]
      BY <1>12, <2>3, <2>7, RestoreEffect
    <3>2. \A u \in Callers \cup Faulters : pc[u] = "restore" =>
              \A i \in 1..(idx'[u] - 1) : disposition'[Observed[i]] = Original[Observed[i]]
      <4>1. \A u \in Callers \cup Faulters : u # t /\ pc[u] = "restore" =>
                \A i \in 1..(idx[u] - 1) : /\ Observed[i] \in Signals
                                           /\ disposition[Observed[i]] = Original[Observed[i]]
        BY <2>2, <2>3
      <4> HIDE DEF PhaseInv, InstallInv, RestoreInv, TypeInv
      <4>2. idx[t] \in 1..Len(Observed) /\ 1..(idx'[t] - 1) = 1..idx[t]
        BY ONLY <1>12, <2>3, <3>1 DEF Threads
      <4>3. ASSUME NEW u \in Callers \cup Faulters, pc[u] = "restore",
                   NEW i \in 1..(idx'[u] - 1)
            PROVE  disposition'[Observed[i]] = Original[Observed[i]]
        <5>1. CASE u = t
          BY <4>2, <4>3, <5>1, <2>5
        <5>2. CASE u # t
          BY <4>1, <4>3, <5>2, <3>1, <2>4
        <5> QED
          BY <5>1, <5>2
      <4> QED
        BY <4>3
    <3> QED
      BY <1>12, <2>1, <2>4, <3>1, <3>2, RestoreEffect
  <2> QED
    BY <2>6, <2>7
<1>13. ASSUME NEW t \in Callers \cup Faulters, UninstallLoad(t) PROVE RestoreInv'
  BY <1>13 DEF UninstallLoad, LoadStep
<1>14. ASSUME NEW t \in Callers \cup Faulters, UninstallStore(t) PROVE RestoreInv'
  BY <1>14 DEF UninstallStore, AfterUninstall
<1>15. ASSUME NEW k \in Installers, InitializedLoad(k) PROVE RestoreInv'
  BY <1>15 DEF InitializedLoad, LoadStep
<1>16. ASSUME NEW k \in Installers, InitializedStore(k) PROVE RestoreInv'
  BY <1>16, InstallStartEffect
<1>17. ASSUME NEW k \in Installers, InstallHandler(k) PROVE RestoreInv'
  BY <1>17, InstallEffect
<1>18. ASSUME NEW k \in Installers, ResetIntercepting(k) PROVE RestoreInv'
  BY <1>18 DEF ResetIntercepting
<1>19. ASSUME NEW t \in Faulters, Fault(t) PROVE RestoreInv'
  BY <1>19, DeliveryEffect
<1>20. ASSUME NEW t \in Faulters, DeliverPending(t) PROVE RestoreInv'
  BY <1>20, DeliveryEffect
<1>21. ASSUME NEW t \in Faulters, InterceptingLoad(t) PROVE RestoreInv'
  BY <1>21 DEF InterceptingLoad, LoadStep
<1>22. ASSUME NEW t \in Faulters, InterceptingStore(t) PROVE RestoreInv'
  <2>1. mutex # t /\ pc[t] = "enterStore"
    BY <1>22 DEF InterceptingStore
  <2>2. \E to \in {"collect", "app"} : pc' = [pc EXCEPT ![t] = to]
    BY <1>22, <2>1 DEF InterceptingStore, ReturnPoint
  <2> QED
    BY <1>22, <2>1, <2>2 DEF InterceptingStore
<1>23. ASSUME NEW t \in Faulters, CollectBacktrace(t) PROVE RestoreInv'
  <2>1. Move(t, "collect", "store")
    BY <1>23 DEF CollectBacktrace, OneSession
  <2> QED
    BY <2>1 DEF Move
<1>24. ASSUME NEW t \in Faulters, StoreReport(t) PROVE RestoreInv'
  BY <1>24 DEF StoreReport
<1>25. ASSUME NEW t \in Faulters, ChainLock(t) PROVE RestoreInv'
  BY <1>25 DEF ChainLock, Acquire, Lock
<1>26. ASSUME NEW t \in Faulters, Chain(t) PROVE RestoreInv'
  BY <1>26, ChainEffect
<1>27. ASSUME NEW t \in Faulters, ChainUnlock(t) PROVE RestoreInv'
  BY <1>27 DEF ChainUnlock, Release, Unlock
<1>28. ASSUME NEW t \in Faulters, LeaveLoad(t) PROVE RestoreInv'
  BY <1>28 DEF LeaveLoad, LoadStep
<1>29. ASSUME NEW t \in Faulters, LeaveStore(t) PROVE RestoreInv'
  BY <1>29 DEF LeaveStore
<1>30. CASE UNCHANGED vars
  BY <1>30 DEF vars, local
<1> QED
  BY <1>1, <1>2, <1>3, <1>4, <1>5, <1>6, <1>7, <1>8, <1>9, <1>10, <1>11,
     <1>12, <1>13, <1>14, <1>15, <1>16, <1>17, <1>18, <1>19, <1>20, <1>21,
     <1>22, <1>23, <1>24, <1>25, <1>26, <1>27, <1>28, <1>29, <1>30
  DEF Next, Rest, CallerStep, InstallerStep, InterceptorStep, Uninstall

\* No crash takes the handlers down before it has reported.
LEMMA OutcomeStep ==
    ASSUME OneSession, TypeInv, PhaseInv, InstallInv, RestoreInv, OutcomeInv, [Next]_vars
    PROVE  OutcomeInv'
<1> USE SessionThreads DEF PhaseInv, InstallInv, RestoreInv, OutcomeInv, Back, Installed, StopPCs, UninstallPCs, TypeInv, At, Goto, count, kernel, memory, done, world
<1>1. ASSUME NEW c \in Callers, InitLock(c) PROVE OutcomeInv'
  BY <1>1 DEF InitLock, Lock
<1>2. ASSUME NEW c \in Callers, StopCall(c) PROVE OutcomeInv'
  <2>1. LifecycleQuiet /\ stops \in Nat
    BY <1>2, BoundsAssumption DEF StopCall, OneSession, TypeOK, DataTypeOK
  <2> QED
    BY <1>2, <2>1 DEF StopCall, LifecycleQuiet, InstallersQuiet
<1>3. ASSUME NEW c \in Callers, SetSigstack(c) PROVE OutcomeInv'
  BY <1>3 DEF SetSigstack
<1>4. ASSUME NEW c \in Callers, SetSigstackFails(c) PROVE OutcomeInv'
  BY <1>4 DEF SetSigstackFails
<1>5. ASSUME NEW c \in Callers, Spawn(c) PROVE OutcomeInv'
  BY <1>5, SpawnEffect
<1>6. ASSUME NEW c \in Callers, SpawnFails(c) PROVE OutcomeInv'
  BY <1>6 DEF SpawnFails, Move
<1>7. ASSUME NEW c \in Callers, InitUnlock(c) PROVE OutcomeInv'
  BY <1>7 DEF InitUnlock, Unlock
<1>8. ASSUME NEW c \in Callers, StopLock(c) PROVE OutcomeInv'
  BY <1>8 DEF StopLock, Acquire, Lock
<1>9. ASSUME NEW c \in Callers, Dealloc(c) PROVE OutcomeInv'
  BY <1>9 DEF Dealloc
<1>10. ASSUME NEW c \in Callers, StopUnlock(c) PROVE OutcomeInv'
  <2>1. pc[c] = "stopUnlock" /\ pc[1] \in {"none", "end"} /\ Back
    BY <1>10 DEF StopUnlock, InstallerPCs
  <2> QED
    BY <1>10, <2>1 DEF StopUnlock, Unlock
<1>11. ASSUME NEW t \in Callers \cup Faulters, UninstallCheck(t) PROVE OutcomeInv'
  BY <1>11 DEF UninstallCheck, AfterUninstall, SetIdx
<1>12. ASSUME NEW t \in Callers \cup Faulters, UninstallRestore(t) PROVE OutcomeInv'
  <2>1. \A s \in Signals : disposition[s] = Original[s] => disposition'[s] = Original[s]
    BY <1>12, RestoreEffect DEF TypeOK, DataTypeOK
  <2>2. stops # 0 \/ reports > 0
    BY <1>12, RestoreEffect
  <2>3. stops \in Nat /\ reports \in Nat
    BY BoundsAssumption DEF TypeOK, DataTypeOK
  <2> QED
    BY <1>12, <2>1, <2>2, <2>3, RestoreEffect
<1>13. ASSUME NEW t \in Callers \cup Faulters, UninstallLoad(t) PROVE OutcomeInv'
  BY <1>13 DEF UninstallLoad, LoadStep
<1>14. ASSUME NEW t \in Callers \cup Faulters, UninstallStore(t) PROVE OutcomeInv'
  BY <1>14 DEF UninstallStore, AfterUninstall
<1>15. ASSUME NEW k \in Installers, InitializedLoad(k) PROVE OutcomeInv'
  BY <1>15 DEF InitializedLoad, LoadStep
<1>16. ASSUME NEW k \in Installers, InitializedStore(k) PROVE OutcomeInv'
  BY <1>16, InstallStartEffect
<1>17. ASSUME NEW k \in Installers, InstallHandler(k) PROVE OutcomeInv'
  BY <1>17, InstallEffect
<1>18. ASSUME NEW k \in Installers, ResetIntercepting(k) PROVE OutcomeInv'
  BY <1>18 DEF ResetIntercepting
<1>19. ASSUME NEW t \in Faulters, Fault(t) PROVE OutcomeInv'
  BY <1>19, DeliveryEffect
<1>20. ASSUME NEW t \in Faulters, DeliverPending(t) PROVE OutcomeInv'
  BY <1>20, DeliveryEffect
<1>21. ASSUME NEW t \in Faulters, InterceptingLoad(t) PROVE OutcomeInv'
  BY <1>21 DEF InterceptingLoad, LoadStep
<1>22. ASSUME NEW t \in Faulters, InterceptingStore(t) PROVE OutcomeInv'
  <2>1. mutex # t /\ pc[t] = "enterStore"
    BY <1>22 DEF InterceptingStore
  <2>2. \E to \in {"collect", "app"} : pc' = [pc EXCEPT ![t] = to]
    BY <1>22, <2>1 DEF InterceptingStore, ReturnPoint
  <2> QED
    BY <1>22, <2>1, <2>2 DEF InterceptingStore
<1>23. ASSUME NEW t \in Faulters, CollectBacktrace(t) PROVE OutcomeInv'
  <2>1. Move(t, "collect", "store")
    BY <1>23 DEF CollectBacktrace, OneSession
  <2> QED
    BY <2>1 DEF Move
<1>24. ASSUME NEW t \in Faulters, StoreReport(t) PROVE OutcomeInv'
  <2>1. reports' > 0
    BY <1>24 DEF StoreReport, TypeOK, DataTypeOK
  <2> QED
    BY <1>24, <2>1 DEF StoreReport
<1>25. ASSUME NEW t \in Faulters, ChainLock(t) PROVE OutcomeInv'
  BY <1>25 DEF ChainLock, Acquire, Lock
<1>26. ASSUME NEW t \in Faulters, Chain(t) PROVE OutcomeInv'
  BY <1>26, ChainEffect
<1>27. ASSUME NEW t \in Faulters, ChainUnlock(t) PROVE OutcomeInv'
  BY <1>27 DEF ChainUnlock, Release, Unlock
<1>28. ASSUME NEW t \in Faulters, LeaveLoad(t) PROVE OutcomeInv'
  BY <1>28 DEF LeaveLoad, LoadStep
<1>29. ASSUME NEW t \in Faulters, LeaveStore(t) PROVE OutcomeInv'
  BY <1>29 DEF LeaveStore
<1>30. CASE UNCHANGED vars
  BY <1>30 DEF vars, local
<1> QED
  BY <1>1, <1>2, <1>3, <1>4, <1>5, <1>6, <1>7, <1>8, <1>9, <1>10, <1>11,
     <1>12, <1>13, <1>14, <1>15, <1>16, <1>17, <1>18, <1>19, <1>20, <1>21,
     <1>22, <1>23, <1>24, <1>25, <1>26, <1>27, <1>28, <1>29, <1>30
  DEF Next, Rest, CallerStep, InstallerStep, InterceptorStep, Uninstall

\* The session invariant holds of the process before the first nativeStart.
LEMMA SessionInit ==
    ASSUME OneSession, Init
    PROVE  SessionInv
<1> USE BoundsAssumption, ThreadsAssumption, SignalsAssumption
    DEF OneSession, Init, Threads, Installers
<1>1. PhaseInv
  BY DEF PhaseInv, NoThread
<1>2. InstallInv
  BY DEF InstallInv, Back
<1>3. RestoreInv
  BY DEF RestoreInv
<1>4. OutcomeInv
  BY DEF OutcomeInv, UninstallPCs, StopPCs
<1> QED
  BY <1>1, <1>2, <1>3, <1>4 DEF SessionInv

\* The session invariant holds throughout.
THEOREM SessionInvariant ==
    ASSUME OneSession
    PROVE  Spec => []SessionInv
<1>1. Init => SessionInv
  BY SessionInit
<1>2. TypeInv /\ SessionInv /\ [Next]_vars => SessionInv'
  BY PhaseStep, InstallStep, RestoreStep, OutcomeStep DEF SessionInv
<1> QED
  BY <1>1, <1>2, TypeInvariant, PTL DEF Spec

\* However many threads crash at once, the handler chained to is the
\* application's own (signal-handler.cpp:84).
THEOREM OriginalChained ==
    ASSUME OneSession
    PROVE  Spec => []ChainsToOriginal
<1>1. TypeInv /\ SessionInv => ChainsToOriginal
  <2>1. ASSUME TypeInv, SessionInv, NEW t \in Faulters, pc[t] = "chain"
        PROVE  saved[sig[t]] = Original[sig[t]]
    BY <2>1 DEF SessionInv, PhaseInv, InstallInv
  <2> QED
    BY <2>1 DEF ChainsToOriginal
<1> QED
  BY <1>1, TypeInvariant, SessionInvariant, PTL

\* While a chained handler runs no observed signal leads back to the
\* interceptor (signal-handler.cpp:81).
THEOREM RecursionPrevented ==
    ASSUME OneSession
    PROVE  Spec => []NoRecursion
<1>1. SessionInv => NoRecursion
  BY SignalsAssumption DEF SessionInv, RestoreInv, Back, NoRecursion
<1> QED
  BY <1>1, SessionInvariant, PTL

\* After a shutdown each signal is back at the application's disposition, also
\* when crashing threads uninstalled at the same time (signal-handler.cpp:186).
THEOREM RemovedByShutdown ==
    ASSUME OneSession
    PROVE  Spec => []RemovedAfterShutdown
<1>1. Installers = {1}
  BY DEF OneSession, Installers
<1>2. SessionInv => RemovedAfterShutdown
  <2>1. ASSUME SessionInv, lastCall = "stopped", LifecycleQuiet
        PROVE  Back
    <3>1. pc[1] \in {"none", "end"} /\ \A c \in Callers : pc[c] # "initUnlock"
      BY <1>1, <2>1 DEF LifecycleQuiet, InstallersQuiet
    <3> QED
      BY <2>1, <3>1 DEF SessionInv, InstallInv, OutcomeInv
  <2> QED
    BY <2>1 DEF RemovedAfterShutdown, Back
<1> QED
  BY <1>2, SessionInvariant, PTL

-----------------------------------------------------------------------------
(* An initialize that returned has installed the interceptor               *)

\* The call that created the installer is returning or has returned.
Initialized == lastCall = "started" \/ \E c \in Callers : pc[c] = "initUnlock"

\* Only a stop or a signal that was intercepted removes the observers.
ArmedInv ==
    /\ faults = 0 => pending = {} /\ \A t \in Faulters : pc[t] = "app"
    /\ Initialized => pc[1] # "none"
    /\ Initialized /\ pc[1] = "end" /\ faults = 0
           /\ (\A c \in Callers : pc[c] \notin StopPCs) => Installed

LEMMA ArmedStep ==
    ASSUME OneSession, "pthread_create" \notin Failures, TypeInv, SessionInv, ArmedInv,
           [Next]_vars
    PROVE  ArmedInv'
<1>1. PhaseInv /\ InstallInv /\ faults \in Nat
  BY BoundsAssumption DEF SessionInv, TypeInv, TypeOK, DataTypeOK
<1> USE <1>1, SessionThreads
    DEF ArmedInv, Initialized, Installed, StopPCs, TypeInv, At, Goto, kernel, memory, done,
        world
<1>2. ASSUME NEW c \in Callers, InitLock(c) PROVE ArmedInv'
  <2>1. starts = 0 /\ pc[1] = "none" /\ lastCall # "started"
    BY <1>2 DEF InitLock, OneSession, TypeOK, DataTypeOK, PhaseInv
  <2> QED
    BY <1>2, <2>1 DEF InitLock
<1>3. ASSUME NEW c \in Callers, StopCall(c) PROVE ArmedInv'
  BY <1>3 DEF StopCall
<1>4. ASSUME NEW c \in Callers, SetSigstack(c) \/ SetSigstackFails(c) PROVE ArmedInv'
  BY <1>4 DEF SetSigstack, SetSigstackFails, PhaseInv
<1>5. ASSUME NEW c \in Callers, Spawn(c) PROVE ArmedInv'
  <2>1. UNCHANGED <<faults, pending>>
    BY <1>5 DEF Spawn
  <2> QED
    BY <1>5, <2>1, SpawnEffect
<1>6. ASSUME NEW c \in Callers, SpawnFails(c) PROVE FALSE
  BY <1>6 DEF SpawnFails
<1>7. ASSUME NEW c \in Callers, InitUnlock(c) PROVE ArmedInv'
  BY <1>7 DEF InitUnlock, UninstallPCs
<1>8. ASSUME NEW c \in Callers, StopLock(c) \/ Dealloc(c) PROVE ArmedInv'
  BY <1>8 DEF StopLock, Acquire, Dealloc, UninstallPCs
<1>9. ASSUME NEW c \in Callers, StopUnlock(c) PROVE ArmedInv'
  BY <1>9 DEF StopUnlock, PhaseInv
<1>10. ASSUME NEW t \in Callers \cup Faulters, Uninstall(t) PROVE ArmedInv'
  <2>1. /\ UNCHANGED <<faults, pending, lastCall>>
        /\ pc[t] \in UninstallPCs
    BY <1>10 DEF Uninstall, UninstallCheck, UninstallRestore, UninstallLoad, UninstallStore,
       LoadStep, UninstallPCs
  <2>2. \E to \in UninstallPCs \cup {AfterUninstall(t)} : pc' = [pc EXCEPT ![t] = to]
    <3>1. pc = [pc EXCEPT ![t] = pc[t]]
      OBVIOUS
    <3> QED
      BY <1>10, <2>1, <3>1 DEF Uninstall, UninstallCheck, UninstallRestore, UninstallLoad,
         UninstallStore, LoadStep, Round, UninstallPCs
  <2>3. CASE t \in Faulters
    BY <2>1, <2>2, <2>3 DEF UninstallPCs, AfterUninstall
  <2>4. CASE t \in Callers
    BY <2>1, <2>2, <2>4 DEF UninstallPCs, AfterUninstall
  <2> QED
    BY <2>3, <2>4
<1>11. ASSUME NEW k \in Installers, InstallerStep(k) PROVE ArmedInv'
  <2>1. /\ UNCHANGED <<faults, pending, lastCall>>
        /\ \A t \in Callers \cup Faulters : pc'[t] = pc[t]
        /\ pc'[1] # "none"
    BY <1>11 DEF InstallerStep, InitializedLoad, InitializedStore, InstallHandler,
       ResetIntercepting, LoadStep, Round
  <2>2. CASE InitializedLoad(k)
    BY <2>1, <2>2 DEF InitializedLoad, LoadStep
  <2>3. CASE InitializedStore(k)
    BY <2>1, <2>3, InstallStartEffect
  <2>4. CASE InstallHandler(k)
    BY <2>1, <2>4, InstallEffect
  <2>5. CASE ResetIntercepting(k)
    BY <2>1, <2>5 DEF ResetIntercepting, InstallInv
  <2> QED
    BY <1>11, <2>2, <2>3, <2>4, <2>5 DEF InstallerStep
<1>12. ASSUME NEW t \in Faulters, Fault(t) \/ DeliverPending(t) PROVE ArmedInv'
  <2>1. PICK s \in Signals : Deliver(t, s)
    BY <1>12 DEF Fault, DeliverPending, TypeOK, DataTypeOK
  <2>2. (pc' = pc /\ faults' = faults) \/ faults' = faults + 1
    BY <2>1 DEF Deliver
  <2>3. CASE faults' = faults + 1
    BY <1>12, <2>3, DeliveryEffect
  <2>4. CASE pc' = pc /\ faults' = faults
    BY <1>12, <2>4, DeliveryEffect
  <2> QED
    BY <2>2, <2>3, <2>4
<1>13. ASSUME NEW t \in Faulters,
              \/ InterceptingLoad(t) \/ InterceptingStore(t) \/ CollectBacktrace(t)
              \/ StoreReport(t) \/ ChainLock(t) \/ Chain(t) \/ ChainUnlock(t)
              \/ LeaveLoad(t) \/ LeaveStore(t)
       PROVE  ArmedInv'
  <2>1. pc[t] # "app" /\ UNCHANGED <<faults, lastCall, disposition>>
    BY <1>13 DEF InterceptingLoad, InterceptingStore, CollectBacktrace, Move, StoreReport,
       ChainLock, Acquire, Chain, ChainUnlock, Release, LeaveLoad, LeaveStore, LoadStep
  <2>2. pc' = pc \/ \E to : pc' = [pc EXCEPT ![t] = to]
    BY <1>13 DEF InterceptingLoad, InterceptingStore, CollectBacktrace, Move, StoreReport,
       ChainLock, Acquire, Chain, ChainUnlock, Release, LeaveLoad, LeaveStore, LoadStep
  <2> QED
    BY <2>1, <2>2
<1>14. CASE UNCHANGED vars
  BY <1>14 DEF vars, local
<1> QED
  BY <1>2, <1>3, <1>4, <1>5, <1>6, <1>7, <1>8, <1>9, <1>10, <1>11, <1>12, <1>13, <1>14
  DEF Next, Rest, CallerStep, InterceptorStep

\* An initialize that returned true has, once its detached installer is through,
\* installed the interceptor for every observed signal (signal-handler.cpp:94),
\* and no start, stop or harmless signal of another thread undoes that; true was
\* returned although nothing was installed only when pthread_create failed.
THEOREM InstalledByInitialize ==
    ASSUME OneSession, "pthread_create" \notin Failures
    PROVE  Spec => []InstalledAfterInitialize
<1>1. Init => ArmedInv
  BY SessionThreads, ThreadsAssumption DEF Init, ArmedInv, Initialized, Threads
<1>2. TypeInv /\ SessionInv /\ ArmedInv /\ [Next]_vars => ArmedInv'
  BY ArmedStep
<1>3. TypeInv /\ SessionInv /\ ArmedInv => InstalledAfterInitialize
  <2> SUFFICES ASSUME TypeInv, ArmedInv, lastCall = "started", LifecycleQuiet, faults = 0
               PROVE  Installed
    BY DEF InstalledAfterInitialize
  <2>1. pc[1] \in {"none", "end"} /\ \A c \in Callers : pc[c] = "idle"
    BY SessionThreads DEF LifecycleQuiet, InstallersQuiet, TypeInv
  <2> QED
    BY <2>1 DEF ArmedInv, Initialized, StopPCs, UninstallPCs
<1> QED
  BY <1>1, <1>2, <1>3, TypeInvariant, SessionInvariant, PTL DEF Spec

-----------------------------------------------------------------------------
(* One session implements CrashGuard                                       *)

\* What CrashGuard sees of the table at each step of the installer.
GuardInv ==
    /\ pc[1] = "none" => GuardState = "off"
    /\ pc[1] \in {"load", "loadStore", "install"} => GuardState = "arming"
    /\ pc[1] = "reset" => GuardState = "armed"
    /\ pc[1] = "end" => GuardState = IF Installed THEN "armed" ELSE "removed"

LEMMA GuardPhases ==
    ASSUME OneSession, TypeInv, SessionInv
    PROVE  GuardInv
<1>1. /\ Installers = {1} /\ 1 \in DOMAIN Observed
      /\ \A s \in Signals : Original[s] # "agent"
      /\ \A i \in DOMAIN Observed : Observed[i] \in Signals
  BY SessionThreads, SignalsAssumption DEF TypeInv, Signals
<1>2. pc[1] \in {"none", "load", "loadStore"} => ~Installed
  BY <1>1 DEF SessionInv, InstallInv, Back, Installed
<1>3. pc[1] = "install" => ~Installed
  <2>1. idx[1] \in DOMAIN Observed
    BY SessionThreads, SignalsAssumption DEF TypeInv, TypeOK, DataTypeOK
  <2>2. pc[1] = "install" =>
            disposition[Observed[idx[1]]] = Original[Observed[idx[1]]]
    BY <2>1, SignalsAssumption DEF SessionInv, InstallInv
  <2> QED
    BY <1>1, <2>1, <2>2 DEF Installed
<1>4. pc[1] = "reset" => Installed
  BY DEF SessionInv, InstallInv
<1> QED
  BY <1>1, <1>2, <1>3, <1>4 DEF GuardInv, GuardState

\* Steps that CrashGuard does not see.
LEMMA UnseenStep ==
    ASSUME GuardInv, GuardInv', pc'[1] = pc[1], pc[1] \in InstallerPCs,
           UNCHANGED <<disposition, reports, stops, alive>>
    PROVE  UNCHANGED Guard!guardVars
<1>1. Installed' = Installed
  BY DEF Installed
<1>2. GuardState' = GuardState
  BY <1>1 DEF GuardInv, InstallerPCs
<1> QED
  BY <1>2 DEF Guard!guardVars

\* Every step of a session is a step of CrashGuard, or is not seen by it.
LEMMA GuardStep ==
    ASSUME OneSession, TypeInv, SessionInv, GuardInv, GuardInv', [Next]_vars
    PROVE  [Guard!Next]_(Guard!guardVars)
<1> USE DEF At, Goto, count, kernel, memory, done, world
<1>1. /\ 1 \notin Callers \cup Faulters /\ Installers = {1}
      /\ pc \in [Threads -> CallerPCs \cup UninstallPCs
                              \cup InstallerPCs \cup FaulterPCs]
      /\ pc[1] \in InstallerPCs /\ Callers \cup Faulters \subseteq Threads
      /\ stops \in Nat /\ reports \in Nat /\ 1 \in Threads
  BY SessionThreads, BoundsAssumption DEF TypeInv, TypeOK, DataTypeOK
<1>2. PhaseInv /\ InstallInv /\ RestoreInv /\ OutcomeInv
  BY DEF SessionInv
<1>3. ASSUME NEW c \in Callers,
             \/ InitLock(c) \/ SetSigstack(c) \/ SetSigstackFails(c)
             \/ SpawnFails(c) \/ InitUnlock(c) \/ StopLock(c) \/ Dealloc(c)
             \/ StopUnlock(c)
      PROVE  UNCHANGED Guard!guardVars
  BY <1>1, <1>3, UnseenStep DEF InitLock, SetSigstack, SetSigstackFails,
     SpawnFails, InitUnlock, StopLock, Dealloc, StopUnlock, Move, Acquire
<1>4. ASSUME NEW t \in Callers \cup Faulters,
             UninstallCheck(t) \/ UninstallLoad(t) \/ UninstallStore(t)
      PROVE  UNCHANGED Guard!guardVars
  BY <1>1, <1>4, UnseenStep DEF UninstallCheck, UninstallLoad, UninstallStore, LoadStep
<1>5. ASSUME NEW t \in Faulters,
             \/ InterceptingLoad(t) \/ InterceptingStore(t) \/ CollectBacktrace(t)
             \/ ChainLock(t) \/ ChainUnlock(t) \/ LeaveLoad(t) \/ LeaveStore(t)
      PROVE  UNCHANGED Guard!guardVars
  BY <1>1, <1>5, UnseenStep DEF InterceptingLoad, InterceptingStore,
     CollectBacktrace, ChainLock, ChainUnlock, LeaveLoad, LeaveStore, Move,
     Acquire, Release, LoadStep
<1>6. ASSUME NEW c \in Callers, StopCall(c) PROVE Guard!Stop
  <2>1. pc'[1] = pc[1] /\ UNCHANGED <<disposition, reports, alive>> /\ alive
    BY <1>1, <1>6 DEF StopCall
  <2>2. Installed' = Installed
    BY <2>1 DEF Installed
  <2>3. GuardState' = GuardState
    BY <1>1, <2>1, <2>2 DEF GuardInv, InstallerPCs
  <2>4. stops' > 0
    BY <1>1, <1>6 DEF StopCall
  <2> QED
    BY <2>1, <2>3, <2>4 DEF Guard!Stop
<1>7. ASSUME NEW c \in Callers, Spawn(c) PROVE Guard!Arm
  <2>1. pc[1] = "none" /\ pc'[1] = "load" /\ UNCHANGED <<reports, stops>>
    BY <1>2, <1>7, SpawnEffect
  <2>2. alive /\ UNCHANGED alive
    BY <1>7 DEF Spawn
  <2> QED
    BY <2>1, <2>2 DEF GuardInv, Guard!Arm
<1>8. ASSUME NEW t \in Callers \cup Faulters, UninstallRestore(t)
      PROVE  Guard!Remove \/ UNCHANGED Guard!guardVars
  <2>1. /\ pc[1] = "end" /\ pc[t] = "restore" /\ pc'[1] = "end"
        /\ UNCHANGED <<reports, stops>>
        /\ stops # 0 \/ reports > 0
    BY <1>1, <1>2, <1>8, RestoreEffect DEF OutcomeInv, UninstallPCs, StopPCs
  <2>2. alive /\ UNCHANGED alive
    BY <1>8 DEF UninstallRestore
  <2>3. ~Installed'
    <3>1. /\ idx[t] \in 1..Len(Observed)
          /\ disposition' = [disposition EXCEPT ![Observed[idx[t]]]
                               = Original[Observed[idx[t]]]]
      BY <1>2, <1>8, RestoreEffect
    <3>2. Observed[idx[t]] \in Signals /\ Original[Observed[idx[t]]] # "agent"
      BY <3>1, SignalsAssumption DEF Signals
    <3> QED
      BY <3>1, <3>2 DEF Installed, TypeInv, TypeOK, DataTypeOK
  <2>4. GuardState \in {"armed", "removed"} /\ GuardState' = "removed"
    BY <2>1, <2>3 DEF GuardInv
  <2>5. CASE GuardState = "armed"
    BY <1>1, <2>1, <2>2, <2>4, <2>5 DEF Guard!Remove
  <2>6. CASE GuardState = "removed"
    BY <2>1, <2>2, <2>4, <2>6 DEF Guard!guardVars
  <2> QED
    BY <2>4, <2>5, <2>6
<1>9. ASSUME NEW k \in Installers, InstallerStep(k)
      PROVE  Guard!Armed \/ UNCHANGED Guard!guardVars
  <2>1. alive /\ UNCHANGED <<reports, stops, alive>>
    BY <1>9 DEF InstallerStep, InitializedLoad, InitializedStore, InstallHandler,
       ResetIntercepting, LoadStep
  <2>2. CASE InitializedLoad(k)
    BY <1>1, <2>1, <2>2 DEF InitializedLoad, LoadStep, GuardInv, Guard!guardVars
  <2>3. CASE InitializedStore(k)
    <3>1. pc[1] = "loadStore" /\ pc'[1] = "install"
      BY <1>1, <1>2, <2>3, InstallStartEffect
    <3> QED
      BY <2>1, <3>1 DEF GuardInv, Guard!guardVars
  <2>4. CASE InstallHandler(k)
    <3>1. pc[1] = "install" /\ pc'[1] \in {"install", "reset"}
      BY <1>1, <2>4, InstallEffect
    <3> QED
      BY <2>1, <3>1 DEF GuardInv, Guard!guardVars, Guard!Armed
  <2>5. CASE ResetIntercepting(k)
    <3>1. pc[1] = "reset" /\ pc'[1] = "end" /\ Installed'
      BY <1>1, <1>2, <2>5 DEF ResetIntercepting, InstallInv, Installed
    <3> QED
      BY <2>1, <3>1 DEF GuardInv, Guard!guardVars
  <2> QED
    BY <1>9, <2>2, <2>3, <2>4, <2>5 DEF InstallerStep
<1>10. ASSUME NEW t \in Faulters, Fault(t) \/ DeliverPending(t)
       PROVE  Guard!Die \/ UNCHANGED Guard!guardVars
  <2>1. pc'[1] = pc[1] /\ UNCHANGED <<disposition, reports, stops>>
    BY <1>1, <1>2, <1>10, DeliveryEffect
  <2>2. PICK s \in Signals : Deliver(t, s)
    BY <1>10 DEF Fault, DeliverPending, TypeInv, TypeOK, DataTypeOK
  <2>3. alive
    BY <1>10 DEF Fault, DeliverPending
  <2>4. CASE UNCHANGED alive
    BY <1>1, <2>1, <2>4, UnseenStep
  <2>5. CASE alive' = FALSE /\ disposition[s] # "agent"
    <3>1. ~Installed /\ ~Installed'
      BY <2>1, <2>5 DEF Installed
    <3>2. pc[1] # "reset"
      BY <1>2, <3>1 DEF InstallInv
    <3>3. GuardState' = GuardState /\ GuardState # "armed"
      BY <1>1, <2>1, <3>1, <3>2 DEF GuardInv, InstallerPCs
    <3> QED
      BY <2>1, <2>3, <2>5, <3>3 DEF Guard!Die
  <2> QED
    BY <2>2, <2>4, <2>5 DEF Deliver
<1>11. ASSUME NEW t \in Faulters, StoreReport(t) PROVE Guard!Report
  <2>1. /\ pc[1] = "end" /\ pc'[1] = "end" /\ reports' = reports + 1
        /\ alive /\ UNCHANGED <<disposition, stops, alive>>
    BY <1>1, <1>2, <1>11 DEF StoreReport, PhaseInv
  <2>2. Installed' = Installed
    BY <2>1 DEF Installed
  <2> QED
    BY <2>1, <2>2 DEF GuardInv, Guard!Report
<1>12. ASSUME NEW t \in Faulters, Chain(t)
       PROVE  Guard!Die \/ UNCHANGED Guard!guardVars
  <2>1. /\ pc[1] = "end" /\ pc'[1] = "end" /\ pc[t] = "chain"
        /\ UNCHANGED <<disposition, reports, stops>>
    BY <1>1, <1>2, <1>12, ChainEffect
  <2>2. alive /\ (UNCHANGED alive \/ alive' = FALSE)
    BY <1>12 DEF Chain
  <2>3. ~Installed /\ ~Installed'
    <3>1. Back /\ Observed[1] \in Signals /\ Original[Observed[1]] # "agent"
      BY <1>2, <2>1, SignalsAssumption DEF RestoreInv, Signals
    <3> QED
      BY <2>1, <3>1 DEF Back, Installed
  <2>4. GuardState = "removed" /\ GuardState' = "removed"
    BY <2>1, <2>3 DEF GuardInv
  <2> QED
    BY <2>1, <2>2, <2>4 DEF Guard!Die, Guard!guardVars
<1>13. CASE UNCHANGED vars
  BY <1>1, <1>13, UnseenStep DEF vars, local
<1> QED
  BY <1>3, <1>4, <1>5, <1>6, <1>7, <1>8, <1>9, <1>10, <1>11, <1>12, <1>13
  DEF Next, Rest, CallerStep, InterceptorStep, Uninstall, Guard!Next

\* A session of the signal handler keeps the promise of CrashGuard, on which the
\* rest of the agent builds: the observers stand until a report is written or a
\* stop is called, and the process does not die under them
\* (signal-handler.cpp:76-85).
THEOREM SessionIsGuard ==
    ASSUME OneSession
    PROVE  Spec => GuardSpec
<1>1. Init => Guard!Init
  <2>1. ASSUME Init PROVE GuardState = "off"
    <3>1. \A k \in Installers : pc[k] = "none"
      BY <2>1, ThreadsAssumption DEF Init, Threads, Installers
    <3>2. Observed[1] \in Signals /\ Original[Observed[1]] # "agent"
      BY SignalsAssumption DEF Signals
    <3> QED
      BY <2>1, <3>1, <3>2 DEF GuardState, Installed, Init
  <2> QED
    BY <2>1 DEF Init, Guard!Init
<1>2. TypeInv /\ SessionInv => GuardInv
  BY GuardPhases
<1>3. TypeInv /\ SessionInv /\ GuardInv /\ GuardInv' /\ [Next]_vars
          => [Guard!Next]_(Guard!guardVars)
  BY GuardStep
<1> QED
  BY <1>1, <1>2, <1>3, TypeInvariant, SessionInvariant, PTL
  DEF Spec, GuardSpec, Guard!Spec

\* dealloc never frees a stack twice, on any path and under any interleaving.
THEOREM StackNotDangling == Spec => []NoDanglingStack
<1>1. Init => NoDanglingStack
  BY DEF Init, NoDanglingStack
<1>2. ASSUME NoDanglingStack, [Next]_vars PROVE NoDanglingStack'
  <2> USE DEF NoDanglingStack, memory, world
  <2>1. ASSUME NEW c \in Callers, InitLock(c) \/ StopCall(c) PROVE NoDanglingStack'
    BY <1>2, <2>1 DEF InitLock, StopCall
  <2>2. ASSUME NEW t \in Faulters, Fault(t) \/ DeliverPending(t) PROVE NoDanglingStack'
    BY <1>2, <2>2 DEF Fault, DeliverPending, Deliver
  <2>3. ASSUME NEW c \in Callers, SetSigstack(c) \/ SetSigstackFails(c)
        PROVE NoDanglingStack'
    BY <1>2, <2>3 DEF SetSigstack, SetSigstackFails
  <2>4. ASSUME NEW c \in Callers, Dealloc(c) PROVE NoDanglingStack'
    BY <1>2, <2>4 DEF Dealloc
  <2>5. ASSUME NEW c \in Callers,
               Spawn(c) \/ SpawnFails(c) \/ InitUnlock(c) \/ StopLock(c) \/ StopUnlock(c)
        PROVE NoDanglingStack'
    BY <1>2, <2>5 DEF Spawn, SpawnFails, Move, InitUnlock, StopLock, Acquire, StopUnlock
  <2>6. ASSUME NEW t \in Callers \cup Faulters, Uninstall(t) PROVE NoDanglingStack'
    BY <1>2, <2>6 DEF Uninstall, UninstallCheck, UninstallRestore, UninstallLoad,
       UninstallStore, LoadStep
  <2>7. ASSUME NEW k \in Installers, InstallerStep(k) PROVE NoDanglingStack'
    BY <1>2, <2>7 DEF InstallerStep, InitializedLoad, InitializedStore,
       InstallHandler, ResetIntercepting, LoadStep
  <2>8. ASSUME NEW t \in Faulters,
               \/ InterceptingLoad(t) \/ InterceptingStore(t) \/ CollectBacktrace(t)
               \/ StoreReport(t) \/ ChainLock(t) \/ Chain(t) \/ ChainUnlock(t)
               \/ LeaveLoad(t) \/ LeaveStore(t)
        PROVE NoDanglingStack'
    BY <1>2, <2>8 DEF InterceptingLoad, InterceptingStore, CollectBacktrace, Move,
       StoreReport, ChainLock, Acquire, Chain, ChainUnlock, Release, LeaveLoad,
       LeaveStore, LoadStep
  <2>9. CASE UNCHANGED vars
    BY <1>2, <2>9 DEF vars
  <2> QED
    BY <1>2, <2>1, <2>2, <2>3, <2>4, <2>5, <2>6, <2>7, <2>8, <2>9
    DEF Next, Rest, CallerStep, InterceptorStep
<1> QED
  BY <1>1, <1>2, PTL DEF Spec

-----------------------------------------------------------------------------
(* The signal stack of one session                                         *)

\* There is one stack at most, the one that _stack points to, and a call that
\* allocates or has freed it keeps the others out.
StackInv ==
    /\ heap \subseteq {stack}
    /\ starts = 0 => heap = {}
    /\ \A c \in Callers : pc[c] \in {"initStack", "stopUnlock"} => heap = {}
    /\ lastCall = "stopped" /\ (\A c \in Callers : pc[c] \notin {"initSpawn", "initUnlock"})
           => heap = {}

LEMMA StackStep ==
    ASSUME MaxStarts = 1, TypeInv, MutexInv, StackInv, [Next]_vars
    PROVE  StackInv'
<1>1. /\ pc \in [Threads -> CallerPCs \cup UninstallPCs
                              \cup InstallerPCs \cup FaulterPCs]
      /\ Callers \subseteq Threads /\ Faulters \subseteq Threads
      /\ Callers \cap (Faulters \cup Installers) = {}
      /\ starts \in {0, 1}
  BY ThreadsAssumption DEF TypeInv, TypeOK, PcTypeOK, DataTypeOK, Threads, Installers
<1> USE <1>1 DEF StackInv, At, Goto, memory, done, world
<1>2. ASSUME NEW c \in Callers, InitLock(c) PROVE StackInv'
  <2>1. starts = 0 /\ starts' = 1
    BY <1>2 DEF InitLock
  <2> QED
    BY <1>2, <2>1 DEF InitLock
<1>3. ASSUME NEW c \in Callers, StopCall(c) \/ StopLock(c) PROVE StackInv'
  BY <1>3 DEF StopCall, StopLock, Acquire
<1>4. ASSUME NEW c \in Callers, SetSigstack(c) PROVE StackInv'
  <2>1. starts # 0
    BY <1>4 DEF SetSigstack, TypeInv, StartCounted, Installers
  <2>2. \A d \in Callers : d # c => pc[d] \notin {"initStack", "stopUnlock"}
    BY <1>4 DEF SetSigstack, MutexInv, Critical
  <2> QED
    BY <1>4, <2>1, <2>2 DEF SetSigstack
<1>5. ASSUME NEW c \in Callers, SetSigstackFails(c) PROVE StackInv'
  <2>1. starts # 0 /\ heap = {}
    BY <1>5 DEF SetSigstackFails, TypeInv, StartCounted, Installers
  <2>2. \A d \in Callers : d # c => pc[d] \notin {"initStack", "stopUnlock"}
    BY <1>5 DEF SetSigstackFails, MutexInv, Critical
  <2> QED
    BY <1>5, <2>1, <2>2 DEF SetSigstackFails
<1>6. ASSUME NEW c \in Callers, Spawn(c) PROVE StackInv'
  <2>1. starts \in Installers
    BY <1>6 DEF Spawn, TypeInv, StartCounted
  <2>2. \A d \in Callers : pc'[d] = IF d = c THEN "initUnlock" ELSE pc[d]
    BY <1>6, <2>1 DEF Spawn
  <2> QED
    BY <1>6, <2>2 DEF Spawn
<1>7. ASSUME NEW c \in Callers, SpawnFails(c) \/ InitUnlock(c) PROVE StackInv'
  BY <1>7 DEF SpawnFails, Move, InitUnlock
<1>8. ASSUME NEW c \in Callers, Dealloc(c) PROVE StackInv'
  BY <1>8 DEF Dealloc
<1>9. ASSUME NEW c \in Callers, StopUnlock(c) PROVE StackInv'
  BY <1>9 DEF StopUnlock
<1>10. ASSUME NEW t \in Callers \cup Faulters, Uninstall(t) PROVE StackInv'
  <2>1. /\ UNCHANGED <<stack, heap, starts, lastCall>>
        /\ pc[t] \in UninstallPCs
    BY <1>10 DEF Uninstall, UninstallCheck, UninstallRestore, UninstallLoad, UninstallStore,
       LoadStep, UninstallPCs
  <2>2. \E to \in UninstallPCs \cup {"dealloc", "lock"} : pc' = [pc EXCEPT ![t] = to]
    <3>1. pc = [pc EXCEPT ![t] = pc[t]]
      OBVIOUS
    <3> QED
      BY <1>10, <2>1, <3>1 DEF Uninstall, UninstallCheck, UninstallRestore, UninstallLoad,
         UninstallStore, LoadStep, Round, AfterUninstall, UninstallPCs
  <2> QED
    BY <2>1, <2>2 DEF UninstallPCs
<1>11. ASSUME NEW t \in Faulters \cup Installers, pc' = pc \/ \E to : pc' = [pc EXCEPT ![t] = to],
              UNCHANGED <<stack, heap, starts, lastCall>>
       PROVE  StackInv'
  <2>1. \A c \in Callers : pc'[c] = pc[c]
    BY <1>11
  <2> QED
    BY <1>11, <2>1
<1>12. ASSUME NEW k \in Installers, InstallerStep(k) PROVE StackInv'
  BY <1>11, <1>12 DEF InstallerStep, InitializedLoad, InitializedStore, InstallHandler,
     ResetIntercepting, LoadStep, Round
<1>13. ASSUME NEW t \in Faulters, Fault(t) \/ DeliverPending(t) PROVE StackInv'
  BY <1>11, <1>13 DEF Fault, DeliverPending, Deliver
<1>14. ASSUME NEW t \in Faulters,
              \/ InterceptingLoad(t) \/ InterceptingStore(t) \/ CollectBacktrace(t)
              \/ StoreReport(t) \/ ChainLock(t) \/ Chain(t) \/ ChainUnlock(t)
              \/ LeaveLoad(t) \/ LeaveStore(t)
       PROVE  StackInv'
  BY <1>11, <1>14 DEF InterceptingLoad, InterceptingStore, CollectBacktrace, Move,
     StoreReport, ChainLock, Acquire, Chain, ChainUnlock, Release, LeaveLoad,
     LeaveStore, LoadStep
<1>15. CASE UNCHANGED vars
  BY <1>15 DEF vars, local
<1> QED
  BY <1>2, <1>3, <1>4, <1>5, <1>6, <1>7, <1>8, <1>9, <1>10, <1>12, <1>13, <1>14, <1>15
  DEF Next, Rest, CallerStep, InterceptorStep

\* A process that starts the agent once has no signal stack left after a stop
\* (signal-handler.cpp:186), however the start, the stops of several threads and
\* crashes overlap, and whatever fails.
THEOREM StacksFreedByShutdown ==
    ASSUME MaxStarts = 1
    PROVE  Spec => []StacksFreed
<1>1. Init => StackInv
  BY DEF Init, StackInv
<1>2. TypeInv /\ MutexInv /\ StackInv /\ [Next]_vars => StackInv'
  BY StackStep
<1>3. StackInv => StacksFreed
  BY DEF StackInv, StacksFreed, LifecycleQuiet
<1> QED
  BY <1>1, <1>2, <1>3, TypeInvariant, MutexHeld, PTL DEF Spec

=============================================================================
