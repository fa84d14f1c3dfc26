----------------------- MODULE AgentLifecycleProofs -----------------------
(* Theorems about AgentLifecycle and the components it is made of, for any *)
(* number of threads, contexts, class paths and calls.                     *)
EXTENDS AgentLifecycle, TLAPS

-----------------------------------------------------------------------------
(* What a step of the agent looks like from each of its components         *)

ExceptionMove ==
    \/ UNCHANGED exceptionVars
    \/ \E t \in Threads : \/ Exception!InitializeLock(t) \/ Exception!ShutdownLock(t)
                          \/ Exception!Step(t)

ContextMove ==
    \/ UNCHANGED contextVars
    \/ \E t \in Threads : \/ Context!Step(t)
                          \/ \E c \in Instances : Context!SetContext(t, c)
    \/ Context!OnLoad \/ Context!OnUnload
    \/ /\ Context!BindDelegate
       /\ UNCHANGED <<path, ids, anrMonitorEnabled, found, loaded, arg, contextStep>>

InstanceMove ==
    \/ UNCHANGED instanceVars
    \/ \E t \in Threads : \/ Agent!GetInstance(t) \/ Agent!Step(t)
                          \/ \E c \in Contexts : Agent!Build(t, c)

LEMMA Moves ==
    ASSUME Agent!TypeOK, [Next]_vars
    PROVE  ExceptionMove /\ ContextMove /\ InstanceMove
<1> USE DEF ExceptionMove, ContextMove, InstanceMove
<1>1. ASSUME NEW t \in Threads, NEW c \in Contexts,
             Build(t, c) \/ NativeSetContext(t, c)
      PROVE  ExceptionMove /\ ContextMove /\ InstanceMove
  BY <1>1 DEF Build, LoadLibrary, NativeSetContext, Instances
<1>2. ASSUME NEW t \in Threads, Start(t)
      PROVE  ExceptionMove /\ ContextMove /\ InstanceMove
  <2>1. mine[t] \in Instances
    BY <1>2 DEF Start, Agent!TypeOK, Agent!Instances, Instances
  <2> QED
    BY <1>2, <2>1 DEF Start
<1>3. ASSUME NEW t \in Threads,
             GetInstance(t) \/ Stop(t) \/ Crash(t)
                \/ \E slot \in {"terminate", "unexpected"} : Throw(t, slot)
      PROVE  ExceptionMove /\ ContextMove /\ InstanceMove
  BY <1>3 DEF GetInstance, Stop, Crash, Throw, Fault
<1>4. ASSUME NEW t \in Threads, ExceptionStep(t) \/ ContextStep(t) \/ InstanceStep(t)
      PROVE  ExceptionMove /\ ContextMove /\ InstanceMove
  BY <1>4 DEF ExceptionStep, ContextStep, InstanceStep
<1>5. ASSUME NEW t \in Threads, LifecycleStep(t)
      PROVE  ExceptionMove /\ ContextMove /\ InstanceMove
  BY <1>5 DEF LifecycleStep, StartBind, StartSignals, StartAnr, StartTerminate,
     StopSignals, StopAnr, Joined, StopTerminate, Return, Goto
<1>6. ASSUME NEW t \in Threads, CrashStep(t)
      PROVE  ExceptionMove /\ ContextMove /\ InstanceMove
  BY <1>6 DEF CrashStep, ContextFault, Fault, Intercept, TurnedAway, FileReport,
     CrashUninstall, Survive, Die
<1>7. SignalsArmed \/ Ring \/ FileAnr \/ Unload \/ Rest \/ UNCHANGED vars
          => ExceptionMove /\ ContextMove /\ InstanceMove
  BY DEF SignalsArmed, Ring, FileAnr, Unload, Rest, vars
<1> QED
  BY <1>1, <1>2, <1>3, <1>4, <1>5, <1>6, <1>7 DEF Next, Step, CallStep

-----------------------------------------------------------------------------
(* The components keep their types                                         *)

LEMMA ExceptionType ==
    ASSUME Exception!TypeOK, ExceptionMove
    PROVE  Exception!TypeOK'
<1> USE LifecycleAssumption DEF Exception!TypeOK, Exception!Slots, Exception!Handlers
<1>1. CASE UNCHANGED exceptionVars
  BY <1>1 DEF exceptionVars
<1>2. ASSUME NEW t \in Threads, Exception!InitializeLock(t) \/ Exception!ShutdownLock(t)
      PROVE  Exception!TypeOK'
  BY <1>2 DEF Exception!InitializeLock, Exception!ShutdownLock, Exception!Enter,
     Exception!Goto
<1>3. ASSUME NEW t \in Threads, Exception!Step(t)
      PROVE  Exception!TypeOK'
  <2>1. CASE Exception!SetTerminate(t)
    BY <2>1 DEF Exception!SetTerminate, Exception!Swap, Exception!Goto
  <2>2. CASE Exception!SetUnexpected(t)
    BY <2>2 DEF Exception!SetUnexpected, Exception!Swap, Exception!Goto
  <2>3. CASE Exception!ResetTerminate(t)
    BY <2>3 DEF Exception!ResetTerminate, Exception!Runtime, Exception!Goto
  <2>4. CASE Exception!ResetUnexpected(t)
    BY <2>4 DEF Exception!ResetUnexpected, Exception!Runtime, Exception!Goto
  <2> QED
    BY <1>3, <2>1, <2>2, <2>3, <2>4 DEF Exception!Step
<1> QED
  BY <1>1, <1>2, <1>3 DEF ExceptionMove

LEMMA InstanceType ==
    ASSUME Agent!TypeOK, InstanceMove
    PROVE  Agent!TypeOK'
<1> USE LifecycleAssumption DEF Agent!TypeOK, Agent!Instances, Instances, Agent!Goto
<1>1. CASE UNCHANGED instanceVars
  BY <1>1 DEF instanceVars
<1>2. ASSUME NEW t \in Threads, NEW c \in Contexts, Agent!Build(t, c)
      PROVE  Agent!TypeOK'
  BY <1>2 DEF Agent!Build
<1>3. ASSUME NEW t \in Threads, Agent!GetInstance(t)
      PROVE  Agent!TypeOK'
  BY <1>3 DEF Agent!GetInstance
<1>4. ASSUME NEW t \in Threads, Agent!Read(t)
      PROVE  Agent!TypeOK'
  BY <1>4 DEF Agent!Read
<1>5. ASSUME NEW t \in Threads, Agent!Lock(t)
      PROVE  Agent!TypeOK'
  BY <1>5 DEF Agent!Lock
<1>6. ASSUME NEW t \in Threads, Agent!Store(t)
      PROVE  Agent!TypeOK'
  BY <1>6 DEF Agent!Store
<1> QED
  BY <1>1, <1>2, <1>3, <1>4, <1>5, <1>6 DEF InstanceMove, Agent!Step

\* What is copied from a context is a text of one.
LEMMA TextType ==
    ASSUME Context!TypeOK, NEW t \in Threads,
           NEW f \in {"reportsDir", "sessionId", "buildId"}
    PROVE  Context!Text(t, f) \in Context!Texts(f)
  BY DEF Context!TypeOK, Context!Text, Context!EnvGetText, Context!Texts

LEMMA ContextType ==
    ASSUME Context!TypeOK, ContextMove
    PROVE  Context!TypeOK'
<1> USE LifecycleAssumption DEF Context!TypeOK, Context!Ids
<1>1. CASE UNCHANGED contextVars
  BY <1>1 DEF contextVars, Context!Texts
<1>2. ASSUME NEW t \in Threads, NEW c \in Instances, Context!SetContext(t, c)
      PROVE  Context!TypeOK'
  BY <1>2 DEF Context!SetContext, Context!fields, Context!bound, Context!Texts
<1>3. ASSUME NEW t \in Threads, Context!Step(t)
      PROVE  Context!TypeOK'
  <2>1. CASE Context!CopyHead(t)
    <3>1. path' \in Context!Texts("reportsDir") \X Context!Texts("reportsDir")
      BY <2>1, TextType DEF Context!CopyHead
    <3> QED
      BY <2>1, <3>1 DEF Context!CopyHead, Context!bound
  <2>2. CASE Context!CopyTail(t)
    <3>1. path' \in Context!Texts("reportsDir") \X Context!Texts("reportsDir")
      BY <2>2, TextType DEF Context!CopyTail
    <3> QED
      BY <2>2, <3>1 DEF Context!CopyTail, Context!bound
  <2>3. CASE Context!CopyFlag(t)
    <3>1. arg[t] \in Instances
      BY <2>3 DEF Context!CopyFlag
    <3> QED
      BY <2>3, <3>1 DEF Context!CopyFlag, Context!bound
  <2>4. ASSUME NEW f \in Context!Ids, NEW to \in {"buildId", "anrMonitor"},
               Context!CopyId(t, f, to)
        PROVE  Context!TypeOK'
    <3>1. Context!Text(t, f) \in Context!Texts(f)
      BY TextType
    <3>2. DOMAIN ids' = Context!Ids /\ \A g \in Context!Ids : ids'[g] \in Context!Texts(g)
      BY <2>4, <3>1 DEF Context!CopyId
    <3> QED
      BY <2>4, <3>2 DEF Context!CopyId, Context!bound
  <2>5. ASSUME NEW at \in {"head", "sessionId", "buildId"}, NEW f,
               Context!CopyNull(t, at, f)
        PROVE  Context!TypeOK'
    BY <2>5 DEF Context!CopyNull, Context!fields, Context!bound
  <2> QED
    BY <1>3, <2>1, <2>2, <2>3, <2>4, <2>5 DEF Context!Step
<1>4. ASSUME Context!BindDelegate,
             UNCHANGED <<path, ids, anrMonitorEnabled, found, arg, contextStep>>,
             loaded' \in {"never", "loaded", "unloaded"}
      PROVE  Context!TypeOK'
  <2>1. delegate' \in Nat \cup {Null} /\ refs' \in Nat
    BY <1>4 DEF Context!BindDelegate, Context!EnvNew
  <2>2. methods' \in [1..3 -> BOOLEAN]
    <3> DEFINE Has(i) == Context!EnvGetId(Context!EnvFind("JVMDelegate"),
                                          Context!Methods[i]) # Null
               New(i) == IF \A j \in 1..(i - 1) : Has(j) THEN Has(i) ELSE methods[i]
    <3>1. methods' = methods \/ methods' = [i \in 1..3 |-> New(i)]
      BY <1>4 DEF Context!BindDelegate
    <3>2. \A i \in 1..3 : New(i) \in BOOLEAN
      <4> HIDE DEF Has
      <4>1. \A i \in 1..3 : Has(i) \in BOOLEAN
        BY DEF Has
      <4> QED
        BY <4>1
    <3> HIDE DEF New
    <3> QED
      BY <3>1, <3>2
  <2>3. initialized' \in BOOLEAN
    BY <1>4 DEF Context!BindDelegate
  <2> QED
    BY <1>4, <2>1, <2>2, <2>3
<1>5. CASE Context!OnLoad
  BY <1>4, <1>5 DEF Context!OnLoad, Context!fields
<1>6. CASE Context!OnUnload
  BY <1>6 DEF Context!OnUnload, Context!ReleaseContext, Context!ReleaseDelegate,
     Context!fields, Context!bound
<1> QED
  BY <1>1, <1>2, <1>3, <1>4, <1>5, <1>6 DEF ContextMove

LEMMA LocalType ==
    ASSUME TypeOK, [Next]_vars
    PROVE  LocalTypeOK'
<1> USE LifecycleAssumption
    DEF LocalTypeOK, Starting, Stopping, Crashing, Calls, Goto, Call, guardVars,
        anrVars, crashVars
<1>1. LocalTypeOK /\ Agent!TypeOK /\ Context!TypeOK
  BY DEF TypeOK
<1>2. ASSUME NEW t \in Threads, NEW c \in Contexts, Build(t, c)
      PROVE  LocalTypeOK'
  BY <1>1, <1>2 DEF Build
<1>3. ASSUME NEW t \in Threads, NEW c \in Contexts, NativeSetContext(t, c)
      PROVE  LocalTypeOK'
  BY <1>1, <1>3 DEF NativeSetContext, Instances
<1>4. ASSUME NEW t \in Threads, GetInstance(t) PROVE LocalTypeOK'
  BY <1>1, <1>4 DEF GetInstance
<1>5. ASSUME NEW t \in Threads, mine[t] # Null
      PROVE  mine[t].anrMonitor \in BOOLEAN
  BY <1>1, <1>5 DEF Agent!TypeOK, Agent!Instances, Instances
<1>6. ASSUME NEW t \in Threads, Start(t) PROVE LocalTypeOK'
  BY <1>1, <1>5, <1>6 DEF Start
<1>7. ASSUME NEW t \in Threads, Stop(t) PROVE LocalTypeOK'
  BY <1>1, <1>5, <1>7 DEF Stop, Guard!Stop
<1>8. ASSUME NEW t \in Threads,
             Crash(t) \/ ContextFault(t)
                \/ \E slot \in {"terminate", "unexpected"} : Throw(t, slot)
      PROVE  LocalTypeOK'
  BY <1>1, <1>8 DEF Crash, ContextFault, Throw, Fault, Exception!Outcome
<1>9. ASSUME NEW t \in Threads, ExceptionStep(t) \/ ContextStep(t) \/ InstanceStep(t)
      PROVE  LocalTypeOK'
  BY <1>1, <1>9 DEF ExceptionStep, ContextStep, InstanceStep
<1>10. ASSUME NEW t \in Threads,
              StartBind(t) \/ StartTerminate(t) \/ StopTerminate(t) \/ Return(t)
       PROVE  LocalTypeOK'
  BY <1>1, <1>10 DEF StartBind, StartTerminate, StopTerminate, Return
<1>11. ASSUME NEW t \in Threads, StartSignals(t) \/ StopSignals(t)
       PROVE  LocalTypeOK'
  <2>1. CASE StartSignals(t)
    BY <1>1, <2>1 DEF StartSignals, Guard!Arm
  <2>2. CASE StopSignals(t)
    BY <1>1, <2>2 DEF StopSignals, Uninstall, Guard!Remove
  <2> QED
    BY <1>11, <2>1, <2>2
<1>12. ASSUME NEW t \in Threads, StartAnr(t) \/ StopAnr(t) \/ Joined(t)
       PROVE  LocalTypeOK'
  <2>1. sigquit' \in BOOLEAN
    BY <1>1, <1>12, Zenon DEF StartAnr, StopAnr, Joined
  <2>2. anr' \in {"off", "on", "stranded"}
    BY <1>1, <1>12, Zenon DEF StartAnr, StopAnr, Joined
  <2>3. pc' \in [Threads -> {"idle"} \cup Starting \cup Stopping \cup Crashing]
    BY <1>1, <1>12 DEF StartAnr, StopAnr, Joined
  <2>4. UNCHANGED <<guardVars, ringing, monitor, crashVars, signals, last, calls>>
    BY <1>12, Zenon DEF StartAnr, StopAnr, Joined
  <2> QED
    BY <1>1, <2>1, <2>2, <2>3, <2>4
<1>13. ASSUME NEW t \in Threads, Intercept(t) \/ TurnedAway(t) \/ Survive(t)
       PROVE  LocalTypeOK'
  BY <1>1, <1>13 DEF Intercept, TurnedAway, Survive
<1>14. ASSUME NEW t \in Threads, FileReport(t) \/ CrashUninstall(t) \/ Die(t)
       PROVE  LocalTypeOK'
  <2>1. CASE FileReport(t)
    BY <1>1, <2>1 DEF FileReport, Guard!Report
  <2>2. CASE CrashUninstall(t)
    BY <1>1, <2>2 DEF CrashUninstall, Uninstall, Guard!Remove
  <2>3. CASE Die(t)
    BY <1>1, <2>3 DEF Die, Guard!Die
  <2> QED
    BY <1>14, <2>1, <2>2, <2>3
<1>15. ASSUME SignalsArmed \/ Ring \/ FileAnr \/ Unload \/ UNCHANGED vars
       PROVE  LocalTypeOK'
  <2>1. CASE SignalsArmed
    BY <1>1, <2>1 DEF SignalsArmed, Guard!Armed
  <2>2. CASE Ring
    BY <1>1, <2>2 DEF Ring
  <2>3. CASE FileAnr
    BY <1>1, <2>3 DEF FileAnr
  <2>4. CASE Unload \/ UNCHANGED vars
    BY <1>1, <2>4 DEF Unload, vars
  <2> QED
    BY <1>15, <2>1, <2>2, <2>3, <2>4
<1> QED
  BY <1>2, <1>3, <1>4, <1>6, <1>7, <1>8, <1>9, <1>10, <1>11, <1>12, <1>13,
     <1>14, <1>15
  DEF Next, Step, CallStep, LifecycleStep, CrashStep, Rest

\* The state keeps its types in every interleaving, among them that one thread
\* at most is inside the exception handler's mutex (terminate-handler.cpp:98)
\* and one inside getInstance's monitor (AgentNDK.kt:79).
THEOREM TypeCorrect == Spec => []TypeOK
<1>1. Init => TypeOK
  <2> USE LifecycleAssumption DEF Init
  <2>1. ASSUME Init PROVE Exception!TypeOK
    BY <2>1 DEF Exception!Init, Exception!TypeOK, Exception!Slots, Exception!Handlers
  <2>2. ASSUME Init PROVE Context!TypeOK
    BY <2>2 DEF Context!Init, Context!TypeOK, Context!Texts, Context!Ids
  <2>3. ASSUME Init PROVE Agent!TypeOK
    BY <2>3 DEF Agent!Init, Agent!TypeOK
  <2>4. ASSUME Init PROVE LocalTypeOK
    BY <2>4 DEF LocalTypeOK, Guard!Init, Calls
  <2> QED
    BY <2>1, <2>2, <2>3, <2>4 DEF TypeOK
<1>2. TypeOK /\ [Next]_vars => TypeOK'
  BY Moves, ExceptionType, ContextType, InstanceType, LocalType DEF TypeOK
<1> QED
  BY <1>1, <1>2, PTL DEF Spec

-----------------------------------------------------------------------------
(* The singleton                                                           *)

\* A default instance that was made is never lost from sight, and whoever is
\* about to make one is the first.
DefaultInv ==
    /\ defaults <= 1
    /\ defaults > 0 => agentNdk # Null
    /\ \A t \in Threads : instanceStep[t] = "store" => defaults = 0

\* One default instance at most is made, by however many threads ask for the
\* agent while others build it (AgentNDK.kt:79-81 and 244).
THEOREM DefaultOnce == Spec => []OneDefault
<1>1. Init => DefaultInv
  BY DEF Init, Agent!Init, DefaultInv
<1>2. TypeOK /\ DefaultInv /\ [Next]_vars => DefaultInv'
  <2> SUFFICES ASSUME Agent!TypeOK, DefaultInv, InstanceMove PROVE DefaultInv'
    BY Moves DEF TypeOK
  <2> USE LifecycleAssumption DEF Agent!TypeOK, DefaultInv, Agent!Instances, Instances,
      Agent!Goto
  <2>1. CASE UNCHANGED instanceVars
    BY <2>1 DEF instanceVars
  <2>2. ASSUME NEW t \in Threads,
               Agent!GetInstance(t) \/ \E c \in Contexts : Agent!Build(t, c)
        PROVE  DefaultInv'
    BY <2>2 DEF Agent!GetInstance, Agent!Build
  <2>3. ASSUME NEW t \in Threads, Agent!Read(t) PROVE DefaultInv'
    BY <2>3 DEF Agent!Read
  <2>4. ASSUME NEW t \in Threads, Agent!Lock(t) PROVE DefaultInv'
    BY <2>4 DEF Agent!Lock
  <2>5. ASSUME NEW t \in Threads, Agent!Store(t) PROVE DefaultInv'
    BY <2>5 DEF Agent!Store
  <2> QED
    BY <2>1, <2>2, <2>3, <2>4, <2>5 DEF InstanceMove, Agent!Step
<1>3. DefaultInv => OneDefault
  BY DEF DefaultInv, OneDefault
<1> QED
  BY <1>1, <1>2, <1>3, TypeCorrect, PTL DEF Spec
=============================================================================
