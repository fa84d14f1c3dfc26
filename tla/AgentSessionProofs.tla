------------------------- MODULE AgentSessionProofs -------------------------
(* Theorems about whole sessions of AgentLifecycle: where the reports of a *)
(* started agent go, and what a stopped one has given back.                *)
EXTENDS AgentLifecycleProofs

-----------------------------------------------------------------------------
(* One thread at a time starts or stops the agent                          *)

Active == Starting \cup Stopping

\* Until the one start has come past the signal handler every handler is off,
\* and the thread that starts has copied its context before it goes on.
SessionInv ==
    /\ \A t, u \in Threads : pc[t] \in Active /\ pc[u] \in Active => t = u
    /\ \A t \in Threads :
           /\ pc[t] \in {"bind", "signals"} => signals = "none"
           /\ pc[t] \in {"anr", "terminate", "started"} => signals # "none"
           /\ pc[t] \in Active \ {"bind"} => contextStep[t] = "out"
    /\ signals = "none" => guard = "off" /\ anr = "off" /\ ~sigquit /\ ~ringing

\* A step of set_native_context moves one thread, which is inside of it.
LEMMA CopyMoves ==
    ASSUME Context!TypeOK, NEW t \in Threads, Context!Step(t)
    PROVE  /\ contextStep[t] # "out"
           /\ \A u \in Threads \ {t} : contextStep'[u] = contextStep[u] /\ arg'[u] = arg[u]
<1> USE DEF Context!TypeOK
<1>1. CASE Context!CopyHead(t) \/ Context!CopyTail(t) \/ Context!CopyFlag(t)
  BY <1>1 DEF Context!CopyHead, Context!CopyTail, Context!CopyFlag
<1>2. ASSUME NEW f \in Context!Ids, NEW to, Context!CopyId(t, f, to)
      PROVE  /\ contextStep[t] # "out"
             /\ \A u \in Threads \ {t} : contextStep'[u] = contextStep[u] /\ arg'[u] = arg[u]
  BY <1>2 DEF Context!CopyId, Context!Ids
<1>3. ASSUME NEW at \in {"head", "sessionId", "buildId"}, NEW f, Context!CopyNull(t, at, f)
      PROVE  /\ contextStep[t] # "out"
             /\ \A u \in Threads \ {t} : contextStep'[u] = contextStep[u] /\ arg'[u] = arg[u]
  BY <1>3 DEF Context!CopyNull
<1> QED
  BY <1>1, <1>2, <1>3 DEF Context!Step, Context!Ids

\* What the steps that only run the components leave alone.
Steady == UNCHANGED <<guard, stopping, anr, sigquit, ringing, signals, pc, filed, last,
                      calls["stop"]>>

\* The steps outside of start, stop and crashes.
LEMMA SteadyMoves ==
    ASSUME LocalTypeOK, NEW t \in Threads,
           \/ \E c \in Contexts : Build(t, c)
           \/ GetInstance(t) \/ ExceptionStep(t) \/ ContextStep(t) \/ InstanceStep(t)
           \/ Die(t)
    PROVE  Steady
  BY DEF LocalTypeOK, Steady, Build, GetInstance, ExceptionStep, ContextStep,
     InstanceStep, Die, Guard!Die, Call, Calls, guardVars, anrVars, crashVars

LEMMA SteadyRest ==
    ASSUME Unload \/ UNCHANGED vars
    PROVE  Steady /\ UNCHANGED <<path, ids, arg, contextStep, exceptionVars>>
  BY DEF Steady, Unload, Context!OnUnload, Context!fields, vars, guardVars, contextVars,
     anrVars, crashVars

LEMMA SessionStep ==
    ASSUME TypeOK, SessionInv, [Next]_vars
    PROVE  SessionInv'
<1> USE DEF SessionInv, Active, Starting, Stopping, Goto, guardVars, contextVars, anrVars
<1>1. LocalTypeOK /\ Context!TypeOK
  BY DEF TypeOK
<1>2. /\ pc \in [Threads -> {"idle"} \cup Starting \cup Stopping \cup Crashing]
      /\ DOMAIN contextStep = Threads
  BY <1>1 DEF LocalTypeOK, Context!TypeOK
<1>3. ASSUME NEW t \in Threads,
             \/ \E c \in Contexts : Build(t, c)
             \/ GetInstance(t) \/ ExceptionStep(t) \/ InstanceStep(t) \/ Die(t)
      PROVE  SessionInv'
  <2>1. Steady
    BY <1>1, <1>3, SteadyMoves
  <2>2. UNCHANGED contextStep
    BY <1>3 DEF Build, LoadLibrary, Context!OnLoad, GetInstance, ExceptionStep,
       InstanceStep, Die
  <2> QED
    BY <2>1, <2>2 DEF Steady
<1>4. ASSUME NEW t \in Threads, ContextStep(t) PROVE SessionInv'
  <2>1. Steady
    BY <1>1, <1>4, SteadyMoves
  <2>2. /\ contextStep[t] # "out"
        /\ \A u \in Threads \ {t} : contextStep'[u] = contextStep[u]
    BY <1>1, <1>4, CopyMoves DEF ContextStep
  <2> QED
    BY <2>1, <2>2 DEF Steady
<1>5. ASSUME NEW t \in Threads, NEW c \in Contexts, NativeSetContext(t, c)
      PROVE  SessionInv'
  BY <1>2, <1>5 DEF NativeSetContext, Call, Idle, Context!SetContext
<1>6. ASSUME NEW t \in Threads, Start(t) PROVE SessionInv'
  BY <1>2, <1>6 DEF Start, Call, Idle, Settled, Context!SetContext
<1>7. ASSUME NEW t \in Threads, Stop(t) PROVE SessionInv'
  BY <1>2, <1>7 DEF Stop, Call, Idle, Settled, Context!Out, Guard!Stop
<1>8. ASSUME NEW t \in Threads,
             \/ Crash(t) \/ ContextFault(t)
             \/ \E slot \in {"terminate", "unexpected"} : Throw(t, slot)
      PROVE  SessionInv'
  BY <1>2, <1>8 DEF Crash, ContextFault, Throw, Fault
<1>9. ASSUME NEW t \in Threads, StartBind(t) PROVE SessionInv'
  BY <1>2, <1>9 DEF StartBind, Context!Out
<1>10. ASSUME NEW t \in Threads, StartSignals(t) PROVE SessionInv'
  <2>1. /\ pc[t] = "signals" /\ pc' = [pc EXCEPT ![t] = "anr"]
        /\ signals' # "none" /\ UNCHANGED contextStep
    BY <1>10 DEF StartSignals
  <2> QED
    BY <1>2, <2>1
<1>11. ASSUME NEW t \in Threads, StopSignals(t) \/ CrashUninstall(t) PROVE SessionInv'
  BY <1>2, <1>11 DEF StopSignals, CrashUninstall, Uninstall, Guard!Remove
<1>12. ASSUME NEW t \in Threads,
              StartTerminate(t) \/ StopTerminate(t) \/ Joined(t) \/ Return(t)
       PROVE  SessionInv'
  BY <1>2, <1>12 DEF StartTerminate, StopTerminate, Joined, Return
<1>13. ASSUME NEW t \in Threads, StartAnr(t) PROVE SessionInv'
  <2>1. /\ pc[t] = "anr" /\ pc' = [pc EXCEPT ![t] = "terminate"]
        /\ UNCHANGED <<signals, contextStep>>
    BY <1>13 DEF StartAnr
  <2> QED
    BY <1>2, <2>1
<1>14. ASSUME NEW t \in Threads, StopAnr(t) PROVE SessionInv'
  BY <1>2, <1>14 DEF StopAnr
<1>15. ASSUME NEW t \in Threads, Intercept(t) \/ TurnedAway(t) \/ Survive(t)
       PROVE  SessionInv'
  BY <1>2, <1>15 DEF Intercept, TurnedAway, Survive
<1>16. ASSUME NEW t \in Threads, FileReport(t) PROVE SessionInv'
  BY <1>2, <1>16 DEF FileReport, Guard!Report
<1>17. ASSUME Ring \/ FileAnr PROVE SessionInv'
  BY <1>17 DEF Ring, FileAnr
<1>18. ASSUME SignalsArmed PROVE SessionInv'
  BY <1>18 DEF SignalsArmed, Guard!Armed
<1>19. ASSUME Unload \/ UNCHANGED vars PROVE SessionInv'
  BY <1>19, SteadyRest DEF Steady
<1> QED
  BY <1>3, <1>4, <1>5, <1>6, <1>7, <1>8, <1>9, <1>10, <1>11, <1>12, <1>13, <1>14, <1>15,
     <1>16, <1>17, <1>18, <1>19
  DEF Next, Step, CallStep, LifecycleStep, CrashStep, Rest

\* One thread at a time starts or stops the agent, and nothing is on before the
\* start has come past the signal handler (agent-ndk.cpp:53-79).
THEOREM SessionInvariant == Spec => []SessionInv
<1>1. Init => SessionInv
  BY DEF Init, Guard!Init, SessionInv, Active, Starting, Stopping
<1>2. TypeOK /\ SessionInv /\ [Next]_vars => SessionInv'
  BY SessionStep
<1> QED
  BY <1>1, <1>2, TypeCorrect, PTL DEF Spec

-----------------------------------------------------------------------------
(* Where the reports go                                                    *)

\* A default instance has a directory of its own, but its context is never
\* copied past the session it does not name: only a thread that is starting the
\* agent, or one that faulted, has it in hand.
CopyInv ==
    \A t \in Threads :
        /\ contextStep[t] = "tail" => arg[t].reportsDir # Null
        /\ arg[t] \notin Contexts \cup {Null} =>
               \/ contextStep[t] = "fault"
               \/ contextStep[t] \in {"head", "tail", "sessionId"} /\ pc[t] = "bind"

\* What the context holds of directory d, once a thread has come as far as `at`.
Copied(at, d) ==
    /\ at \in {"tail", "sessionId", "buildId", "anrMonitor", "out"} => path[1] = d
    /\ at \in {"sessionId", "buildId", "anrMonitor", "out"} => path[2] = d
    /\ at \in {"buildId", "anrMonitor", "out"} => ids["sessionId"] # Null
    /\ at \in {"anrMonitor", "out"} => ids["buildId"] # Null

\* d is the one directory of the application.
OnlyDir(d) == \A c \in Contexts : c.reportsDir \in {d, Null}

\* A thread that starts the agent has copied what it went past, and nobody
\* undoes that; from then on the context is whole.
HomeInv(d) ==
    /\ \A t \in Threads :
           pc[t] = "bind" /\ arg[t] \in Contexts \cup {Null} => Copied(contextStep[t], d)
    /\ signals # "none" \/ (\E t \in Threads : pc[t] = "signals") => Copied("out", d)
    /\ \A r \in filed : r.dir = <<d, d>> /\ \A f \in Context!Ids : r.ids[f] # Null

LEMMA CopyStep ==
    ASSUME TypeOK, CopyInv, [Next]_vars
    PROVE  CopyInv'
<1> USE LifecycleAssumption DEF CopyInv, Goto
<1>1. LocalTypeOK /\ Context!TypeOK
  BY DEF TypeOK
<1>2. /\ pc \in [Threads -> {"idle"} \cup Starting \cup Stopping \cup Crashing]
      /\ DOMAIN contextStep = Threads
      /\ arg \in [Threads -> Instances \cup {Null}]
      /\ \A t \in Threads : arg[t] = Null <=> contextStep[t] = "out"
  BY <1>1 DEF LocalTypeOK, Context!TypeOK
<1>3. ASSUME NEW t \in Threads,
             \/ \E c \in Contexts : Build(t, c)
             \/ GetInstance(t) \/ ExceptionStep(t) \/ InstanceStep(t) \/ Die(t)
      PROVE  CopyInv'
  <2>1. UNCHANGED pc
    BY <1>1, <1>3, SteadyMoves DEF Steady
  <2>2. UNCHANGED <<arg, contextStep>>
    BY <1>3 DEF Build, LoadLibrary, Context!OnLoad, GetInstance, ExceptionStep,
       InstanceStep, Die, contextVars
  <2> QED
    BY <2>1, <2>2
<1>4. ASSUME NEW t \in Threads, ContextStep(t) PROVE CopyInv'
  <2>1. UNCHANGED pc
    BY <1>4 DEF ContextStep
  <2>2. \A u \in Threads \ {t} : contextStep'[u] = contextStep[u] /\ arg'[u] = arg[u]
    BY <1>1, <1>4, CopyMoves DEF ContextStep
  <2>3. /\ contextStep'[t] = "tail" => arg'[t].reportsDir # Null
        /\ arg'[t] \notin Contexts \cup {Null} =>
               \/ contextStep'[t] = "fault"
               \/ contextStep'[t] \in {"head", "tail", "sessionId"} /\ pc[t] = "bind"
    <3> USE DEF Context!Text, Context!EnvGetText
    <3>1. CASE Context!CopyHead(t)
      BY <1>2, <3>1 DEF Context!CopyHead
    <3>2. CASE Context!CopyTail(t)
      BY <1>2, <3>2 DEF Context!CopyTail
    <3>3. CASE Context!CopyFlag(t)
      BY <1>2, <3>3 DEF Context!CopyFlag
    <3>4. CASE Context!CopyId(t, "sessionId", "buildId")
      BY <1>2, <3>4 DEF Context!CopyId, Instances
    <3>5. CASE Context!CopyId(t, "buildId", "anrMonitor")
      BY <1>2, <3>5 DEF Context!CopyId
    <3>6. ASSUME NEW at, NEW f, Context!CopyNull(t, at, f)
          PROVE  contextStep'[t] = "fault"
      BY <1>2, <3>6 DEF Context!CopyNull
    <3> QED
      BY <1>4, <3>1, <3>2, <3>3, <3>4, <3>5, <3>6 DEF ContextStep, Context!Step
  <2> QED
    BY <2>1, <2>2, <2>3
<1>5. ASSUME NEW t \in Threads, NEW c \in Contexts, NativeSetContext(t, c)
      PROVE  CopyInv'
  BY <1>2, <1>5 DEF NativeSetContext, Context!SetContext
<1>6. ASSUME NEW t \in Threads, Start(t) PROVE CopyInv'
  BY <1>2, <1>6 DEF Start, Call, Idle, Context!SetContext, contextVars
<1>7. ASSUME NEW t \in Threads, NEW to, pc' = [pc EXCEPT ![t] = to],
             pc[t] # "bind" \/ contextStep[t] \in {"out", "fault"},
             UNCHANGED <<arg, contextStep>>
      PROVE  CopyInv'
  BY <1>2, <1>7
<1>8. ASSUME NEW t \in Threads,
             \/ Crash(t) \/ ContextFault(t) \/ Stop(t)
             \/ \E slot \in {"terminate", "unexpected"} : Throw(t, slot)
      PROVE  CopyInv'
  BY <1>7, <1>8 DEF Crash, ContextFault, Throw, Fault, Stop, Call, Idle, contextVars
<1>9. ASSUME NEW t \in Threads, LifecycleStep(t) PROVE CopyInv'
  BY <1>7, <1>9 DEF LifecycleStep, StartBind, StartSignals, StartAnr, StartTerminate,
     StopSignals, StopAnr, Joined, StopTerminate, Return, Context!Out, contextVars
<1>10. ASSUME NEW t \in Threads,
              \/ Intercept(t) \/ TurnedAway(t) \/ Survive(t) \/ FileReport(t)
              \/ CrashUninstall(t)
       PROVE  CopyInv'
  BY <1>7, <1>10 DEF Intercept, TurnedAway, Survive, FileReport, CrashUninstall, contextVars
<1>11. ASSUME SignalsArmed \/ Ring \/ FileAnr PROVE CopyInv'
  BY <1>11 DEF SignalsArmed, Ring, FileAnr, contextVars
<1>12. ASSUME Unload \/ UNCHANGED vars PROVE CopyInv'
  BY <1>12, SteadyRest DEF Steady
<1> QED
  BY <1>3, <1>4, <1>5, <1>6, <1>8, <1>9, <1>10, <1>11, <1>12
  DEF Next, Step, CallStep, CrashStep, Rest

\* Copying a context of the application over what is there leaves the directory
\* whole and the ids set, and brings what the copying thread went past.
LEMMA CopyKeeps ==
    ASSUME Context!TypeOK, CopyInv, NEW d, OnlyDir(d), NEW t \in Threads, Context!Step(t),
           arg[t] \in Contexts
    PROVE  /\ \A at : Copied(at, d) => Copied(at, d)'
           /\ Copied(contextStep[t], d) => Copied(contextStep[t], d)'
<1> DEFINE Goal == /\ \A at : Copied(at, d) => Copied(at, d)'
                   /\ Copied(contextStep[t], d) => Copied(contextStep[t], d)'
<1> USE LifecycleAssumption DEF Copied, Context!Text, Context!EnvGetText
<1>1. /\ DOMAIN contextStep = Threads /\ arg[t] # Null
      /\ DOMAIN path = 1..2
      /\ DOMAIN ids = {"sessionId", "buildId"}
  BY DEF Context!TypeOK, Context!Ids, Instances
<1>2. ASSUME arg[t].reportsDir # Null PROVE arg[t].reportsDir = d
  BY <1>2 DEF OnlyDir
<1>3. CASE Context!CopyHead(t)
  BY <1>1, <1>2, <1>3 DEF Context!CopyHead
<1>4. CASE Context!CopyTail(t)
  BY <1>1, <1>2, <1>4 DEF Context!CopyTail, CopyInv
<1>5. CASE Context!CopyFlag(t)
  BY <1>1, <1>5 DEF Context!CopyFlag
<1>6. CASE Context!CopyId(t, "sessionId", "buildId")
  BY <1>1, <1>6 DEF Context!CopyId
<1>7. CASE Context!CopyId(t, "buildId", "anrMonitor")
  BY <1>1, <1>7 DEF Context!CopyId
<1>8. ASSUME NEW at, NEW f, Context!CopyNull(t, at, f) PROVE Goal
  BY <1>1, <1>8 DEF Context!CopyNull, Context!fields
<1> QED
  BY <1>3, <1>4, <1>5, <1>6, <1>7, <1>8 DEF Context!Step

LEMMA HomeStep ==
    ASSUME TypeOK, SessionInv, CopyInv, NEW d, OnlyDir(d), HomeInv(d), [Next]_vars
    PROVE  HomeInv(d)'
<1>1. LocalTypeOK /\ Context!TypeOK
  BY DEF TypeOK
<1>2. /\ pc \in [Threads -> {"idle"} \cup Starting \cup Stopping \cup Crashing]
      /\ DOMAIN contextStep = Threads
      /\ arg \in [Threads -> Instances \cup {Null}]
      /\ \A t \in Threads : arg[t] = Null <=> contextStep[t] = "out"
  BY <1>1 DEF LocalTypeOK, Context!TypeOK
<1>3. ASSUME UNCHANGED <<signals, pc, filed, path, ids, arg, contextStep>>
      PROVE  HomeInv(d)'
  BY <1>3 DEF HomeInv, Copied
<1>4. ASSUME NEW t \in Threads,
             \/ \E c \in Contexts : Build(t, c)
             \/ GetInstance(t) \/ ExceptionStep(t) \/ InstanceStep(t) \/ Die(t)
      PROVE  HomeInv(d)'
  <2>1. UNCHANGED <<signals, pc, filed>>
    BY <1>1, <1>4, SteadyMoves DEF Steady
  <2>2. UNCHANGED <<path, ids, arg, contextStep>>
    BY <1>4 DEF Build, LoadLibrary, Context!OnLoad, GetInstance, ExceptionStep,
       InstanceStep, Die, contextVars, Context!fields
  <2> QED
    BY <1>3, <2>1, <2>2
<1>5. ASSUME NEW t \in Threads, ContextStep(t) PROVE HomeInv(d)'
  <2>1. Context!Step(t) /\ UNCHANGED <<signals, pc, filed>>
    BY <1>5 DEF ContextStep, crashVars
  <2>2. /\ contextStep[t] # "out" /\ arg[t] # Null
        /\ \A u \in Threads \ {t} : contextStep'[u] = contextStep[u] /\ arg'[u] = arg[u]
    BY <1>1, <1>2, <2>1, CopyMoves
  <2>3. CASE arg[t] \in Contexts
    <3>1. /\ \A at : Copied(at, d) => Copied(at, d)'
          /\ Copied(contextStep[t], d) => Copied(contextStep[t], d)'
      BY <1>1, <2>1, <2>3, CopyKeeps
    <3>2. ASSUME NEW u \in Threads, pc'[u] = "bind", arg'[u] \in Contexts \cup {Null}
          PROVE  Copied(contextStep[u], d)'
      <4>1. CASE u = t
        BY <2>1, <2>3, <3>1, <3>2, <4>1 DEF HomeInv
      <4>2. CASE u # t
        <5>1. Copied(contextStep[u], d)
          BY <2>1, <2>2, <3>2, <4>2 DEF HomeInv
        <5>2. UNCHANGED contextStep[u]
          BY <2>2, <4>2
        <5> QED
          BY <3>1, <5>1, <5>2 DEF Copied
      <4> QED
        BY <4>1, <4>2
    <3> QED
      BY <2>1, <3>1, <3>2 DEF HomeInv
  <2>4. CASE arg[t] \notin Contexts
    <3>1. contextStep[t] # "fault"
      BY <2>1 DEF Context!Step, Context!CopyHead, Context!CopyTail, Context!CopyFlag,
         Context!CopyId, Context!CopyNull, Context!Ids
    <3>2. pc[t] = "bind" /\ contextStep[t] \in {"head", "tail", "sessionId"}
      BY <2>2, <2>4, <3>1 DEF CopyInv
    <3>3. /\ signals = "none"
          /\ \A u \in Threads : pc[u] \in {"bind", "signals"} => u = t
      BY <3>2 DEF SessionInv, Active, Starting
    <3>4. UNCHANGED arg
      BY <2>1, <3>2 DEF Context!Step, Context!CopyHead, Context!CopyTail, Context!CopyFlag,
         Context!CopyId, Context!CopyNull
    <3> QED
      BY <2>1, <2>2, <2>4, <3>2, <3>3, <3>4 DEF HomeInv
  <2> QED
    BY <2>3, <2>4
<1>6. ASSUME NEW t \in Threads, NEW c \in Contexts, NativeSetContext(t, c)
      PROVE  HomeInv(d)'
  BY <1>2, <1>6 DEF NativeSetContext, Context!SetContext, Context!fields, Call, Idle,
     guardVars, crashVars, HomeInv, Copied
<1>7. ASSUME NEW t \in Threads, Start(t) PROVE HomeInv(d)'
  BY <1>2, <1>7 DEF Start, Call, Idle, Context!SetContext, Context!fields, contextVars,
     guardVars, crashVars, HomeInv, Copied
<1>8. ASSUME NEW t \in Threads, StartBind(t) PROVE HomeInv(d)'
  <2>1. Copied("out", d)
    BY <1>2, <1>8 DEF StartBind, Goto, Context!Out, HomeInv
  <2> QED
    BY <1>2, <1>8, <2>1 DEF StartBind, Goto, HomeInv, Copied, guardVars, crashVars
<1>9. ASSUME NEW t \in Threads, StartSignals(t) PROVE HomeInv(d)'
  <2>1. Copied("out", d)
    BY <1>9 DEF StartSignals, Goto, HomeInv
  <2> QED
    BY <1>2, <1>9, <2>1 DEF StartSignals, Goto, HomeInv, Copied, contextVars, crashVars
<1>10. ASSUME NEW t \in Threads, NEW to \in {"idle"} \cup Starting \cup Stopping \cup Crashing,
              to \notin {"bind", "signals"},
              pc' = [pc EXCEPT ![t] = to], UNCHANGED <<contextVars, signals, filed>>
       PROVE  HomeInv(d)'
  BY <1>2, <1>10 DEF HomeInv, Copied, contextVars
<1>11. ASSUME NEW t \in Threads, StopSignals(t) \/ CrashUninstall(t) PROVE HomeInv(d)'
  BY <1>10, <1>11 DEF StopSignals, CrashUninstall, Goto, crashVars, Stopping, Crashing
<1>12. ASSUME NEW t \in Threads,
              \/ StartAnr(t) \/ StartTerminate(t) \/ StopAnr(t) \/ Joined(t)
              \/ StopTerminate(t) \/ Return(t)
       PROVE  HomeInv(d)'
  BY <1>10, <1>12 DEF StartAnr, StartTerminate, StopAnr, Joined, StopTerminate, Return,
     Goto, crashVars, Starting, Stopping
<1>13. ASSUME NEW t \in Threads,
              \/ Crash(t) \/ ContextFault(t) \/ Stop(t)
              \/ \E slot \in {"terminate", "unexpected"} : Throw(t, slot)
       PROVE  HomeInv(d)'
  BY <1>10, <1>13 DEF Crash, ContextFault, Throw, Fault, Stop, crashVars, Stopping, Crashing
<1>14. ASSUME NEW t \in Threads, Intercept(t) \/ TurnedAway(t) \/ Survive(t)
       PROVE  HomeInv(d)'
  BY <1>10, <1>14 DEF Intercept, TurnedAway, Survive, Goto, crashVars, Crashing
\* Whatever is filed once the signal handler was started is filed at home.
<1>15. ASSUME NEW k, NEW of, signals # "none",
              filed' = filed \cup {[prefix |-> k, of |-> of, dir |-> path, ids |-> ids]}
       PROVE  \A r \in filed' : r.dir = <<d, d>> /\ \A f \in Context!Ids : r.ids[f] # Null
  <2>1. Copied("out", d)
    BY <1>15 DEF HomeInv
  <2>2. path = <<d, d>> /\ \A f \in Context!Ids : ids[f] # Null
    BY <1>1, <2>1 DEF Copied, Context!TypeOK, Context!Ids
  <2> QED
    BY <1>15, <2>2 DEF HomeInv
<1>16. ASSUME NEW t \in Threads, FileReport(t) PROVE HomeInv(d)'
  <2>1. guard # "off" /\ UNCHANGED <<signals, path, ids, arg, contextStep>>
    BY <1>16 DEF FileReport, Guard!Report, contextVars
  <2>2. \A r \in filed' : r.dir = <<d, d>> /\ \A f \in Context!Ids : r.ids[f] # Null
    BY <1>15, <1>16, <2>1 DEF FileReport, SessionInv
  <2>3. pc' = [pc EXCEPT ![t] = "reported"]
    BY <1>16 DEF FileReport, Goto
  <2> QED
    BY <1>2, <2>1, <2>2, <2>3 DEF HomeInv, Copied
<1>17. ASSUME FileAnr PROVE HomeInv(d)'
  <2>1. ringing /\ UNCHANGED <<signals, pc, path, ids, arg, contextStep>>
    BY <1>17 DEF FileAnr, contextVars
  <2>2. \A r \in filed' : r.dir = <<d, d>> /\ \A f \in Context!Ids : r.ids[f] # Null
    BY <1>15, <1>17, <2>1 DEF FileAnr, SessionInv
  <2> QED
    BY <2>1, <2>2 DEF HomeInv, Copied
<1>18. ASSUME SignalsArmed \/ Ring PROVE HomeInv(d)'
  BY <1>3, <1>18 DEF SignalsArmed, Ring, contextVars, crashVars
<1>19. ASSUME Unload \/ UNCHANGED vars PROVE HomeInv(d)'
  BY <1>3, <1>19, SteadyRest DEF Steady
<1> QED
  BY <1>4, <1>5, <1>6, <1>7, <1>8, <1>9, <1>11, <1>12, <1>13, <1>14, <1>16, <1>17, <1>18,
     <1>19
  DEF Next, Step, CallStep, LifecycleStep, CrashStep, Rest

\* Every report of a crash or an ANR goes whole to the one directory the
\* application names and carries both ids (native-context.cpp:53-75,
\* agent-ndk.cpp:53-65), with any number of threads that set contexts, start,
\* stop and crash, and with a default instance, whose directory is another one,
\* started among them.
THEOREM ReportsGoHome == Spec => []ReportHome
<1> DEFINE Inv == CopyInv /\ \A d : OnlyDir(d) => HomeInv(d)
<1>1. Init => Inv
  <2> SUFFICES ASSUME Init PROVE Inv
    OBVIOUS
  <2>1. CopyInv
    BY DEF Init, Context!Init, CopyInv
  <2>2. \A d : HomeInv(d)
    BY DEF Init, HomeInv
  <2> QED
    BY <2>1, <2>2
<1>2. TypeOK /\ SessionInv /\ Inv /\ [Next]_vars => Inv'
  <2> SUFFICES ASSUME TypeOK, SessionInv, Inv, [Next]_vars PROVE Inv'
    OBVIOUS
  <2>1. CopyInv'
    BY CopyStep
  <2>2. ASSUME NEW d, OnlyDir(d)' PROVE HomeInv(d)'
    <3>1. OnlyDir(d)
      BY <2>2 DEF OnlyDir
    <3> QED
      BY <3>1, HomeStep
  <2> QED
    BY <2>1, <2>2
<1>3. Inv => ReportHome
  BY DEF OnlyDir, HomeInv, ReportHome
<1> QED
  BY <1>1, <1>2, <1>3, TypeCorrect, SessionInvariant, PTL DEF Spec

-----------------------------------------------------------------------------
(* What a stop gives back                                                  *)

stops == calls["stop"]
Quiet == \A t \in Threads : pc[t] \notin Active

\* A stop removes the observers and none are installed after it: it waits for the
\* installer, and the agent is started once.
StopInv ==
    /\ stops = 0 => last # "stopped" /\ \A t \in Threads : pc[t] \notin Stopping
    /\ \A t \in Threads :
           /\ pc[t] \in Stopping => guard # "arming"
           /\ pc[t] \in Stopping \ {"signalsOff"} => guard # "armed"
    /\ last = "stopped" /\ Quiet => guard \notin {"arming", "armed"}

\* A call that is not a stop leaves the number of stops alone.
LEMMA StopsCounted ==
    ASSUME LocalTypeOK, NEW t \in Threads, NEW k \in Calls, Call(t, k)
    PROVE  stops' = IF k = "stop" THEN stops + 1 ELSE stops
  BY DEF LocalTypeOK, Call, Calls, stops

LEMMA StopStep ==
    ASSUME TypeOK, SessionInv, StopInv, [Next]_vars
    PROVE  StopInv'
<1> USE DEF Goto, Active, Starting, Stopping, Quiet
<1>1. LocalTypeOK
  BY DEF TypeOK
<1>2. /\ pc \in [Threads -> {"idle"} \cup Starting \cup Stopping \cup Crashing]
      /\ stops \in Nat
  BY <1>1 DEF LocalTypeOK, stops, Calls
<1>3. ASSUME Steady PROVE StopInv'
  BY <1>3 DEF Steady, StopInv, stops
<1>4. ASSUME NEW t \in Threads,
             \/ \E c \in Contexts : Build(t, c)
             \/ GetInstance(t) \/ ExceptionStep(t) \/ ContextStep(t) \/ InstanceStep(t)
             \/ Die(t)
      PROVE  StopInv'
  BY <1>1, <1>3, <1>4, SteadyMoves
<1>5. ASSUME NEW t \in Threads, NEW c \in Contexts, NativeSetContext(t, c)
      PROVE  StopInv'
  <2>1. UNCHANGED <<guard, last, pc, stops>>
    BY <1>1, <1>5, StopsCounted DEF NativeSetContext, Calls, guardVars
  <2> QED
    BY <2>1 DEF StopInv
\* A step within the calls, or outside of them.
<1>6. ASSUME NEW t \in Threads, NEW to, pc' = [pc EXCEPT ![t] = to],
             UNCHANGED <<guard, last, stops>>, pc[t] # "signalsOff",
             pc[t] \in Stopping <=> to \in Stopping,
             to # "signalsOff", pc[t] \in Active => to \in Active
      PROVE  StopInv'
  BY <1>2, <1>6 DEF StopInv
<1>7. ASSUME NEW t \in Threads, Start(t) PROVE StopInv'
  <2>1. UNCHANGED <<guard, last, stops>> /\ pc[t] = "idle"
    BY <1>1, <1>7, StopsCounted DEF Start, Call, Idle, Calls, guardVars
  <2>2. UNCHANGED pc \/ pc' = [pc EXCEPT ![t] = "bind"]
    BY <1>7 DEF Start
  <2> QED
    BY <1>6, <2>1, <2>2 DEF StopInv
<1>8. ASSUME NEW t \in Threads, Stop(t) PROVE StopInv'
  <2>1. /\ UNCHANGED <<guard, last>> /\ stops' = stops + 1
        /\ pc' = [pc EXCEPT ![t] = "signalsOff"]
        /\ guard # "arming" /\ Quiet
    BY <1>1, <1>8, StopsCounted DEF Stop, Guard!Stop, Settled, Calls
  <2> QED
    BY <1>2, <2>1 DEF StopInv
<1>9. ASSUME NEW t \in Threads,
             Crash(t) \/ \E slot \in {"terminate", "unexpected"} : Throw(t, slot)
      PROVE  StopInv'
  <2>1. /\ UNCHANGED <<guard, last, stops>> /\ pc' = [pc EXCEPT ![t] = "fault"]
        /\ pc[t] = "idle"
    BY <1>1, <1>9, StopsCounted DEF Crash, Throw, Fault, Call, Idle, Calls, guardVars
  <2> QED
    BY <1>6, <2>1
<1>10. ASSUME NEW t \in Threads, ContextFault(t) PROVE StopInv'
  <2>1. /\ UNCHANGED <<guard, last, stops>> /\ pc' = [pc EXCEPT ![t] = "fault"]
        /\ pc[t] \notin Active \ {"bind"}
    BY <1>10 DEF ContextFault, Fault, guardVars, stops, SessionInv
  <2>2. CASE pc[t] = "bind"
    <3>1. guard = "off" /\ \A u \in Threads \ {t} : pc[u] \notin Active
      BY <2>2 DEF SessionInv
    <3> QED
      BY <1>2, <2>1, <2>2, <3>1 DEF StopInv
  <2> QED
    BY <1>6, <2>1, <2>2
<1>11. ASSUME NEW t \in Threads, StartSignals(t) PROVE StopInv'
  <2>1. /\ UNCHANGED <<last, stops>> /\ pc[t] = "signals"
        /\ pc' = [pc EXCEPT ![t] = "anr"]
    BY <1>11 DEF StartSignals, stops
  <2>2. \A u \in Threads \ {t} : pc[u] \notin Active
    BY <2>1 DEF SessionInv
  <2> QED
    BY <1>2, <2>1, <2>2 DEF StopInv
<1>12. ASSUME NEW t \in Threads,
              \/ StartBind(t) \/ StartAnr(t) \/ StartTerminate(t) \/ StopAnr(t)
              \/ Joined(t) \/ StopTerminate(t)
       PROVE  StopInv'
  BY <1>6, <1>12 DEF StartBind, StartAnr, StartTerminate, StopAnr, Joined, StopTerminate,
     stops, guardVars
<1>13. ASSUME NEW t \in Threads, Return(t) PROVE StopInv'
  <2>1. PICK call \in {"started", "stopped"} :
            /\ pc[t] = call /\ last' = call /\ pc' = [pc EXCEPT ![t] = "idle"]
            /\ UNCHANGED <<guard, stops>>
    BY <1>13 DEF Return, guardVars, stops
  <2> QED
    BY <1>2, <2>1 DEF StopInv
<1>14. ASSUME NEW t \in Threads, StopSignals(t) \/ CrashUninstall(t) PROVE StopInv'
  <2>1. /\ guard' # "armed" /\ (guard' = "arming" => guard = "arming")
        /\ UNCHANGED <<last, stops>>
    BY <1>14 DEF StopSignals, CrashUninstall, Uninstall, Guard!Remove, guardVars, stops
  <2>2. \/ pc[t] = "signalsOff" /\ pc' = [pc EXCEPT ![t] = "anrOff"]
        \/ pc[t] = "reported" /\ pc' = [pc EXCEPT ![t] = "chained"]
    BY <1>14 DEF StopSignals, CrashUninstall
  <2> QED
    BY <1>2, <2>1, <2>2 DEF StopInv
<1>15. ASSUME NEW t \in Threads, Intercept(t) \/ TurnedAway(t) \/ Survive(t) \/ FileReport(t)
       PROVE  StopInv'
  BY <1>6, <1>15 DEF Intercept, TurnedAway, Survive, FileReport, Guard!Report, guardVars,
     stops
<1>16. ASSUME SignalsArmed PROVE StopInv'
  BY <1>16 DEF SignalsArmed, Guard!Armed, StopInv, stops
<1>17. ASSUME Ring \/ FileAnr PROVE StopInv'
  <2>1. UNCHANGED <<guard, last, pc, stops>>
    BY <1>1, <1>17 DEF Ring, FileAnr, guardVars, stops, LocalTypeOK, Calls
  <2> QED
    BY <2>1 DEF StopInv
<1>18. ASSUME Unload \/ UNCHANGED vars PROVE StopInv'
  BY <1>3, <1>18, SteadyRest
<1> QED
  BY <1>4, <1>5, <1>7, <1>8, <1>9, <1>10, <1>11, <1>12, <1>13, <1>14, <1>15, <1>16, <1>17,
     <1>18
  DEF Next, Step, CallStep, LifecycleStep, CrashStep, Rest

\* What is in the runtime's slots and what the agent saved of them.
Slotted(t, u) == handler["terminate"] = t /\ handler["unexpected"] = u
Kept(t, u)    == saved["terminate"] = t /\ saved["unexpected"] = u

\* The one stop so far came after the start.
Paired == stops = 1 /\ signals # "none"

\* None of the agent's handlers is set; with no stop yet, or one that followed
\* the start, it is known whose they are instead.
Unset    == \A s \in Exception!Slots : handler[s] # "agent"
Fresh    == /\ Unset
            /\ stops = 0 => Slotted("application", "application") /\ Kept("application", Null)
Set      == Slotted("agent", "agent") /\ Kept("application", "application")
Restored == Unset /\ (Paired => Slotted("application", "application"))

\* Within terminate_handler_initialize and terminate_handler_shutdown.
Setting(at) ==
    /\ at \in {"setTerminate", "setUnexpected", "out"}
    /\ at = "setTerminate" => Fresh
    /\ at = "setUnexpected" =>
           /\ handler["unexpected"] # "agent"
           /\ stops = 0 => Slotted("agent", "application") /\ Kept("application", Null)
    /\ at = "out" => (stops = 0 => Set)
Resetting(at) ==
    /\ at \in {"resetTerminate", "resetUnexpected", "out"}
    /\ at = "resetTerminate" => (Paired => Set)
    /\ at = "resetUnexpected" =>
           /\ handler["terminate"] # "agent"
           /\ Paired => Slotted("application", "agent") /\ Kept(Null, "application")
    /\ at = "out" => Restored

\* The handlers by where the thread that starts or stops the agent is, or by
\* what was called if there is none.
HandlerInv ==
    /\ \A s \in Exception!Slots : saved[s] # "agent"
    /\ signals = "none" => Fresh
    /\ \A t \in Threads :
           /\ terminateStep[t] # "out" => pc[t] \in {"started", "stopped"}
           /\ pc[t] \in {"anr", "terminate"} => Fresh
           /\ pc[t] = "started" => Setting(terminateStep[t])
           /\ pc[t] \in Stopping \ {"stopped"} => (Paired => Set)
           /\ pc[t] = "stopped" => Resetting(terminateStep[t])
    /\ Quiet => /\ stops = 0 /\ signals # "none" => Set
                /\ last = "stopped" => Restored

\* What the exception handler does inside of its mutex.
LEMMA HandlerSteps ==
    ASSUME TypeOK, SessionInv, StopInv, HandlerInv, NEW t \in Threads, ExceptionStep(t)
    PROVE  HandlerInv'
<1>1. /\ handler \in [Exception!Slots -> Exception!Handlers]
      /\ saved \in [Exception!Slots -> Exception!Handlers \cup {Null}]
      /\ DOMAIN terminateStep = Threads
      /\ stops \in Nat
  BY DEF TypeOK, Exception!TypeOK, LocalTypeOK, stops, Calls
<1>2. Exception!Step(t) /\ UNCHANGED <<signals, last, pc, stops>>
  BY DEF ExceptionStep, stops
<1>3. /\ terminateStep[t] # "out" /\ pc[t] \in {"started", "stopped"}
      /\ \A u \in Threads \ {t} : pc[u] \notin Active /\ terminateStep[u] = "out"
  <2>1. terminateStep[t] # "out"
    BY <1>2 DEF Exception!Step, Exception!SetTerminate, Exception!SetUnexpected,
       Exception!ResetTerminate, Exception!ResetUnexpected, Exception!Goto
  <2> QED
    BY <2>1 DEF HandlerInv, SessionInv, Active, Starting, Stopping
<1>4. pc[t] = "started" => signals # "none"
  BY DEF SessionInv
<1>5. SUFFICES /\ \A u \in Threads \ {t} : terminateStep'[u] = "out"
               /\ \A s \in Exception!Slots : saved'[s] # "agent"
               /\ signals = "none" => Fresh'
               /\ pc[t] = "started" => Setting(terminateStep[t])'
               /\ pc[t] = "stopped" => Resetting(terminateStep[t])'
  BY <1>2, <1>3 DEF HandlerInv, Active, Starting, Stopping, Quiet
<1>6. pc[t] = "stopped" => stops # 0
  BY DEF StopInv, Stopping
<1> USE LifecycleAssumption DEF Exception!Goto, Exception!Slots, Exception!Handlers,
    Exception!Swap, Slotted, Kept, Unset, Fresh, Set, Restored, Paired
<1>7. CASE Exception!SetTerminate(t)
  BY <1>1, <1>2, <1>3, <1>4, <1>7 DEF Exception!SetTerminate, HandlerInv, Setting, Resetting
<1>8. CASE Exception!SetUnexpected(t)
  BY <1>1, <1>2, <1>3, <1>4, <1>8 DEF Exception!SetUnexpected, HandlerInv, Setting, Resetting
<1>9. CASE Exception!ResetTerminate(t)
  BY <1>1, <1>2, <1>3, <1>6, <1>9 DEF Exception!ResetTerminate, Exception!Runtime,
     HandlerInv, Setting, Resetting
<1>10. CASE Exception!ResetUnexpected(t)
  BY <1>1, <1>2, <1>3, <1>6, <1>10 DEF Exception!ResetUnexpected, Exception!Runtime,
     HandlerInv, Setting, Resetting
<1> QED
  BY <1>2, <1>7, <1>8, <1>9, <1>10 DEF Exception!Step

LEMMA HandlerStep ==
    ASSUME TypeOK, SessionInv, StopInv, HandlerInv, [Next]_vars
    PROVE  HandlerInv'
<1> USE DEF Goto, Active, Starting, Stopping, Quiet
<1>1. LocalTypeOK
  BY DEF TypeOK
<1>2. /\ pc \in [Threads -> {"idle"} \cup Starting \cup Stopping \cup Crashing]
      /\ DOMAIN terminateStep = Threads
      /\ stops \in Nat
  BY DEF TypeOK, Exception!TypeOK, LocalTypeOK, stops, Calls
<1>3. ASSUME UNCHANGED <<exceptionVars, signals, last, pc, stops>> PROVE HandlerInv'
  BY <1>3 DEF HandlerInv, Unset, Fresh, Set, Restored, Paired, Setting, Resetting, Slotted,
     Kept, exceptionVars
<1>4. ASSUME NEW t \in Threads, NEW to, pc' = [pc EXCEPT ![t] = to],
             UNCHANGED <<exceptionVars, signals, last, stops>>,
             \/ pc[t] \notin Active /\ to \notin Active
             \/ {pc[t], to} \subseteq {"bind", "signals"}
             \/ {pc[t], to} \subseteq {"anr", "terminate"}
             \/ {pc[t], to} \subseteq Stopping \ {"stopped"}
      PROVE  HandlerInv'
  BY <1>2, <1>4 DEF HandlerInv, Unset, Fresh, Set, Restored, Paired, Setting, Resetting,
     Slotted, Kept, exceptionVars
<1>5. ASSUME Steady, UNCHANGED exceptionVars PROVE HandlerInv'
  BY <1>3, <1>5 DEF Steady, stops
<1>6. ASSUME NEW t \in Threads,
             \/ \E c \in Contexts : Build(t, c)
             \/ GetInstance(t) \/ ContextStep(t) \/ InstanceStep(t) \/ Die(t)
      PROVE  HandlerInv'
  <2>1. Steady
    BY <1>1, <1>6, SteadyMoves
  <2> QED
    BY <1>5, <1>6, <2>1 DEF Build, GetInstance, ContextStep, InstanceStep, Die
<1>7. ASSUME NEW t \in Threads, NEW c \in Contexts, NativeSetContext(t, c)
      PROVE  HandlerInv'
  <2>1. UNCHANGED stops
    BY <1>1, <1>7, StopsCounted DEF NativeSetContext, Calls
  <2> QED
    BY <1>3, <1>7, <2>1 DEF NativeSetContext
<1>8. ASSUME NEW t \in Threads, Start(t) PROVE HandlerInv'
  <2>1. UNCHANGED <<exceptionVars, signals, last, stops>> /\ Quiet
    BY <1>1, <1>8, StopsCounted DEF Start, Settled, Calls
  <2>2. UNCHANGED pc \/ pc' = [pc EXCEPT ![t] = "bind"]
    BY <1>8 DEF Start
  <2>3. CASE pc' = [pc EXCEPT ![t] = "bind"]
    BY <1>2, <2>1, <2>3 DEF HandlerInv, Unset, Fresh, Slotted, Kept, exceptionVars
  <2> QED
    BY <1>3, <2>1, <2>2, <2>3
<1>9. ASSUME NEW t \in Threads, Stop(t) PROVE HandlerInv'
  <2>1. /\ UNCHANGED <<exceptionVars, signals, last>> /\ stops' = stops + 1
        /\ pc' = [pc EXCEPT ![t] = "signalsOff"] /\ Quiet
    BY <1>1, <1>9, StopsCounted DEF Stop, Settled, Calls
  <2>2. Paired' => Set'
    BY <1>2, <2>1 DEF HandlerInv, Paired, Set, Slotted, Kept, exceptionVars
  <2>3. signals' = "none" => Fresh'
    BY <1>2, <2>1 DEF HandlerInv, Unset, Fresh, exceptionVars
  <2> QED
    BY <1>2, <2>1, <2>2, <2>3 DEF HandlerInv, exceptionVars
<1>10. ASSUME NEW t \in Threads,
              Crash(t) \/ \E slot \in {"terminate", "unexpected"} : Throw(t, slot)
       PROVE  HandlerInv'
  <2>1. /\ pc[t] = "idle" /\ pc' = [pc EXCEPT ![t] = "fault"]
        /\ UNCHANGED <<exceptionVars, signals, last, stops>>
    BY <1>1, <1>10, StopsCounted DEF Crash, Throw, Fault, Call, Idle, Calls
  <2> QED
    BY <1>4, <2>1
<1>11. ASSUME NEW t \in Threads, ContextFault(t) PROVE HandlerInv'
  <2>1. /\ pc' = [pc EXCEPT ![t] = "fault"]
        /\ UNCHANGED <<exceptionVars, signals, last, stops>>
        /\ pc[t] \notin Active \ {"bind"}
    BY <1>11 DEF ContextFault, Fault, stops, SessionInv
  <2>2. CASE pc[t] = "bind"
    <3>1. signals = "none" /\ Fresh
      BY <2>2 DEF SessionInv, HandlerInv
    <3> QED
      BY <1>2, <2>1, <2>2, <3>1 DEF HandlerInv, SessionInv, Unset, Fresh, Restored, Paired,
         Slotted, Kept, exceptionVars
  <2> QED
    BY <1>4, <2>1, <2>2
<1>12. ASSUME NEW t \in Threads, StartBind(t) \/ StartAnr(t) \/ StopSignals(t) \/ StopAnr(t)
                                    \/ Joined(t)
       PROVE  HandlerInv'
  BY <1>4, <1>12 DEF StartBind, StartAnr, StopSignals, StopAnr, Joined, stops
<1>13. ASSUME NEW t \in Threads, StartSignals(t) PROVE HandlerInv'
  <2>1. /\ pc[t] = "signals" /\ pc' = [pc EXCEPT ![t] = "anr"] /\ signals' # "none"
        /\ UNCHANGED <<exceptionVars, last, stops>>
    BY <1>13 DEF StartSignals, stops
  <2>2. Fresh /\ \A u \in Threads \ {t} : pc[u] \notin Active
    BY <2>1 DEF SessionInv, HandlerInv
  <2>3. Fresh'
    BY <2>1, <2>2 DEF Unset, Fresh, Slotted, Kept, exceptionVars
  <2> QED
    BY <1>2, <2>1, <2>2, <2>3 DEF HandlerInv, exceptionVars
<1>14. ASSUME NEW t \in Threads, StartTerminate(t) \/ StopTerminate(t) PROVE HandlerInv'
  <2>1. /\ UNCHANGED <<handler, saved, signals, last, stops>>
        /\ \/ /\ pc[t] = "terminate" /\ pc' = [pc EXCEPT ![t] = "started"]
              /\ terminateStep' = [terminateStep EXCEPT ![t] = "setTerminate"]
           \/ /\ pc[t] = "terminateOff" /\ pc' = [pc EXCEPT ![t] = "stopped"]
              /\ terminateStep' = [terminateStep EXCEPT ![t] = "resetTerminate"]
    BY <1>14 DEF StartTerminate, StopTerminate, Exception!InitializeLock,
       Exception!ShutdownLock, Exception!Enter, Exception!Goto, stops
  <2>2. \A u \in Threads \ {t} : pc[u] \notin Active /\ terminateStep[u] = "out"
    BY <2>1 DEF SessionInv, HandlerInv
  <2>3. /\ Fresh => Fresh'
        /\ (Paired => Set) => (Paired' => Set')
    BY <2>1 DEF Unset, Fresh, Set, Paired, Slotted, Kept
  <2> QED
    BY <1>2, <2>1, <2>2, <2>3 DEF HandlerInv, Setting, Resetting
<1>15. ASSUME NEW t \in Threads, Return(t) PROVE HandlerInv'
  <2>1. PICK call \in {"started", "stopped"} :
            /\ pc[t] = call /\ last' = call /\ pc' = [pc EXCEPT ![t] = "idle"]
            /\ terminateStep[t] = "out" /\ UNCHANGED <<exceptionVars, signals, stops>>
    BY <1>15 DEF Return, Exception!Out, stops
  <2>2. \A u \in Threads \ {t} : pc[u] \notin Active /\ terminateStep[u] = "out"
    BY <2>1 DEF SessionInv, HandlerInv
  <2>3. /\ call = "started" => (stops = 0 => Set)
        /\ call = "stopped" => Restored /\ stops # 0
    BY <2>1 DEF HandlerInv, Setting, Resetting, StopInv
  <2> QED
    BY <1>2, <2>1, <2>2, <2>3 DEF HandlerInv, Unset, Fresh, Set, Restored, Paired, Slotted,
       Kept, exceptionVars
<1>16. ASSUME NEW t \in Threads,
              \/ Intercept(t) \/ TurnedAway(t) \/ Survive(t) \/ FileReport(t)
              \/ CrashUninstall(t)
       PROVE  HandlerInv'
  BY <1>4, <1>16 DEF Intercept, TurnedAway, Survive, FileReport, CrashUninstall, stops
<1>17. ASSUME SignalsArmed \/ Ring \/ FileAnr PROVE HandlerInv'
  <2>1. UNCHANGED stops
    BY <1>1, <1>17 DEF SignalsArmed, Ring, FileAnr, stops, LocalTypeOK, Calls
  <2> QED
    BY <1>3, <1>17, <2>1 DEF SignalsArmed, Ring, FileAnr
<1>18. ASSUME Unload \/ UNCHANGED vars PROVE HandlerInv'
  BY <1>5, <1>18, SteadyRest
<1> QED
  BY <1>6, <1>7, <1>8, <1>9, <1>10, <1>11, <1>12, <1>13, <1>14, <1>15, <1>16, <1>17, <1>18,
     HandlerSteps
  DEF Next, Step, CallStep, LifecycleStep, CrashStep, Rest

\* A stop that returned has given back what the start took (agent-ndk.cpp:65-83
\* and 93-100), whichever calls of the start failed and however its stops fell
\* among other threads' crashes and contexts: no observer of the agent is left
\* and none of its exception handlers, and after a start and one stop the
\* application has its own again.
THEOREM StopGivesBack == Spec => []StopRestores
<1> DEFINE Inv == StopInv /\ HandlerInv
<1>1. Init => Inv
  <2> SUFFICES ASSUME Init PROVE Inv
    OBVIOUS
  <2> USE LifecycleAssumption DEF Init, stops, Calls, Active, Starting, Stopping, Quiet
  <2>1. StopInv
    BY DEF StopInv
  <2>2. HandlerInv
    BY DEF Exception!Init, Exception!Slots, HandlerInv, Unset, Fresh, Slotted, Kept
  <2> QED
    BY <2>1, <2>2
<1>2. TypeOK /\ SessionInv /\ Inv /\ [Next]_vars => Inv'
  BY StopStep, HandlerStep
<1>3. Inv => StopRestores
  <2> SUFFICES ASSUME Inv, last = "stopped", Settled
               PROVE  /\ guard # "armed"
                      /\ \A s \in Exception!Slots :
                             /\ handler[s] # "agent"
                             /\ signals # "none" /\ calls["stop"] = 1
                                    => handler[s] = "application"
    BY DEF StopRestores
  <2>1. Quiet
    BY DEF Settled, Quiet, Active
  <2> QED
    BY <2>1 DEF StopInv, HandlerInv, Restored, Unset, Paired, Slotted, stops, Exception!Slots
<1> QED
  BY <1>1, <1>2, <1>3, TypeCorrect, SessionInvariant, PTL DEF Spec
=============================================================================
