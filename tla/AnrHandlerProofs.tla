------------------------- MODULE AnrHandlerProofs -------------------------
(***************************************************************************)
(* Theorems about AnrHandler, for any number of starts, stops, signals and *)
(* threads, with and without failures.                                     *)
(***************************************************************************)
EXTENDS AnrHandler, FiniteSetTheorems, TLAPS

StartPCs == {"create", "semInit", "install", "alloc", "enable"}
StopPCs  == {"post", "join", "reset"}

\* The initialize under way is the one that was counted last.
TypeInv == TypeOK /\ (caller \in StartPCs => starts \in Dogs)

-----------------------------------------------------------------------------
(* Types                                                                   *)

LEMMA DogNumbers == Caller \notin Dogs /\ None \notin Dogs /\ Dogs \subseteq 0..MaxStarts
  BY AnrAssumption DEF Caller, None, Dogs

LEMMA CallerType ==
    ASSUME TypeInv, StartCall \/ StopCall \/ CallerStep
    PROVE  TypeInv'
<1> USE AnrAssumption, DogNumbers
    DEF TypeInv, TypeOK, StartPCs, CallerGoto, flags, target, memory, calls, alarm, None
<1>1. CASE StartCall
  <2>1. tid' \in BOOLEAN
    BY <1>1 DEF StartCall
  <2>2. starts' \in Dogs /\ starts' \in 0..MaxStarts
    BY <1>1 DEF StartCall, Dogs
  <2> QED
    BY <1>1, <2>1, <2>2 DEF StartCall
<1>2. CASE StopCall
  <2>1. stops' \in 0..MaxStops /\ owed' \subseteq Anrs
    BY <1>2 DEF StopCall
  <2> QED
    BY <1>2, <2>1 DEF StopCall
<1>3. CASE CreateWatchdog
  BY <1>3 DEF CreateWatchdog
<1>4. CASE CreateFails
  BY <1>4 DEF CreateFails
<1>5. CASE SemInit
  <2>1. dog' \in [Dogs -> {"none", "loop", "choose", "wait", "stranded", "poll",
                          "alert", "end"}]
    BY <1>5 DEF SemInit
  <2> QED
    BY <1>5, <2>1 DEF SemInit
<1>6. CASE SemInitFails
  BY <1>6 DEF SemInitFails
<1>7. CASE Install
  BY <1>7 DEF Install
<1>8. CASE AllocBuffer
  <2>1. starts \in 1..MaxStarts
    BY <1>8 DEF AllocBuffer, Dogs
  <2> QED
    BY <1>8, <2>1 DEF AllocBuffer
<1>9. CASE Enable
  BY <1>9 DEF Enable
<1>10. CASE StopPost
  <2>1. clean' \in BOOLEAN
    BY <1>10 DEF StopPost
  <2>2. sem' \in Nat /\ UNCHANGED mustPoll
    BY <1>10 DEF StopPost, SemPost
  <2> QED
    BY <1>10, <2>1, <2>2 DEF StopPost
<1>11. CASE Join
  BY <1>11 DEF Join
<1>12. CASE Reset
  <2>1. heap' \subseteq 1..MaxStarts /\ buffer' \in 0..MaxStarts
    BY <1>12 DEF Reset
  <2> QED
    BY <1>12, <2>1 DEF Reset
<1> QED
  BY <1>1, <1>2, <1>3, <1>4, <1>5, <1>6, <1>7, <1>8, <1>9, <1>10, <1>11, <1>12
  DEF CallerStep

LEMMA DogType ==
    ASSUME TypeInv, NEW d \in Dogs, DogStep(d)
    PROVE  TypeInv'
<1> USE DEF TypeInv, TypeOK, DogGoto, flags, target, memory, calls, alarm
<1>1. CASE DogLoop(d)
  <2>1. triggered' \in BOOLEAN /\ clean' \in BOOLEAN
    BY <1>1 DEF DogLoop
  <2> QED
    BY <1>1, <2>1 DEF DogLoop
<1>2. CASE DogChoose(d)
  BY <1>2 DEF DogChoose
<1>3. CASE SemWait(d)
  BY <1>3 DEF SemWait
<1>4. CASE Poll(d)
  BY <1>4 DEF Poll
<1>5. CASE Alert(d)
  BY <1>5 DEF Alert
<1> QED
  BY <1>1, <1>2, <1>3, <1>4, <1>5 DEF DogStep

LEMMA HandlerType ==
    ASSUME TypeInv, NEW h \in Anrs,
           HandlerStep(h) \/ \E t \in Hosts : Deliver(h, t)
    PROVE  TypeInv'
<1> USE DEF TypeInv, TypeOK, HandlerGoto, flags, target, memory, calls, alarm
<1>1. ASSUME NEW t \in Hosts, Deliver(h, t) PROVE TypeInv'
  <2>1. dog' \in [Dogs -> {"none", "loop", "choose", "wait", "stranded", "poll",
                          "alert", "end"}]
    BY <1>1 DEF Deliver
  <2> QED
    BY <1>1, <2>1 DEF Deliver
<1>2. CASE Enter(h)
  BY <1>2 DEF Enter
<1>3. CASE Collect(h)
  BY <1>3 DEF Collect
<1>4. CASE Trigger(h)
  BY <1>4 DEF Trigger
<1>5. CASE Post(h)
  <2>1. clean' \in BOOLEAN /\ mustPoll' \in BOOLEAN
    BY <1>5 DEF Post, SemPost
  <2>2. sem' \in Nat
    BY <1>5 DEF Post, SemPost
  <2> QED
    BY <1>5, <2>1, <2>2 DEF Post
<1> QED
  BY <1>1, <1>2, <1>3, <1>4, <1>5 DEF HandlerStep

LEMMA NextCases ==
    ASSUME [Next]_vars
    PROVE  \/ StartCall \/ StopCall \/ CallerStep
           \/ \E d \in Dogs : DogStep(d)
           \/ \E h \in Anrs : HandlerStep(h) \/ \E t \in Hosts : Deliver(h, t)
           \/ UNCHANGED vars
  BY DEF Next, Rest

\* Types are kept in every interleaving, whatever fails; among them that
\* watchdog_semaphore is never taken below zero (anr-handler.cpp:50 and 105).
THEOREM TypeInvariant == Spec => []TypeInv
<1>1. Init => TypeInv
  <2> SUFFICES ASSUME Init PROVE TypeInv
    OBVIOUS
  <2>1. /\ dog \in [Dogs -> {"none", "loop", "choose", "wait", "stranded", "poll",
                             "alert", "end"}]
        /\ handler \in [Anrs -> {"none", "enter", "collect", "trigger", "post", "end"}]
        /\ host \in [Anrs -> Hosts]
    BY DEF Init, Hosts
  <2>2. 0 \in 0..MaxStarts /\ 0 \in 0..MaxStops /\ held \in [Anrs -> 0..MaxStarts]
    BY AnrAssumption DEF Init, None
  <2> QED
    BY <2>1, <2>2 DEF Init, TypeInv, TypeOK, StartPCs, None
<1>2. TypeInv /\ [Next]_vars => TypeInv'
  <2>1. ASSUME TypeInv, UNCHANGED vars PROVE TypeInv'
    BY <2>1 DEF TypeInv, TypeOK, vars, flags, target, memory, calls, alarm
  <2> QED
    BY <2>1, NextCases, CallerType, DogType, HandlerType
<1> QED
  BY <1>1, <1>2, PTL DEF Spec

\* The type invariant that the runs check.
THEOREM TypeCorrect == Spec => []TypeOK
  BY TypeInvariant, PTL DEF TypeInv

-----------------------------------------------------------------------------
(* Sessions that do not overlap (Ordered)                                  *)

Started == caller = "idle" /\ lastCall = "started"
Alive(d) == dog[d] \notin {"none", "end"}

\* What the caller's place says of the thread handle and of the buffer.
CallerInv ==
    /\ caller \in StartPCs => lastCall # "started"
    /\ caller \in StopPCs => lastCall = "started" /\ ~enabled
    /\ Started => enabled
    /\ thread # None <=> Started \/ caller \in {"semInit", "install", "alloc",
                                                "enable", "post", "join"}
    /\ buffer # None <=> Started \/ caller \in {"enable"} \cup StopPCs
    /\ heap = IF buffer = None THEN {} ELSE {buffer}

\* One watchdog runs at most, the one that will be joined; a thread that runs
\* the interceptor does not end meanwhile; what an interceptor on the caller or
\* on a watchdog writes to is the current buffer.
ThreadInv ==
    /\ \A d \in Dogs : Alive(d) => d = thread
    /\ \A h \in Anrs : Running(h) /\ host[h] \in Dogs => Alive(host[h])
    /\ \A h \in Anrs : handler[h] = "collect" /\ host[h] \notin Others
                          => held[h] = buffer /\ buffer # None

\* The flag the watchdogs loop on is set until the first stop.
AwakeInv == stops = 0 => enabled

SessionInv == CallerInv /\ ThreadInv /\ AwakeInv

LEMMA SessionInit == Init => SessionInv
  BY DogNumbers DEF Init, SessionInv, CallerInv, ThreadInv, AwakeInv, Started, Alive, Running,
     StartPCs, StopPCs, None

\* The watchdogs and the interceptors leave to the caller what is the caller's.
LEMMA OthersStep ==
    ASSUME \/ \E d \in Dogs : DogStep(d)
           \/ \E h \in Anrs : HandlerStep(h) \/ \E t \in Hosts : Deliver(h, t)
    PROVE  UNCHANGED <<caller, enabled, thread, buffer, heap, lastCall, installed, pid>>
  BY DEF DogStep, DogLoop, DogChoose, SemWait, Poll, Alert, HandlerStep, Enter, Collect,
     Trigger, Post, Deliver, flags, target, memory, calls

LEMMA CallerInvStep ==
    ASSUME Ordered, TypeInv, CallerInv, [Next]_vars
    PROVE  CallerInv'
<1> USE DEF CallerInv, Started, StartPCs, StopPCs, CallerGoto, flags, memory, calls, None
<1>1. CASE StartCall
  BY <1>1 DEF StartCall
<1>2. CASE StopCall
  BY <1>2 DEF StopCall
<1>3. CASE CreateWatchdog
  <2>1. starts # 0
    BY <1>3, DogNumbers DEF CreateWatchdog, TypeInv
  <2> QED
    BY <1>3, <2>1 DEF CreateWatchdog
<1>4. CASE CreateFails
  BY <1>4 DEF CreateFails
<1>5. CASE SemInit \/ SemInitFails \/ Install
  BY <1>5 DEF SemInit, SemInitFails, Install
<1>6. CASE AllocBuffer
  <2>1. starts # 0
    BY <1>6, DogNumbers DEF AllocBuffer, TypeInv
  <2> QED
    BY <1>6, <2>1 DEF AllocBuffer
<1>7. CASE Enable
  BY <1>7 DEF Enable
<1>8. CASE StopPost
  BY <1>8 DEF StopPost
<1>9. CASE Join
  BY <1>9 DEF Join
<1>10. CASE Reset
  BY <1>10 DEF Reset
<1>11. CASE UNCHANGED <<caller, enabled, thread, buffer, heap, lastCall>>
  BY <1>11
<1> QED
  BY <1>1, <1>2, <1>3, <1>4, <1>5, <1>6, <1>7, <1>8, <1>9, <1>10, <1>11,
     NextCases, OthersStep DEF CallerStep, vars

LEMMA ThreadInvStep ==
    ASSUME Ordered, TypeInv, CallerInv, ThreadInv, [Next]_vars
    PROVE  ThreadInv'
<1> USE DogNumbers DEF TypeInv, TypeOK, ThreadInv, Alive, Running, memory
<1>1. CASE StartCall \/ StopCall \/ CreateFails \/ SemInitFails \/ Install \/ Enable
           \/ StopPost
  BY <1>1 DEF StartCall, StopCall, CreateFails, SemInitFails, Install, Enable, StopPost
<1>2. CASE CreateWatchdog
  <2>1. thread = None /\ starts \in Dogs /\ thread' = starts
    BY <1>2 DEF CreateWatchdog, CallerGoto, CallerInv, Started, StartPCs
  <2>2. \A d \in Dogs : ~Alive(d)
    BY <2>1
  <2> QED
    BY <1>2, <2>1, <2>2 DEF CreateWatchdog
<1>3. CASE SemInit
  <2>1. \A d \in Dogs : Alive(d)' <=> Alive(d)
    BY <1>3 DEF SemInit
  <2> QED
    BY <1>3, <2>1 DEF SemInit
<1>4. CASE AllocBuffer
  <2>1. buffer = None
    BY <1>4 DEF AllocBuffer, CallerGoto, CallerInv, Started, StopPCs
  <2> QED
    BY <1>4, <2>1 DEF AllocBuffer
<1>5. CASE Join
  <2>1. \A d \in Dogs : ~Alive(d)
    BY <1>5 DEF Join
  <2> QED
    BY <1>5, <2>1 DEF Join
<1>6. CASE Reset
  <2>1. thread = None
    BY <1>6 DEF Reset, CallerGoto, CallerInv, Started
  <2>2. \A d \in Dogs : ~Alive(d)
    BY <2>1
  <2>3. \A h \in Anrs : Running(h) => host[h] \in Others
    BY <1>6, <2>2 DEF Reset, CallerGoto, Free, Hosts
  <2> QED
    BY <1>6, <2>2, <2>3 DEF Reset
<1>7. ASSUME NEW d \in Dogs, DogStep(d) PROVE ThreadInv'
  <2>1. PICK to : dog' = [dog EXCEPT ![d] = to] /\ Alive(d)
    BY <1>7 DEF DogStep, DogLoop, DogChoose, SemWait, Poll, Alert, DogGoto
  <2>2. \A h \in Anrs : Running(h) => host[h] # d
    BY <1>7 DEF DogStep, DogLoop, DogChoose, SemWait, Poll, Alert, DogGoto, Free
  <2>3. UNCHANGED <<handler, host, held, buffer, thread>>
    BY <1>7 DEF DogStep, DogLoop, DogChoose, SemWait, Poll, Alert
  <2> QED
    BY <2>1, <2>2, <2>3
<1>8. ASSUME NEW h \in Anrs, NEW t \in Hosts, Deliver(h, t) PROVE ThreadInv'
  <2>1. \A d \in Dogs : Alive(d)' <=> Alive(d)
    BY <1>8 DEF Deliver
  <2>2. t \in Dogs => Alive(t)
    BY <1>8 DEF Deliver
  <2> QED
    <3>1. /\ host' = [host EXCEPT ![h] = t] /\ handler' = [handler EXCEPT ![h] = "enter"]
          /\ UNCHANGED <<thread, held, buffer>>
      BY <1>8 DEF Deliver, HandlerGoto
    <3>2. ASSUME NEW g \in Anrs, Running(g)', host'[g] \in Dogs
          PROVE  Alive(host'[g])
      <4>1. CASE g = h
        BY <2>2, <3>1, <3>2, <4>1
      <4>2. CASE g # h
        BY <3>1, <3>2, <4>2
      <4> QED
        BY <4>1, <4>2
    <3>3. (\A g \in Anrs : Running(g) /\ host[g] \in Dogs => Alive(host[g]))'
      BY <2>1, <3>2
    <3>4. (\A d \in Dogs : Alive(d) => d = thread)'
      BY <2>1, <3>1
    <3>5. (\A g \in Anrs : handler[g] = "collect" /\ host[g] \notin Others
                               => held[g] = buffer /\ buffer # None)'
      BY <3>1
    <3> QED
      BY <3>3, <3>4, <3>5
<1>9. ASSUME NEW h \in Anrs, HandlerStep(h) PROVE ThreadInv'
  <2>1. Running(h) /\ UNCHANGED <<dog, host, buffer, thread>>
    BY <1>9 DEF HandlerStep, Enter, Collect, Trigger, Post, HandlerGoto
  <2>2. PICK to : handler' = [handler EXCEPT ![h] = to]
    BY <1>9 DEF HandlerStep, Enter, Collect, Trigger, Post, HandlerGoto
  <2>3. \/ Enter(h) /\ held' = [held EXCEPT ![h] = buffer]
        \/ UNCHANGED held /\ to # "collect"
    BY <1>9, <2>2 DEF HandlerStep, Enter, Collect, Trigger, Post, HandlerGoto
  <2>4. \A g \in Anrs : handler'[g] = "collect" /\ host'[g] \notin Others
                            => held'[g] = buffer' /\ buffer' # None
    <3>1. CASE Enter(h)
      BY <2>1, <2>3, <3>1 DEF Enter, HandlerGoto
    <3>2. CASE UNCHANGED held /\ to # "collect"
      BY <2>1, <2>2, <3>2
    <3> QED
      BY <2>3, <3>1, <3>2
  <2> QED
    BY <2>1, <2>2, <2>4
<1>10. CASE UNCHANGED vars
  BY <1>10 DEF vars
<1> QED
  BY <1>1, <1>2, <1>3, <1>4, <1>5, <1>6, <1>7, <1>8, <1>9, <1>10, NextCases
  DEF CallerStep

LEMMA AwakeInvStep ==
    ASSUME TypeInv, AwakeInv, [Next]_vars
    PROVE  AwakeInv'
<1> USE AnrAssumption DEF TypeInv, TypeOK, AwakeInv
<1>1. CASE StopCall
  BY <1>1 DEF StopCall
<1>2. CASE Enable
  BY <1>2 DEF Enable
<1>3. CASE UNCHANGED <<enabled, stops>>
  BY <1>3
<1>4. CASE StartCall \/ CreateWatchdog \/ CreateFails \/ SemInit \/ SemInitFails \/ Install
           \/ AllocBuffer \/ StopPost \/ Join \/ Reset
  BY <1>3, <1>4 DEF StartCall, CreateWatchdog, CreateFails, SemInit, SemInitFails, Install,
     AllocBuffer, StopPost, Join, Reset, flags, calls
<1>5. ASSUME NEW d \in Dogs, DogStep(d) PROVE UNCHANGED <<enabled, stops>>
  BY <1>5 DEF DogStep, DogLoop, DogChoose, SemWait, Poll, Alert, flags, calls
<1>6. ASSUME NEW h \in Anrs, NEW t \in Hosts, Deliver(h, t) PROVE UNCHANGED <<enabled, stops>>
  BY <1>6 DEF Deliver, flags, calls
<1>7. ASSUME NEW h \in Anrs, HandlerStep(h) PROVE UNCHANGED <<enabled, stops>>
  BY <1>7 DEF HandlerStep, Enter, Collect, Trigger, Post, flags, calls
<1>8. CASE UNCHANGED vars
  BY <1>3, <1>8 DEF vars, flags, calls
<1> QED
  BY <1>1, <1>2, <1>3, <1>4, <1>5, <1>6, <1>7, <1>8, NextCases DEF CallerStep

\* When starts and stops alternate there is one watchdog at most, and everything
\* a stop frees belongs to the session it ends, whatever failed.
THEOREM SessionInvariant == Ordered => (Spec => [](TypeInv /\ SessionInv))
<1> SUFFICES ASSUME Ordered PROVE Spec => [](TypeInv /\ SessionInv)
  OBVIOUS
<1>1. TypeInv /\ SessionInv /\ [Next]_vars => SessionInv'
  BY CallerInvStep, ThreadInvStep, AwakeInvStep DEF SessionInv
<1> QED
  BY <1>1, SessionInit, TypeInvariant, PTL DEF Spec

\* An interceptor on the thread that stops the agent, or on a watchdog, never
\* writes into a freed report buffer (anr-handler.cpp:91 and 177), for any
\* number of sessions and of signals.
THEOREM BufferNotFreed == Ordered => (Spec => []BufferAlive)
<1>1. SessionInv => BufferAlive
  BY DEF SessionInv, CallerInv, ThreadInv, BufferAlive
<1> QED
  BY <1>1, SessionInvariant, PTL

\* Every shutdown that returns has ended its watchdog and freed its buffer
\* (anr-handler.cpp:225-243), whatever failed.
THEOREM StopsClean == Ordered => (Spec => []StoppedClean)
<1>1. TypeInv /\ SessionInv => StoppedClean
  <2> SUFFICES ASSUME TypeInv, SessionInv, lastCall = "stopped", caller = "idle"
               PROVE  heap = {} /\ \A d \in Dogs : dog[d] \in {"none", "end"}
    BY DEF StoppedClean
  <2>1. thread = None /\ buffer = None /\ heap = {}
    BY DEF SessionInv, CallerInv, Started, StopPCs
  <2> QED
    BY <2>1, DogNumbers DEF SessionInv, ThreadInv, Alive
<1> QED
  BY <1>1, SessionInvariant, PTL

\* No watchdog leaves its loop but in the stop that is to join it or, after an
\* earlier stop, in the initialize that created it (anr-handler.cpp:43 and 215),
\* for any number of sessions, whatever fails.
THEOREM WatchdogsEndInTurn == Ordered => (Spec => WatchdogEnds)
<1> DEFINE Due == \A d \in Dogs : dog[d] # "end" /\ dog'[d] = "end" =>
                    \/ caller \in {"post", "join"}
                    \/ stops > 0 /\ caller \in {"semInit", "install", "alloc", "enable"}
<1> SUFFICES ASSUME Ordered PROVE Spec => WatchdogEnds
  OBVIOUS
<1>1. TypeInv /\ SessionInv /\ [Next]_vars => [Due]_vars
  <2> SUFFICES ASSUME TypeInv, SessionInv, Next,
                      NEW d \in Dogs, dog[d] # "end", dog'[d] = "end"
               PROVE  \/ caller \in {"post", "join"}
                      \/ stops > 0 /\ caller \in {"semInit", "install", "alloc", "enable"}
    OBVIOUS
  <2> USE DEF TypeInv, TypeOK
  <2>1. DogLoop(d)
    <3>1. CASE StartCall \/ StopCall \/ CallerStep
      BY <3>1 DEF StartCall, StopCall, CallerStep, CreateWatchdog, CreateFails, SemInit,
         SemInitFails, Install, AllocBuffer, Enable, StopPost, Join, Reset
    <3>2. ASSUME NEW e \in Dogs, DogStep(e) PROVE DogLoop(d)
      <4>1. e = d
        BY <3>2 DEF DogStep, DogLoop, DogChoose, SemWait, Poll, Alert, DogGoto
      <4>2. ~(DogChoose(d) \/ SemWait(d) \/ Poll(d) \/ Alert(d))
        BY DEF DogChoose, SemWait, Poll, Alert, DogGoto
      <4> QED
        BY <3>2, <4>1, <4>2 DEF DogStep
    <3>3. ASSUME NEW h \in Anrs, NEW t \in Hosts, Deliver(h, t) PROVE FALSE
      BY <3>3 DEF Deliver
    <3>4. ASSUME NEW h \in Anrs, HandlerStep(h) PROVE FALSE
      BY <3>4 DEF HandlerStep, Enter, Collect, Trigger, Post
    <3>5. CASE UNCHANGED vars
      BY <3>5 DEF vars
    <3> QED
      BY <3>1, <3>2, <3>3, <3>4, <3>5, NextCases
  <2>2. ~enabled /\ dog[d] = "loop"
    BY <2>1 DEF DogLoop, DogGoto
  <2>3. thread = d /\ thread # None
    BY <2>2, DogNumbers DEF SessionInv, ThreadInv, Alive
  <2>4. stops > 0
    BY <2>2, AnrAssumption DEF SessionInv, AwakeInv
  <2>5. caller \notin {"idle", "create", "reset"}
    BY <2>2, <2>3, DogNumbers DEF SessionInv, CallerInv, Started
  <2> QED
    BY <2>4, <2>5
<1> QED
  BY <1>1, SessionInvariant, PTL DEF Spec, WatchdogEnds

-----------------------------------------------------------------------------
(* The alerts are paid for                                                 *)

\* `pid' is lost with the first shutdown: until then there was one session.
FirstInv ==
    pid => /\ lastCall # "stopped"
           /\ caller \notin StopPCs => enabled
           /\ \/ caller \in {"create", "semInit"}
              \/ caller = "idle" /\ lastCall # "started"
              => /\ ~installed /\ ~mustPoll /\ ~triggered
                 /\ \A h \in Anrs : handler[h] = "none"

Ended == {h \in Anrs : handler[h] = "end"}
Rung  == {h \in Anrs : handler[h] \in {"post", "end"}}
OnDog == {h \in Rung : host[h] \in Dogs}

\* An interceptor on watchdog d has not triggered yet.
Ringing(d) == \E h \in Anrs : host[h] = d /\ handler[h] \in {"enter", "collect", "trigger"}

\* Watchdog d is bound to alert ART without another look at the semaphore.
Answering(d) ==
    \/ dog[d] = "alert"
    \/ dog[d] = "poll" /\ (mustPoll => triggered) /\ ~Ringing(d)
    \/ dog[d] = "choose" /\ mustPoll /\ triggered

Charge == IF \E d \in Dogs : Answering(d) THEN 1 ELSE 0

\* The posts that a watchdog can still find.
Posts == IF ~mustPoll \/ \E d \in Dogs : dog[d] = "wait" THEN sem ELSE 0

\* With the semaphore an interceptor has paid for one alert when it has posted,
\* without it when it has triggered; one on a watchdog, which it makes poll,
\* pays for a second one.
Paid == Cardinality(IF mustPoll THEN Rung ELSE Ended) + Cardinality(OnDog)

AlertInv ==
    /\ alerts <= Cardinality(Rung) + Cardinality(OnDog)
    /\ pid /\ enabled => alerts + Posts + Charge <= Paid

LEMMA Counting ==
    /\ \A S \in SUBSET Anrs : Cardinality(S) \in Nat
    /\ \A S, T \in SUBSET Anrs : S \subseteq T => Cardinality(S) <= Cardinality(T)
    /\ \A S \in SUBSET Anrs, h \in Anrs :
           h \notin S => Cardinality(S \cup {h}) = Cardinality(S) + 1
<1>1. IsFiniteSet(Anrs)
  BY FS_Interval, AnrAssumption DEF Anrs
<1>2. \A S \in SUBSET Anrs : IsFiniteSet(S)
  BY <1>1, FS_Subset
<1>3. \A S \in SUBSET Anrs : Cardinality(S) \in Nat
  BY <1>2, FS_CardinalityType
<1>4. \A S, T \in SUBSET Anrs : S \subseteq T => Cardinality(S) <= Cardinality(T)
  BY <1>2, FS_Subset
<1>5. \A S \in SUBSET Anrs, h \in Anrs :
          h \notin S => Cardinality(S \cup {h}) = Cardinality(S) + 1
  BY <1>2, FS_AddElement
<1> QED
  BY <1>3, <1>4, <1>5

LEMMA FirstInvStep ==
    ASSUME Ordered, TypeInv, CallerInv, FirstInv, [Next]_vars
    PROVE  FirstInv'
<1> USE DEF FirstInv, StopPCs, CallerGoto, flags, target, calls
<1>1. CASE StartCall \/ StopCall
  BY <1>1 DEF StartCall, StopCall
<1>2. CASE CreateWatchdog \/ CreateFails
  BY <1>2 DEF CreateWatchdog, CreateFails
<1>3. CASE SemInit \/ SemInitFails \/ Install \/ AllocBuffer
  BY <1>3 DEF SemInit, SemInitFails, Install, AllocBuffer
<1>4. CASE Enable \/ Join \/ Reset
  BY <1>4 DEF Enable, Join, Reset
<1>5. CASE StopPost
  BY <1>5 DEF StopPost, SemPost
<1>6. ASSUME NEW d \in Dogs, DogStep(d) PROVE FirstInv'
  BY <1>6 DEF DogStep, DogLoop, DogChoose, SemWait, Poll, Alert
<1>7. ASSUME NEW h \in Anrs, NEW t \in Hosts, Deliver(h, t) PROVE FirstInv'
  BY <1>7 DEF Deliver
<1>8. ASSUME NEW h \in Anrs, HandlerStep(h) PROVE FirstInv'
  <2>1. handler[h] # "none"
    BY <1>8 DEF HandlerStep, Enter, Collect, Trigger, Post, HandlerGoto
  <2> QED
    BY <1>8, <2>1, OthersStep
<1>9. CASE UNCHANGED vars
  BY <1>9 DEF vars
<1> QED
  BY <1>1, <1>2, <1>3, <1>4, <1>5, <1>6, <1>7, <1>8, <1>9, NextCases DEF CallerStep

\* The quantities that AlertInv compares are numbers.
Amounts ==
    /\ alerts \in Nat /\ Posts \in Nat /\ Charge \in {0, 1} /\ Paid \in Nat
    /\ Cardinality(Rung) \in Nat /\ Cardinality(Ended) \in Nat
    /\ Cardinality(OnDog) \in Nat /\ Cardinality(Ended) <= Cardinality(Rung)
    /\ Paid = (IF mustPoll THEN Cardinality(Rung) ELSE Cardinality(Ended))
                 + Cardinality(OnDog)

LEMMA AmountsNow == TypeInv => Amounts
<1> SUFFICES ASSUME TypeInv PROVE Amounts
  OBVIOUS
<1>1. /\ Rung \in SUBSET Anrs /\ Ended \in SUBSET Anrs /\ OnDog \in SUBSET Anrs
      /\ Ended \subseteq Rung
  BY DEF Rung, Ended, OnDog
<1>2. sem \in Nat /\ alerts \in Nat
  BY DEF TypeInv, TypeOK
<1>3. Posts \in Nat /\ Charge \in {0, 1}
  BY <1>2 DEF Posts, Charge
<1>4. /\ Cardinality(Rung) \in Nat /\ Cardinality(Ended) \in Nat
      /\ Cardinality(OnDog) \in Nat /\ Cardinality(Ended) <= Cardinality(Rung)
  BY <1>1, Counting
<1>5. Paid = (IF mustPoll THEN Cardinality(Rung) ELSE Cardinality(Ended))
               + Cardinality(OnDog)
  BY DEF Paid
<1> QED
  BY <1>2, <1>3, <1>4, <1>5 DEF Amounts

LEMMA AmountsNext == TypeInv' => Amounts'
  BY AmountsNow, PTL

\* The account is kept by a step that charges k more, if k more is paid in it.
LEMMA Account ==
    ASSUME TypeInv, TypeInv', AlertInv, alerts' = alerts,
           Rung \subseteq Rung', OnDog \subseteq OnDog',
           pid' /\ enabled' => pid /\ enabled,
           NEW k \in {0, 1},
           pid' /\ enabled' => /\ Posts' + Charge' <= Posts + Charge + k
                               /\ Paid + k <= Paid'
    PROVE  AlertInv'
<1>1. Amounts /\ Amounts'
  BY AmountsNow, AmountsNext
<1>2. ASSUME pid' /\ enabled' PROVE alerts' + Posts' + Charge' <= Paid'
  <2>1. /\ alerts + Posts + Charge <= Paid /\ Posts' + Charge' <= Posts + Charge + k
        /\ Paid + k <= Paid'
    BY <1>2 DEF AlertInv
  <2>2. /\ alerts \in Nat /\ Posts \in Nat /\ Charge \in Nat /\ Paid \in Nat
        /\ Posts' \in Nat /\ Charge' \in Nat /\ Paid' \in Nat
    BY <1>1 DEF Amounts
  <2>3. PICK p1 \in Nat, c1 \in Nat, m1 \in Nat :
            p1 = Posts' /\ c1 = Charge' /\ m1 = Paid'
    BY <2>2, Zenon
  <2>4. p1 + c1 <= Posts + Charge + k /\ Paid + k <= m1
    BY <2>1, <2>3, Zenon
  <2>5. alerts + p1 + c1 <= m1
    BY <2>1, <2>2, <2>4
  <2> QED
    BY <2>3, <2>5, Zenon
<1>3. (alerts <= Cardinality(Rung) + Cardinality(OnDog))'
  <2>1. PICK r \in SUBSET Anrs, o \in SUBSET Anrs : r = Rung' /\ o = OnDog'
    BY DEF Rung, OnDog
  <2>2. /\ Rung \in SUBSET Anrs /\ OnDog \in SUBSET Anrs
        /\ Rung \subseteq r /\ OnDog \subseteq o
    BY <2>1 DEF Rung, OnDog
  <2>3. /\ Cardinality(Rung) <= Cardinality(r) /\ Cardinality(OnDog) <= Cardinality(o)
        /\ Cardinality(r) \in Nat /\ Cardinality(o) \in Nat
        /\ Cardinality(Rung) \in Nat /\ Cardinality(OnDog) \in Nat
    BY <2>2, Counting
  <2>4. alerts <= Cardinality(r) + Cardinality(o)
    BY <2>3, <1>1 DEF AlertInv, Amounts
  <2> QED
    BY <2>1, <2>4, Zenon
<1> QED
  BY <1>2, <1>3 DEF AlertInv

\* A step that rings nowhere, and after which no more can be charged than before,
\* keeps the account.
LEMMA SameAccount ==
    ASSUME TypeInv, TypeInv', AlertInv, UNCHANGED <<Rung, Ended, OnDog, alerts>>,
           pid' /\ enabled' => /\ pid /\ enabled
                               /\ mustPoll => mustPoll'
                               /\ Posts' + Charge' <= Posts + Charge
    PROVE  AlertInv'
<1>1. Amounts /\ Amounts'
  BY AmountsNow, AmountsNext
<1>2. UNCHANGED <<Cardinality(Rung), Cardinality(Ended), Cardinality(OnDog)>>
  OBVIOUS
<1>3. ASSUME pid' /\ enabled' PROVE Paid + 0 <= Paid'
  <2>1. CASE mustPoll
    BY <1>1, <1>2, <1>3, <2>1 DEF Amounts
  <2>2. CASE ~mustPoll
    BY <1>1, <1>2, <2>2 DEF Amounts
  <2> QED
    BY <2>1, <2>2
<1>4. Posts + Charge + 0 = Posts + Charge
  BY <1>1 DEF Amounts
<1>5. pid' /\ enabled' => Posts' + Charge' <= Posts + Charge + 0 /\ Paid + 0 <= Paid'
  BY <1>3, <1>4, Zenon
<1> QED
  BY <1>5, Account

\* The caller rings nothing and wakes no watchdog: a stop's post finds `enabled'
\* false already.
LEMMA CallerAlertStep ==
    ASSUME Ordered, TypeInv, TypeInv', CallerInv, ThreadInv, FirstInv, AlertInv,
           StartCall \/ StopCall \/ CallerStep
    PROVE  AlertInv'
<1>1. UNCHANGED <<handler, host, alerts>>
  BY DEF StartCall, StopCall, CallerStep, CreateWatchdog, CreateFails, SemInit, SemInitFails,
     Install, AllocBuffer, Enable, StopPost, Join, Reset, alarm
<1>2. UNCHANGED <<Rung, Ended, OnDog, alerts>>
  BY <1>1 DEF Rung, Ended, OnDog
<1>3. \A d \in Dogs : Ringing(d)' <=> Ringing(d)
  BY <1>1 DEF Ringing
<1>4. CASE StartCall \/ CreateFails \/ Install \/ AllocBuffer \/ Enable
  <2>1. UNCHANGED <<dog, triggered, mustPoll, sem>>
    BY <1>4 DEF StartCall, CreateFails, Install, AllocBuffer, Enable, flags
  <2>2. pid' /\ enabled' => pid /\ enabled
    BY <1>4 DEF StartCall, CreateFails, Install, AllocBuffer, Enable, flags, target, FirstInv,
       CallerGoto, StopPCs
  <2>3. Posts' + Charge' <= Posts + Charge
    BY <1>3, <2>1, AmountsNow DEF Posts, Charge, Answering, Amounts
  <2> QED
    BY <1>2, <2>1, <2>2, <2>3, SameAccount
<1>5. CASE StopCall \/ StopPost \/ Join \/ Reset
  <2>1. ~enabled'
    BY <1>5 DEF StopCall, StopPost, Join, Reset, CallerInv, CallerGoto, StopPCs, flags
  <2> QED
    BY <1>2, <2>1, SameAccount
<1>6. CASE CreateWatchdog
  <2>1. thread = None /\ starts \in Dogs
    BY <1>6 DEF CreateWatchdog, CallerGoto, CallerInv, Started, TypeInv, StartPCs
  <2>2. \A d \in Dogs : dog[d] \in {"none", "end"}
    BY <2>1, DogNumbers DEF ThreadInv, Alive
  <2>3. \A d \in Dogs : dog'[d] \in {"none", "end", "loop"}
    BY <1>6, <2>1, <2>2 DEF CreateWatchdog, TypeInv, TypeOK
  <2>4. \A d \in Dogs : ~Answering(d)' /\ dog'[d] # "wait" /\ dog[d] # "wait"
    BY <2>2, <2>3 DEF Answering
  <2>5. UNCHANGED <<flags, target>>
    BY <1>6 DEF CreateWatchdog
  <2>6. Posts' + Charge' <= Posts + Charge
    BY <2>4, <2>5, AmountsNow DEF Posts, Charge, flags, Amounts, TypeInv, TypeOK
  <2> QED
    BY <1>2, <2>5, <2>6, SameAccount DEF flags, target
<1>7. CASE SemInit
  <2>1. \A d \in Dogs : dog'[d] \in {"alert", "poll", "choose"} => dog'[d] = dog[d]
    BY <1>7 DEF SemInit
  <2>2. UNCHANGED <<enabled, triggered, pid>> /\ ~mustPoll' /\ sem' = 0
    BY <1>7 DEF SemInit, target
  <2>3. pid /\ enabled => ~mustPoll
    BY <1>7 DEF SemInit, FirstInv, CallerGoto
  <2>4. pid /\ enabled => \A d \in Dogs : Answering(d)' => Answering(d)
    BY <1>3, <2>1, <2>2, <2>3 DEF Answering
  <2>5. pid /\ enabled => Posts' + Charge' <= Posts + Charge
    BY <2>2, <2>4, AmountsNow DEF Posts, Charge, Amounts
  <2> QED
    BY <1>2, <2>2, <2>3, <2>5, SameAccount
<1>8. CASE SemInitFails
  <2>1. UNCHANGED <<dog, enabled, triggered, pid, sem>> /\ mustPoll'
    BY <1>8 DEF SemInitFails, target
  <2>2. pid /\ enabled => ~mustPoll /\ ~triggered
    BY <1>8 DEF SemInitFails, FirstInv, CallerGoto
  <2>3. pid /\ enabled => \A d \in Dogs : Answering(d)' => Answering(d)
    BY <1>3, <2>1, <2>2 DEF Answering
  <2>4. pid /\ enabled => Posts' + Charge' <= Posts + Charge
    BY <2>1, <2>2, <2>3, AmountsNow DEF Posts, Charge, Amounts
  <2> QED
    BY <1>2, <2>1, <2>2, <2>4, SameAccount
<1> QED
  BY <1>4, <1>5, <1>6, <1>7, <1>8 DEF CallerStep

\* One watchdog runs at most: it is the one that the account is about.
LEMMA OneDog ==
    \A d \in Dogs :
        (\A e \in Dogs \ {d} : ~Alive(e)) =>
            /\ Charge = IF Answering(d) THEN 1 ELSE 0
            /\ Posts = IF ~mustPoll \/ dog[d] = "wait" THEN sem ELSE 0
<1> SUFFICES ASSUME NEW d \in Dogs, \A e \in Dogs \ {d} : ~Alive(e)
             PROVE  /\ Charge = IF Answering(d) THEN 1 ELSE 0
                    /\ Posts = IF ~mustPoll \/ dog[d] = "wait" THEN sem ELSE 0
  OBVIOUS
<1>1. \A e \in Dogs : Answering(e) \/ dog[e] = "wait" => e = d
  BY DEF Alive, Answering
<1> QED
  BY <1>1 DEF Charge, Posts

LEMMA OneDogNext ==
    ASSUME NEW d \in Dogs, \A e \in Dogs \ {d} : ~Alive(e)'
    PROVE  /\ Charge' = IF Answering(d)' THEN 1 ELSE 0
           /\ Posts' = IF ~mustPoll' \/ dog'[d] = "wait" THEN sem' ELSE 0
<1>1. \A e \in Dogs : Answering(e)' \/ dog'[e] = "wait" => e = d
  BY DEF Alive, Answering
<1> QED
  BY <1>1 DEF Charge, Posts

\* A round of the watchdog spends a post or a trigger on each alert.
LEMMA DogAlertStep ==
    ASSUME TypeInv, TypeInv', ThreadInv, AlertInv, NEW d \in Dogs, DogStep(d)
    PROVE  AlertInv'
<1> USE DEF TypeInv, TypeOK
<1>1. UNCHANGED <<handler, host, enabled, mustPoll, pid>>
  BY DEF DogStep, DogLoop, DogChoose, SemWait, Poll, Alert, flags, target
<1>2. UNCHANGED <<Rung, Ended, OnDog>>
  BY <1>1 DEF Rung, Ended, OnDog
<1>3. PICK to : dog' = [dog EXCEPT ![d] = to] /\ Alive(d) /\ Free(d)
  BY DEF DogStep, DogLoop, DogChoose, SemWait, Poll, Alert, DogGoto, Alive
<1>4. \A e \in Dogs \ {d} : ~Alive(e) /\ ~Alive(e)'
  BY <1>3 DEF ThreadInv, Alive
<1>5. /\ Charge = IF Answering(d) THEN 1 ELSE 0
      /\ Posts = IF ~mustPoll \/ dog[d] = "wait" THEN sem ELSE 0
  BY <1>4, OneDog
<1>6. /\ Charge' = IF Answering(d)' THEN 1 ELSE 0
      /\ Posts' = IF ~mustPoll' \/ dog'[d] = "wait" THEN sem' ELSE 0
  BY <1>4, OneDogNext
<1>7. ~Ringing(d) /\ ~Ringing(d)'
  BY <1>1, <1>3 DEF Ringing, Free, Running
<1>8. CASE DogLoop(d)
  <2>1. UNCHANGED <<alerts, sem>> /\ dog[d] = "loop"
    BY <1>8 DEF DogLoop, DogGoto, alarm
  <2>2. enabled => dog'[d] = "choose" /\ ~triggered'
    BY <1>8 DEF DogLoop, DogGoto
  <2>3. enabled => ~Answering(d)'
    BY <2>2 DEF Answering
  <2>4. enabled => Posts' + Charge' <= Posts + Charge
    BY <1>1, <1>5, <1>6, <2>1, <2>2, <2>3
  <2> QED
    BY <1>1, <1>2, <2>1, <2>4, SameAccount
<1>9. CASE DogChoose(d)
  <2>1. /\ UNCHANGED <<alerts, sem, triggered>> /\ dog[d] = "choose"
        /\ dog'[d] = IF mustPoll THEN "poll" ELSE "wait"
    BY <1>9 DEF DogChoose, DogGoto, alarm, flags
  <2>2. Answering(d)' => Answering(d)
    BY <1>1, <2>1 DEF Answering
  <2>3. Posts' + Charge' <= Posts + Charge
    BY <1>1, <1>5, <1>6, <2>1, <2>2
  <2> QED
    BY <1>1, <1>2, <2>1, <2>3, SameAccount
<1>10. CASE SemWait(d)
  <2>1. UNCHANGED <<alerts, triggered>> /\ dog[d] = "wait" /\ dog'[d] = "alert"
    BY <1>10 DEF SemWait, DogGoto, alarm
  <2>2. sem > 0 /\ sem' = sem - 1
    BY <1>10 DEF SemWait
  <2>3. ~Answering(d)
    BY <2>1 DEF Answering
  <2>4. Posts' + Charge' <= Posts + Charge
    BY <1>1, <1>5, <1>6, <2>1, <2>2, <2>3
  <2> QED
    BY <1>1, <1>2, <2>1, <2>4, SameAccount
<1>11. CASE Poll(d)
  <2>1. /\ UNCHANGED <<alerts, sem>> /\ dog[d] = "poll" /\ dog'[d] = "alert"
        /\ enabled => triggered
    BY <1>11 DEF Poll, DogGoto, alarm, flags
  <2>2. enabled => Answering(d)
    BY <1>7, <2>1 DEF Answering
  <2>3. enabled => Posts' + Charge' <= Posts + Charge
    BY <1>1, <1>5, <1>6, <2>1, <2>2
  <2> QED
    BY <1>1, <1>2, <2>1, <2>3, SameAccount
<1>12. CASE Alert(d)
  <2>1. UNCHANGED sem /\ dog[d] = "alert" /\ dog'[d] = "loop"
    BY <1>12 DEF Alert, DogGoto, flags
  <2>2. Charge = 1 /\ Charge' = 0 /\ Posts' = Posts
    BY <1>1, <1>5, <1>6, <2>1 DEF Answering
  <2>3. Paid' = Paid
    BY <1>1, <1>2 DEF Paid
  <2>4. \/ UNCHANGED alerts
        \/ pid /\ enabled /\ alerts' = alerts + 1
    BY <1>12 DEF Alert, alarm
  <2>5. Amounts
    BY AmountsNow
  <2>6. pid' /\ enabled' => alerts' + Posts' + Charge' <= Paid'
    <3>1. pid /\ enabled => alerts' + Posts + 0 <= Paid
      BY <2>2, <2>4, <2>5 DEF AlertInv, Amounts
    <3> QED
      BY <1>1, <2>2, <2>3, <3>1, Zenon
  <2>7. (alerts <= Cardinality(Rung) + Cardinality(OnDog))'
    <3>1. alerts' <= Cardinality(Rung) + Cardinality(OnDog)
      BY <2>2, <2>4, <2>5 DEF AlertInv, Amounts
    <3> QED
      BY <1>2, <3>1, Zenon
  <2> QED
    BY <2>6, <2>7 DEF AlertInv
<1> QED
  BY <1>8, <1>9, <1>10, <1>11, <1>12 DEF DogStep

\* The delivery of the signal, which may make a watchdog poll, charges nothing: its
\* interceptor has still to trigger.
LEMMA DeliverAlertStep ==
    ASSUME TypeInv, TypeInv', AlertInv, NEW h \in Anrs, NEW t \in Hosts, Deliver(h, t)
    PROVE  AlertInv'
<1> USE DEF TypeInv, TypeOK
<1>1. /\ UNCHANGED <<enabled, mustPoll, triggered, sem, pid, alerts>>
      /\ handler[h] = "none" /\ handler' = [handler EXCEPT ![h] = "enter"]
      /\ host' = [host EXCEPT ![h] = t]
  BY DEF Deliver, HandlerGoto, flags, target, alarm
<1>2. \A d \in Dogs : dog'[d] = dog[d] \/ (d = t /\ dog'[d] = "poll")
  BY DEF Deliver
<1>3. UNCHANGED <<Rung, Ended, OnDog>>
  <2>1. \A g \in Anrs : handler'[g] \in {"post", "end"} <=> handler[g] \in {"post", "end"}
    BY <1>1
  <2>2. \A g \in Anrs : handler'[g] \in {"post", "end"} => host'[g] = host[g]
    BY <1>1
  <2>3. \A g \in Anrs : handler'[g] = "end" <=> handler[g] = "end"
    BY <1>1
  <2>4. Rung' = Rung
    BY <2>1 DEF Rung
  <2>5. Ended' = Ended
    BY <2>3 DEF Ended
  <2>6. OnDog' = OnDog
    BY <2>1, <2>2 DEF OnDog, Rung
  <2> QED
    BY <2>4, <2>5, <2>6
<1>4. \A d \in Dogs : Ringing(d) => Ringing(d)'
  BY <1>1 DEF Ringing
<1>5. Ringing(t)'
  BY <1>1 DEF Ringing
<1>6. \A d \in Dogs : Answering(d)' => Answering(d)
  BY <1>1, <1>2, <1>4, <1>5 DEF Answering
<1>7. Posts' + Charge' <= Posts + Charge
  BY <1>1, <1>2, <1>6, AmountsNow DEF Posts, Charge, Amounts
<1> QED
  BY <1>1, <1>3, <1>7, SameAccount

\* An interceptor pays for what it rings: with the trigger where the watchdog
\* polls, with the post where it waits.
LEMMA HandlerAlertStep ==
    ASSUME TypeInv, TypeInv', AlertInv, NEW h \in Anrs, HandlerStep(h)
    PROVE  AlertInv'
<1> USE DEF TypeInv, TypeOK
<1>1. UNCHANGED <<dog, host, enabled, pid, alerts>>
  BY DEF HandlerStep, Enter, Collect, Trigger, Post, flags, target, alarm
<1>2. Amounts /\ Rung \in SUBSET Anrs /\ Ended \in SUBSET Anrs /\ OnDog \in SUBSET Anrs
  BY AmountsNow DEF Rung, Ended, OnDog
<1>3. CASE Enter(h) \/ Collect(h)
  <2>1. /\ UNCHANGED <<mustPoll, triggered, sem>>
        /\ handler[h] \in {"enter", "collect"}
    BY <1>3 DEF Enter, Collect, HandlerGoto, flags
  <2>2. PICK to \in {"collect", "trigger"} : handler' = [handler EXCEPT ![h] = to]
    BY <1>3 DEF Enter, Collect, HandlerGoto
  <2>3. UNCHANGED <<Rung, Ended, OnDog>>
    <3>1. \A g \in Anrs : handler'[g] \in {"post", "end"} <=> handler[g] \in {"post", "end"}
      BY <2>1, <2>2
    <3>2. \A g \in Anrs : handler'[g] = "end" <=> handler[g] = "end"
      BY <2>1, <2>2
    <3> QED
      BY <1>1, <3>1, <3>2 DEF Rung, Ended, OnDog
  <2>4. \A d \in Dogs : Ringing(d) => Ringing(d)'
    BY <1>1, <2>1, <2>2 DEF Ringing
  <2>5. \A d \in Dogs : Answering(d)' => Answering(d)
    BY <1>1, <2>1, <2>4 DEF Answering
  <2>6. Posts' + Charge' <= Posts + Charge
    BY <1>1, <1>2, <2>1, <2>5 DEF Posts, Charge, Amounts
  <2> QED
    BY <1>1, <2>1, <2>3, <2>6, SameAccount
<1>4. CASE Trigger(h)
  <2>1. /\ UNCHANGED <<mustPoll, sem>> /\ triggered'
        /\ handler[h] = "trigger" /\ handler' = [handler EXCEPT ![h] = "post"]
    BY <1>4 DEF Trigger, HandlerGoto
  <2>2. h \notin Rung /\ Rung' = Rung \cup {h} /\ Ended' = Ended
    BY <2>1 DEF Rung, Ended
  <2>3. OnDog' = IF host[h] \in Dogs THEN OnDog \cup {h} ELSE OnDog
    BY <1>1, <2>1 DEF OnDog, Rung
  <2>4. h \notin OnDog
    BY <2>2 DEF OnDog
  <2>5. Posts' = Posts
    BY <1>1, <2>1 DEF Posts
  <2>6. CASE ~mustPoll /\ host[h] \notin Dogs
    <3>1. \A d \in Dogs : Ringing(d) => Ringing(d)'
      BY <1>1, <2>1, <2>6 DEF Ringing
    <3>2. \A d \in Dogs : Answering(d)' => Answering(d)
      BY <1>1, <2>1, <2>6, <3>1 DEF Answering
    <3>3. Posts' + Charge' <= Posts + Charge + 0
      BY <1>2, <2>5, <3>2 DEF Charge, Amounts
    <3>4. Paid + 0 <= Paid'
      BY <1>2, <2>1, <2>2, <2>3, <2>6 DEF Paid, Amounts
    <3> QED
      BY <1>1, <2>2, <2>3, <3>3, <3>4, Account
  <2>7. CASE mustPoll \/ host[h] \in Dogs
    <3>1. Posts' + Charge' <= Posts + Charge + 1
      BY <1>2, <2>5 DEF Charge, Amounts
    <3>2. /\ Cardinality(Rung \cup {h}) = Cardinality(Rung) + 1
          /\ Cardinality(OnDog \cup {h}) = Cardinality(OnDog) + 1
      BY <1>2, <2>2, <2>4, Counting
    <3>3. Paid + 1 <= Paid'
      BY <1>2, <2>1, <2>2, <2>3, <2>7, <3>2 DEF Paid, Amounts
    <3> QED
      BY <1>1, <2>2, <2>3, <3>1, <3>3, Account
  <2> QED
    BY <2>6, <2>7
<1>5. CASE Post(h)
  <2>1. /\ UNCHANGED triggered
        /\ handler[h] = "post" /\ handler' = [handler EXCEPT ![h] = "end"]
    BY <1>5 DEF Post, HandlerGoto
  <2>2. Rung' = Rung /\ OnDog' = OnDog
    <3>1. \A g \in Anrs : handler'[g] \in {"post", "end"} <=> handler[g] \in {"post", "end"}
      BY <2>1
    <3> QED
      BY <1>1, <3>1 DEF Rung, OnDog
  <2>3. h \notin Ended /\ Ended' = Ended \cup {h} /\ Ended \cup {h} \in SUBSET Rung
    BY <2>1 DEF Ended, Rung
  <2>4. /\ Cardinality(Ended \cup {h}) = Cardinality(Ended) + 1
        /\ Cardinality(Ended \cup {h}) <= Cardinality(Rung)
    BY <1>2, <2>3, Counting
  <2>5. \A d \in Dogs : Ringing(d) => Ringing(d)'
    BY <1>1, <2>1 DEF Ringing
  <2>6. CASE ~mustPoll /\ sem' = sem + 1 /\ UNCHANGED mustPoll
    <3>1. \A d \in Dogs : Answering(d)' => Answering(d)
      BY <1>1, <2>1, <2>5, <2>6 DEF Answering
    <3>2. Posts' + Charge' <= Posts + Charge + 1
      BY <1>1, <1>2, <2>6, <3>1 DEF Posts, Charge, Amounts
    <3>3. Paid + 1 <= Paid'
      BY <1>2, <2>2, <2>3, <2>4, <2>6 DEF Paid, Amounts
    <3> QED
      BY <1>1, <2>2, <3>2, <3>3, Account
  <2>7. CASE mustPoll /\ UNCHANGED <<sem, mustPoll>>
    <3>1. \A d \in Dogs : Answering(d)' => Answering(d)
      BY <1>1, <2>1, <2>5, <2>7 DEF Answering
    <3>2. Posts' + Charge' <= Posts + Charge + 0
      BY <1>1, <1>2, <2>7, <3>1 DEF Posts, Charge, Amounts
    <3>3. Paid + 0 <= Paid'
      BY <1>2, <2>2, <2>7 DEF Paid, Amounts
    <3> QED
      BY <1>1, <2>2, <3>2, <3>3, Account
  <2>8. CASE ~mustPoll /\ mustPoll' /\ UNCHANGED sem
    <3>1. Posts' + Charge' <= Posts + Charge + 1
      BY <1>1, <1>2, <2>8 DEF Posts, Charge, Amounts
    <3>2. Paid + 1 <= Paid'
      BY <1>2, <2>2, <2>4, <2>8 DEF Paid, Amounts
    <3> QED
      BY <1>1, <2>2, <3>1, <3>2, Account
  <2> QED
    BY <1>5, <2>6, <2>7, <2>8 DEF Post, SemPost
<1> QED
  BY <1>3, <1>4, <1>5 DEF HandlerStep

\* ART is alerted of no more ANRs than were intercepted (anr-handler.cpp:60 and
\* 103), in every interleaving of the watchdog, the interceptors and a stop, with
\* the semaphore and without it.
THEOREM AlertsPaidFor == Ordered => (Spec => []NoSpuriousAlert)
<1> SUFFICES ASSUME Ordered PROVE Spec => []NoSpuriousAlert
  OBVIOUS
<1>1. Init => FirstInv /\ AlertInv
  <2> SUFFICES ASSUME Init PROVE FirstInv /\ AlertInv
    OBVIOUS
  <2>1. FirstInv
    BY DEF Init, FirstInv
  <2>2. Rung = {} /\ Ended = {} /\ OnDog = {}
    BY DEF Init, Rung, Ended, OnDog
  <2>3. \A d \in Dogs : ~Answering(d)
    BY DEF Init, Answering
  <2>4. Posts = 0 /\ Charge = 0 /\ alerts = 0
    BY <2>3 DEF Init, Posts, Charge
  <2> QED
    <3>1. Cardinality({}) = 0
      BY FS_EmptySet
    <3>2. Paid = 0 /\ Cardinality(Rung) = 0 /\ Cardinality(OnDog) = 0
      BY <2>2, <3>1 DEF Paid
    <3> QED
      BY <2>1, <2>4, <3>2 DEF AlertInv
<1>2. /\ TypeInv /\ SessionInv /\ FirstInv /\ AlertInv /\ TypeInv' /\ [Next]_vars
      => FirstInv' /\ AlertInv'
  <2> SUFFICES ASSUME TypeInv, SessionInv, FirstInv, AlertInv, TypeInv', [Next]_vars
               PROVE  FirstInv' /\ AlertInv'
    OBVIOUS
  <2>1. FirstInv'
    BY FirstInvStep DEF SessionInv
  <2>2. CASE StartCall \/ StopCall \/ CallerStep
    BY <2>1, <2>2, CallerAlertStep DEF SessionInv
  <2>3. CASE \E d \in Dogs : DogStep(d)
    BY <2>1, <2>3, DogAlertStep DEF SessionInv
  <2>4. CASE \E h \in Anrs : HandlerStep(h) \/ \E t \in Hosts : Deliver(h, t)
    BY <2>1, <2>4, HandlerAlertStep, DeliverAlertStep
  <2>5. CASE UNCHANGED vars
    <3>1. AlertInv'
      BY <2>5 DEF vars, flags, target, alarm, AlertInv, Rung, Ended, OnDog, Posts, Charge,
         Paid, Answering, Ringing
    <3> QED
      BY <2>1, <3>1
  <2> QED
    BY <2>2, <2>3, <2>4, <2>5, NextCases
<1>3. AlertInv => NoSpuriousAlert
  BY DEF AlertInv, NoSpuriousAlert, Rung, OnDog
<1> QED
  BY <1>1, <1>2, <1>3, SessionInvariant, PTL DEF Spec
=============================================================================
