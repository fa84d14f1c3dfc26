-------------------------- MODULE ANRMonitorProofs --------------------------
(***************************************************************************)
(* Theorems about ANRMonitor, for any number of samples, retries, starts   *)
(* and stops.                                                              *)
(***************************************************************************)
EXTENDS ANRMonitor, TLAPS

\* Types are kept; in particular a post never adds to a backlog, and the sample
\* counter never reaches zero (ANRMonitor.kt:56 and 81).
THEOREM TypeInvariant == Spec => []TypeOK
<1> USE MonitorAssumption
<1>0. /\ 0 \in 0..1 /\ 1 \in 0..1
      /\ 0 \in 0..MaxStarts /\ 0 \in 0..MaxStops /\ 0 \in 0..Retries
      /\ 0 \in 0..ANR_SAMPLE_CNT /\ ANR_SAMPLE_CNT \in 1..ANR_SAMPLE_CNT
  OBVIOUS
<1>1. Init => TypeOK
  <2>1. ASSUME Init PROVE task \in [Tasks -> {"none", "queued", "running", "done", "cancelled"}]
    BY <2>1 DEF Init
  <2> QED
    BY <1>0, <2>1 DEF Init, TypeOK, NoTask
<1>2. TypeOK /\ [Next]_vars => TypeOK'
  <2> SUFFICES ASSUME TypeOK, [Next]_vars PROVE TypeOK'
    OBVIOUS
  <2> USE DEF TypeOK, calls, sample, uiQueue, ui, report, Goto
  <2>1. Cancelled \in [Tasks -> {"none", "queued", "running", "done", "cancelled"}]
    BY DEF Cancelled
  <2>2. Interrupted \in BOOLEAN
    BY DEF Interrupted, isRunning
  <2>3. CASE startMonitor
    <3>1. starts' \in Tasks /\ starts' \in 0..MaxStarts
      BY <2>3 DEF startMonitor, Tasks
    <3> QED
      BY <2>1, <2>2, <2>3, <3>1 DEF startMonitor
  <2>4. CASE stopMonitor
    BY <2>1, <2>2, <2>4 DEF stopMonitor
  <2>5. ASSUME NEW k \in Tasks, TakeTask(k) PROVE TypeOK'
    BY <2>5 DEF TakeTask
  <2>6. CASE BeginThrows \/ End
    <3>1. task' \in [Tasks -> {"none", "queued", "running", "done", "cancelled"}]
      BY <2>6 DEF BeginThrows, End, TaskEnds
    <3> QED
      <4>1. CASE BeginThrows
        BY <3>1, <4>1 DEF BeginThrows, TaskEnds
      <4>2. CASE End
        <5>1. /\ attempt' \in {"none", "due", "delayed"}
              /\ outcome' \in {"none", "pending", "sent", "lost"}
          BY <4>2 DEF End
        <5> QED
          BY <1>0, <3>1, <4>2, <5>1 DEF End, TaskEnds
      <4> QED
        BY <2>6, <4>1, <4>2
  <2>7. CASE Begin \/ Loop \/ SleepEnds
    <3>1. CASE Begin
      BY <3>1 DEF Begin
    <3>2. CASE Loop
      <4>1. pc' = "end" \/ pc' = "post"
        BY <3>2 DEF Loop
      <4>2. /\ interrupted' = FALSE
            /\ UNCHANGED <<calls, task, sample, uiQueue, ui, looper, report>>
        BY <3>2 DEF Loop
      <4>3. CASE pc' = "end"
        BY <4>2, <4>3
      <4>4. CASE pc' = "post"
        BY <4>2, <4>4
      <4> QED
        BY <4>1, <4>3, <4>4
    <3>3. CASE SleepEnds
      BY <3>3 DEF SleepEnds
    <3> QED
      BY <2>7, <3>1, <3>2, <3>3
  <2>8. CASE PostRunner \/ PostFails \/ Wake
    <3>1. CASE PostRunner
      BY <1>0, <3>1 DEF PostRunner
    <3>2. CASE PostFails
      BY <1>0, <3>2 DEF PostFails
    <3>3. CASE Wake
      BY <3>3 DEF Wake
    <3> QED
      BY <2>8, <3>1, <3>2, <3>3
  <2>9. CASE Query
    BY <2>9 DEF Query, inANRState
  <2>10. CASE Calm \/ CountSample \/ createANRReport
    BY <2>10 DEF Calm, CountSample, createANRReport
  <2>11. CASE ReportStep
    BY <2>11 DEF ReportStep, Send, Retry, RetryDue
  <2>12. CASE Interrupt
    BY <2>12 DEF Interrupt
  <2>13. CASE Hang \/ Recover \/ Declare
    <3>1. CASE Hang \/ Recover
      BY <3>1 DEF Hang, Recover
    <3>2. CASE Declare
      BY <3>2 DEF Declare
    <3> QED
      BY <2>13, <3>1, <3>2
  <2>14. CASE TakeRunner \/ RunRunner
    <3>1. CASE TakeRunner
      BY <3>1 DEF TakeRunner
    <3>2. CASE RunRunner
      BY <3>2 DEF RunRunner
    <3> QED
      BY <2>14, <3>1, <3>2
  <2>15. CASE UNCHANGED vars
    BY <2>15 DEF vars
  <2> QED
    BY <2>3, <2>4, <2>5, <2>6, <2>7, <2>8, <2>9, <2>10, <2>11, <2>12, <2>13, <2>14,
       <2>15
    DEF Next, WorkerStep
<1> QED
  BY <1>1, <1>2, PTL DEF Spec

\* While a sample is taken, a runner that has not signalled has not run.
Unsignaled == pc \in {"wait", "query"} /\ ~signaled => ~ran

\* No sample is an ANR when the main thread has run the runner posted for it,
\* however many monitors were started and stopped (ANRMonitor.kt:68 and 73).
THEOREM SamplesSound == Spec => NoFalseAlarm
<1>1. Init => Unsignaled
  BY DEF Init, Unsignaled
<1>2. Unsignaled /\ [Next]_vars => Unsignaled'
  <2> SUFFICES ASSUME Unsignaled, [Next]_vars PROVE Unsignaled'
    OBVIOUS
  <2> USE DEF Unsignaled, calls, sample, uiQueue, ui, report, Goto
  <2>1. CASE startMonitor \/ stopMonitor
    BY <2>1 DEF startMonitor, stopMonitor
  <2>2. CASE (\E k \in Tasks : TakeTask(k)) \/ Begin \/ BeginThrows \/ Loop
    BY <2>2 DEF TakeTask, Begin, BeginThrows, Loop
  <2>3. CASE PostRunner \/ PostFails \/ Wake
    BY <2>3 DEF PostRunner, PostFails, Wake
  <2>4. CASE Query \/ Calm \/ CountSample \/ createANRReport
    BY <2>4 DEF Query, Calm, CountSample, createANRReport
  <2>5. CASE SleepEnds \/ Interrupt \/ End
    BY <2>5 DEF SleepEnds, Interrupt, End
  <2>6. CASE ReportStep
    BY <2>6 DEF ReportStep, Send, Retry, RetryDue
  <2>7. CASE Hang \/ Recover \/ Declare \/ TakeRunner
    BY <2>7 DEF Hang, Recover, Declare, TakeRunner
  <2>8. CASE RunRunner
    BY <2>8 DEF RunRunner
  <2>9. CASE UNCHANGED vars
    BY <2>9 DEF vars
  <2> QED
    BY <2>1, <2>2, <2>3, <2>4, <2>5, <2>6, <2>7, <2>8, <2>9 DEF Next, WorkerStep
<1>3. TypeOK /\ Unsignaled /\ [Next]_vars => [pc = "query" /\ pc' = "judge" /\ isANR' => ~ran]_vars
  <2> SUFFICES ASSUME Unsignaled, [Next]_vars, pc = "query", pc' = "judge", isANR'
               PROVE  ~ran \/ UNCHANGED vars
    OBVIOUS
  <2> USE DEF calls, sample, uiQueue, ui, report, Goto
  <2>1. CASE Query
    BY <2>1 DEF Query, inANRState, Unsignaled
  <2>2. CASE ~Query
    BY <2>2 DEF Next, WorkerStep, ReportStep, startMonitor, stopMonitor, TakeTask, Begin,
                BeginThrows, Loop, PostRunner, PostFails, Wake, Calm, CountSample,
                createANRReport, SleepEnds, Interrupt, End, Send, Retry, RetryDue, Hang,
                Recover, Declare, TakeRunner, RunRunner
  <2> QED
    BY <2>1, <2>2
<1> QED
  BY <1>1, <1>2, <1>3, TypeInvariant, PTL DEF Spec, NoFalseAlarm

\* The task that waits or runs is the one that a stop will cancel, and a worker
\* that has none left to run has been interrupted.
CancelInv ==
    /\ \A k \in Tasks : task[k] \in {"queued", "running"} => k = future
    /\ pc \notin {"idle", "end"} /\ (\A k \in Tasks : task[k] # "running") => interrupted

LEMMA CancelledNow ==
    ASSUME TypeOK, CancelInv
    PROVE  /\ Cancelled \in [Tasks -> {"none", "queued", "running", "done", "cancelled"}]
           /\ \A k \in Tasks : Cancelled[k] \notin {"queued", "running"}
           /\ pc \notin {"idle", "end"} => Interrupted
<1>1. CASE isRunning(task)
  <2>1. future \in Tasks /\ Cancelled = [task EXCEPT ![future] = "cancelled"]
    BY <1>1 DEF isRunning, Cancelled, TypeOK, NoTask
  <2>2. ASSUME NEW k \in Tasks PROVE Cancelled[k] \notin {"queued", "running"}
    BY <2>1 DEF TypeOK, CancelInv
  <2>3. pc \notin {"idle", "end"} => Interrupted
    BY <1>1, <2>1 DEF CancelInv, Interrupted, TypeOK
  <2> QED
    BY <2>1, <2>2, <2>3 DEF TypeOK
<1>2. CASE ~isRunning(task)
  <2>1. Cancelled = task
    BY <1>2 DEF Cancelled
  <2>2. \A k \in Tasks : task[k] \notin {"queued", "running"}
    BY <1>2 DEF isRunning, CancelInv, Tasks, NoTask
  <2> QED
    BY <2>1, <2>2 DEF TypeOK, CancelInv, Interrupted
<1> QED
  BY <1>1, <1>2

\* No interrupt is lost: whatever starts and stops happen while the worker waits,
\* sleeps, samples or reports, it begins no round for a task that was cancelled
\* (ANRMonitor.kt:45 and 194).
THEOREM InterruptKept == Spec => CancelledStops
<1>1. Init => CancelInv
  BY DEF Init, CancelInv
<1>2. TypeOK /\ CancelInv /\ [Next]_vars => CancelInv'
  <2> SUFFICES ASSUME TypeOK, CancelInv, [Next]_vars PROVE CancelInv'
    OBVIOUS
  <2> USE DEF calls, Goto
  <2>1. CASE startMonitor
    <3>1. starts' \in Tasks
      BY <2>1, MonitorAssumption DEF startMonitor, TypeOK, Tasks
    <3>2. \A k \in Tasks : task'[k] \in {"queued", "running"} => k = starts'
      BY <2>1, <3>1, CancelledNow DEF startMonitor
    <3> QED
      BY <2>1, <3>2, CancelledNow DEF startMonitor, CancelInv
  <2>2. CASE stopMonitor
    BY <2>2, CancelledNow DEF stopMonitor, CancelInv
  <2>3. ASSUME NEW k \in Tasks, TakeTask(k) PROVE CancelInv'
    BY <2>3 DEF TakeTask, CancelInv, TypeOK
  <2>4. CASE BeginThrows \/ End
    BY <2>4 DEF BeginThrows, End, TaskEnds, CancelInv
  <2>5. CASE Begin \/ PostRunner \/ PostFails \/ Wake \/ Query
    BY <2>5 DEF Begin, PostRunner, PostFails, Wake, Query, CancelInv
  <2>6. CASE Loop
    BY <2>6 DEF Loop, CancelInv
  <2>7. CASE Calm \/ CountSample \/ createANRReport \/ SleepEnds \/ Interrupt
    BY <2>7 DEF Calm, CountSample, createANRReport, SleepEnds, Interrupt, CancelInv
  <2>8. CASE ReportStep
    BY <2>8 DEF ReportStep, Send, Retry, RetryDue, CancelInv
  <2>9. CASE Hang \/ Recover \/ Declare \/ TakeRunner \/ RunRunner
    BY <2>9 DEF Hang, Recover, Declare, TakeRunner, RunRunner, CancelInv
  <2>10. CASE UNCHANGED vars
    BY <2>10 DEF vars, CancelInv
  <2> QED
    BY <2>1, <2>2, <2>3, <2>4, <2>5, <2>6, <2>7, <2>8, <2>9, <2>10 DEF Next, WorkerStep
<1>3. CancelInv /\ [Next]_vars
          => [pc = "loop" /\ pc' = "post" => \E k \in Tasks : task[k] = "running"]_vars
  <2> SUFFICES ASSUME CancelInv, [Next]_vars, pc = "loop", pc' = "post"
               PROVE  (\E k \in Tasks : task[k] = "running") \/ UNCHANGED vars
    OBVIOUS
  <2>1. CASE Loop
    BY <2>1 DEF Loop, Goto, CancelInv
  <2>2. CASE ~Loop
    BY <2>2 DEF Next, WorkerStep, ReportStep, startMonitor, stopMonitor, TakeTask, Begin,
                BeginThrows, PostRunner, PostFails, Wake, Query, Calm, CountSample,
                createANRReport, SleepEnds, Interrupt, End, Send, Retry, RetryDue, Hang,
                Recover, Declare, TakeRunner, RunRunner, Goto
  <2> QED
    BY <2>1, <2>2
<1> QED
  BY <1>1, <1>2, <1>3, TypeInvariant, PTL DEF Spec, CancelledStops
=============================================================================
