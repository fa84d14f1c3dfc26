----------------------------- MODULE ANRMonitor -----------------------------
(***************************************************************************)
(* The Kotlin monitor of the main thread (ANRMonitor.kt).  A worker of a   *)
(* single-thread executor posts a runner to the main looper, waits for it  *)
(* to run, and when it does not asks Android whether the process is not    *)
(* responding.  After ANR_SAMPLE_CNT such samples it makes a report, which *)
(* a second thread sends, retrying while Android has no details.           *)
(*                                                                         *)
(* Start and stop are called by one thread at a time.  Time is abstracted  *)
(* to its order: a wait may end at any moment, except that the retries of  *)
(* a report (10 * 500 ms) are over before the next wait (6 s) times out.   *)
(***************************************************************************)
EXTENDS Naturals

CONSTANTS
    ANR_SAMPLE_CNT,  \* samples before a report
    Retries,         \* retries of a report
    MaxStarts,       \* bound: calls of startMonitor
    MaxStops,        \* bound: calls of stopMonitor
    PostMayFail      \* environment: Handler.post may fail on the main looper

ASSUME MonitorAssumption ==
    /\ ANR_SAMPLE_CNT \in Nat \ {0} /\ Retries \in Nat
    /\ MaxStarts \in Nat /\ MaxStops \in Nat
    /\ PostMayFail \in BOOLEAN

Tasks  == 1..MaxStarts
NoTask == 0

VARIABLES
    starts, stops,  \* calls made
    future,         \* the task of the last start, until a stop
    task,           \* the state of each task submitted to the executor
    pc,             \* where the executor's thread is
    interrupted,    \* its interrupt flag
    samples,        \* anrSampleCnt
    isANR,          \* the last sample
    queued,         \* runners in the main looper's queue
    signaled,       \* WaitableRunner.signaled
    main,           \* what the main thread does
    notResponding,  \* Android has declared the process not responding
    looper,         \* monitorThread
    attempt,        \* the message that sends the report
    retries,        \* the retries it has left
    outcome,        \* what became of the last report
    ran             \* history: a runner has run since the last post

calls   == <<starts, stops, future>>
sample  == <<samples, isANR>>
uiQueue == <<queued, signaled, ran>>
ui      == <<main, notResponding>>
report  == <<attempt, retries, outcome>>
vars    == <<calls, task, pc, interrupted, sample, uiQueue, ui, looper, report>>

\* At most one runner is queued: no backlog builds up while the main thread is
\* blocked (ANRMonitor.kt:51).
TypeOK ==
    /\ starts \in 0..MaxStarts /\ stops \in 0..MaxStops
    /\ future \in Tasks \cup {NoTask}
    /\ task \in [Tasks -> {"none", "queued", "running", "done", "cancelled"}]
    /\ pc \in {"idle", "begin", "loop", "post", "wait", "query", "judge", "sleep", "end"}
    /\ interrupted \in BOOLEAN
    /\ samples \in 1..ANR_SAMPLE_CNT
    /\ isANR \in BOOLEAN
    /\ queued \in 0..1 /\ signaled \in BOOLEAN
    /\ main \in {"idle", "busy", "run"} /\ notResponding \in BOOLEAN
    /\ looper \in {"unborn", "alive", "quit"}
    /\ attempt \in {"none", "due", "delayed"}
    /\ retries \in 0..Retries
    /\ outcome \in {"none", "pending", "sent", "lost"}
    /\ ran \in BOOLEAN

Init ==
    /\ starts = 0 /\ stops = 0 /\ future = NoTask
    /\ task = [k \in Tasks |-> "none"]
    /\ pc = "idle" /\ interrupted = FALSE
    /\ samples = ANR_SAMPLE_CNT /\ isANR = FALSE
    /\ queued = 0 /\ signaled = FALSE /\ ran = FALSE
    /\ main = "idle" /\ notResponding = FALSE
    /\ looper = "unborn"
    /\ attempt = "none" /\ retries = 0 /\ outcome = "none"

Goto(from, to) == pc = from /\ pc' = to

\* The worker holds the runner's monitor while it looks at a sample; wait and
\* post hold it for no longer than a step.
Locked == pc = "query"

-----------------------------------------------------------------------------
(* startMonitor and stopMonitor                                            *)

isRunning(t) == future # NoTask /\ t[future] \in {"queued", "running"}

\* Deviation: future.cancel(false).
CancelOnly == interrupted

\* future.cancel(true): a queued task will not run, a running one is
\* interrupted.  Either way it is done, so future.get() does not wait for it.
Cancelled   == IF isRunning(task) THEN [task EXCEPT ![future] = "cancelled"] ELSE task
Interrupted == interrupted \/ (isRunning(task) /\ task[future] = "running")

startMonitor ==
    /\ starts < MaxStarts /\ starts' = starts + 1
    /\ task' = [Cancelled EXCEPT ![starts'] = "queued"]
    /\ interrupted' = Interrupted
    /\ future' = starts'
    /\ UNCHANGED <<stops, pc, sample, uiQueue, ui, looper, report>>

stopMonitor ==
    /\ stops < MaxStops /\ stops' = stops + 1
    /\ task' = Cancelled
    /\ interrupted' = Interrupted
    /\ future' = NoTask
    /\ UNCHANGED <<starts, pc, sample, uiQueue, ui, looper, report>>

-----------------------------------------------------------------------------
(* anrMonitorRunner, on the executor's thread                              *)

\* The executor takes a task that was not cancelled, its interrupt flag clear.
TakeTask(k) ==
    /\ Goto("idle", "begin")
    /\ task[k] = "queued"
    /\ task' = [task EXCEPT ![k] = "running"]
    /\ interrupted' = FALSE
    /\ UNCHANGED <<calls, sample, uiQueue, ui, looper, report>>

TaskEnds ==
    /\ task' = [k \in Tasks |-> IF task[k] = "running" THEN "done" ELSE task[k]]
    /\ interrupted' = FALSE

\* monitorThread.start().
Begin ==
    /\ Goto("begin", "loop")
    /\ looper = "unborn" /\ looper' = "alive"
    /\ UNCHANGED <<calls, task, interrupted, sample, uiQueue, ui, report>>

\* A thread starts once: IllegalThreadStateException, outside of the try.
BeginThrows ==
    /\ Goto("begin", "idle")
    /\ looper # "unborn"
    /\ TaskEnds
    /\ UNCHANGED <<calls, sample, uiQueue, ui, looper, report>>

\* while (!Thread.interrupted()), which clears the flag.
Loop ==
    /\ Goto("loop", IF interrupted THEN "end" ELSE "post")
    /\ interrupted' = FALSE
    /\ UNCHANGED <<calls, task, sample, uiQueue, ui, looper, report>>

\* Deviation: the runner of the iteration before is not removed.
PostStacks ==
    /\ Goto("post", "wait")
    /\ queued' = queued + 1 /\ ran' = FALSE
    /\ UNCHANGED <<calls, task, interrupted, sample, signaled, ui, looper, report>>

\* removeCallbacks, post, and wait, which gives the lock up.
PostRunner ==
    /\ Goto("post", "wait")
    /\ queued' = 1 /\ ran' = FALSE
    /\ UNCHANGED <<calls, task, interrupted, sample, signaled, ui, looper, report>>

PostFails ==
    /\ PostMayFail
    /\ Goto("post", "end")
    /\ queued' = 0 /\ signaled' = FALSE
    /\ UNCHANGED <<calls, task, interrupted, sample, ran, ui, looper, report>>

\* The wait ends by notify or timeout; it holds the lock again.
Wake ==
    /\ Goto("wait", "query")
    /\ signaled \/ attempt = "none"
    /\ UNCHANGED <<calls, task, interrupted, sample, uiQueue, ui, looper, report>>

\* The runner has not run, and the activity manager knows of an ANR.
inANRState == ~signaled /\ notResponding

\* Deviation: the runner is not reset.
QueryNoReset ==
    /\ Goto("query", "judge")
    /\ isANR' = inANRState
    /\ UNCHANGED <<calls, task, interrupted, samples, uiQueue, ui, looper, report>>

\* Deviation: the runner is reset before it is looked at.
QueryResetsFirst ==
    /\ Goto("query", "judge")
    /\ isANR' = notResponding
    /\ signaled' = FALSE
    /\ UNCHANGED <<calls, task, interrupted, samples, queued, ran, ui, looper, report>>

\* inANRState and reset; then the lock is released.
Query ==
    /\ Goto("query", "judge")
    /\ isANR' = inANRState
    /\ signaled' = FALSE
    /\ UNCHANGED <<calls, task, interrupted, samples, queued, ran, ui, looper, report>>

\* A sample that is no ANR does not touch anrSampleCnt.
Calm ==
    /\ ~isANR
    /\ Goto("judge", "sleep")
    /\ UNCHANGED <<calls, task, interrupted, sample, uiQueue, ui, looper, report>>

CountSample ==
    /\ isANR /\ samples > 1
    /\ Goto("judge", "loop")
    /\ samples' = samples - 1
    /\ UNCHANGED <<calls, task, interrupted, isANR, uiQueue, ui, looper, report>>

\* createANRReport posts the report to monitorThread.
createANRReport ==
    /\ isANR /\ samples = 1
    /\ Goto("judge", "loop")
    /\ samples' = ANR_SAMPLE_CNT
    /\ attempt' = "due" /\ retries' = Retries /\ outcome' = "pending"
    /\ UNCHANGED <<calls, task, interrupted, isANR, uiQueue, ui, looper>>

\* tRemaining is over, or was zero.
SleepEnds ==
    /\ Goto("sleep", "loop")
    /\ UNCHANGED <<calls, task, interrupted, sample, uiQueue, ui, looper, report>>

\* Deviation: the exception is caught inside of the loop.
InterruptSwallowed ==
    /\ interrupted /\ pc \in {"wait", "sleep"}
    /\ pc' = "loop" /\ interrupted' = FALSE
    /\ signaled' = (pc # "wait" /\ signaled)
    /\ UNCHANGED <<calls, task, sample, queued, ran, ui, looper, report>>

\* wait and sleep throw InterruptedException; a wait resets the runner first.
Interrupt ==
    /\ interrupted /\ pc \in {"wait", "sleep"}
    /\ pc' = "end"
    /\ signaled' = (pc # "wait" /\ signaled)
    /\ UNCHANGED <<calls, task, interrupted, sample, queued, ran, ui, looper, report>>

\* The finally: quitSafely drops the messages that are not due yet.
End ==
    /\ Goto("end", "idle")
    /\ TaskEnds
    /\ queued' = 0
    /\ looper' = "quit"
    /\ attempt' = IF attempt = "delayed" THEN "none" ELSE attempt
    /\ outcome' = IF attempt = "delayed" THEN "lost" ELSE outcome
    /\ UNCHANGED <<calls, sample, signaled, ran, ui, retries>>

-----------------------------------------------------------------------------
(* The main thread and Android                                             *)

\* The application keeps its main thread busy, for a moment or for ever.
Hang ==
    /\ main = "idle" /\ main' = "busy"
    /\ UNCHANGED <<calls, task, pc, interrupted, sample, uiQueue, notResponding, looper, report>>

Recover ==
    /\ main = "busy" /\ main' = "idle"
    /\ UNCHANGED <<calls, task, pc, interrupted, sample, uiQueue, notResponding, looper, report>>

\* Android declares the process not responding, and takes it back once it
\* responds or when the user chooses to wait.
Declare ==
    /\ notResponding \/ main # "idle"
    /\ notResponding' = ~notResponding
    /\ UNCHANGED <<calls, task, pc, interrupted, sample, uiQueue, main, looper, report>>

TakeRunner ==
    /\ main = "idle" /\ main' = "run"
    /\ queued > 0 /\ queued' = queued - 1
    /\ UNCHANGED <<calls, task, pc, interrupted, sample, signaled, ran, notResponding, looper, report>>

\* WaitableRunner.run, which needs the runner's lock.
RunRunner ==
    /\ main = "run" /\ main' = "idle"
    /\ ~Locked
    /\ signaled' = TRUE /\ ran' = TRUE
    /\ UNCHANGED <<calls, task, pc, interrupted, sample, queued, notResponding, looper, report>>

-----------------------------------------------------------------------------
(* reportWithRetry, on monitorThread                                       *)

\* There are details of the error, or no retry is left: the report is sent.
Send ==
    /\ attempt = "due" /\ attempt' = "none"
    /\ notResponding \/ retries = 0
    /\ outcome' = "sent"
    /\ UNCHANGED <<calls, task, pc, interrupted, sample, uiQueue, ui, looper, retries>>

\* Deviation: the retries are not counted.
RetryUncounted ==
    /\ attempt = "due" /\ ~notResponding /\ retries > 0
    /\ attempt' = IF looper = "alive" THEN "delayed" ELSE "none"
    /\ outcome' = IF looper = "alive" THEN outcome ELSE "lost"
    /\ UNCHANGED <<calls, task, pc, interrupted, sample, uiQueue, ui, looper, retries>>

\* postDelayed, which a looper that quits refuses.
Retry ==
    /\ attempt = "due" /\ ~notResponding /\ retries > 0
    /\ retries' = retries - 1
    /\ attempt' = IF looper = "alive" THEN "delayed" ELSE "none"
    /\ outcome' = IF looper = "alive" THEN outcome ELSE "lost"
    /\ UNCHANGED <<calls, task, pc, interrupted, sample, uiQueue, ui, looper>>

RetryDue ==
    /\ attempt = "delayed" /\ attempt' = "due"
    /\ UNCHANGED <<calls, task, pc, interrupted, sample, uiQueue, ui, looper, retries, outcome>>

-----------------------------------------------------------------------------
WorkerStep ==
    \/ \E k \in Tasks : TakeTask(k)
    \/ Begin \/ BeginThrows \/ Loop \/ PostRunner \/ PostFails \/ Wake \/ Query
    \/ Calm \/ CountSample \/ createANRReport \/ SleepEnds \/ Interrupt \/ End

ReportStep == Send \/ Retry \/ RetryDue

Next ==
    \/ startMonitor \/ stopMonitor
    \/ WorkerStep \/ ReportStep
    \/ Hang \/ Recover \/ Declare \/ TakeRunner \/ RunRunner

Spec == Init /\ [][Next]_vars

\* The monitor's two threads run.  The main thread need not.
FairSpec == Spec /\ WF_vars(WorkerStep) /\ WF_vars(ReportStep)

-----------------------------------------------------------------------------
(* Properties                                                              *)

\* A worker whose task was cancelled, by a stop or by another start, begins no
\* further round: the interrupt is not lost between the cancel and the test of
\* the loop, wherever it finds the worker (ANRMonitor.kt:45 and 194).
CancelledStops ==
    [][pc = "loop" /\ pc' = "post" => \E k \in Tasks : task[k] = "running"]_vars

\* A sample in which the main thread has run the posted runner is no ANR,
\* whatever Android says of the process (ANRMonitor.kt:68 and 73).
NoFalseAlarm == [][pc = "query" /\ pc' = "judge" /\ isANR' => ~ran]_vars

Hung == isRunning(task) /\ main = "busy" /\ notResponding

\* A main thread that hangs for good is reported, as long as the monitor runs:
\* a signal left by an earlier runner masks one sample at most
\* (ANRMonitor.kt:51-73).
HangReported == Hung ~> outcome = "pending" \/ ~Hung

\* A detected ANR is sent, with details or after the last retry, unless the
\* monitor stops (ANRMonitor.kt:167).
DetectedSent == outcome = "pending" ~> outcome = "sent" \/ looper = "quit"

\* After a stop the task ends, from wherever the interrupt finds it, and leaves
\* no runner in the main looper's queue (ANRMonitor.kt:45 and 90-96).
StopEnds == future = NoTask ~> (pc = "idle" /\ queued = 0) \/ future # NoTask

\* AgentNDK.kt:87 logs "Main thread ANR monitor started" after a start.
StartedWatches == future # NoTask ~> pc \notin {"idle", "begin"} \/ future = NoTask
=============================================================================
