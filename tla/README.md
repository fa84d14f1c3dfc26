# TLA+ models of the New Relic Android NDK agent

The NDK agent captures native crashes, unhandled C++ exceptions and ANRs
("application not responding") of an Android app.  A C++ library installs signal
handlers, a terminate handler and an ANR watchdog; each writes a report to a
file, and a Kotlin front end posts the files to a listener of the app, usually
at the next launch.  What makes it hard is that the reports are written by code
that runs at the worst moments: in signal handlers, on whichever thread is
crashing, while other threads crash too, start the agent or stop it.

Paths below are relative to the repository; `cpp/` stands for
`agent-ndk/src/main/cpp/`, `kt/` for
`agent-ndk/src/main/java/com/newrelic/agent/android/ndk/`.

## Inventory

| Component | State | Operations | Hard part |
| --- | --- | --- | --- |
| Signal handler (`cpp/signal-handler.cpp`, `signal-utils.cpp`) | signal table, saved dispositions, `initialized`, `intercepting`, mutex, signal stack | initialize, installer thread, shutdown, interceptor, chaining | several threads crashing, starting and stopping at once; failures half way |
| ANR handler (`cpp/anr-handler.cpp`) | watchdog thread, `enabled`, `must_poll`, `watchdog_triggered`, semaphore, pid and tid of ART's handler, report buffer | initialize, shutdown, watchdog loop, SIGQUIT interceptor | a semaphore and flags shared between a signal handler, a thread and stop/start |
| Terminate handler (`cpp/terminate-handler.cpp`) | the runtime's terminate and unexpected handlers, the saved ones, a mutex | initialize, shutdown, the two handlers | pairing of initialize and shutdown; a handler that faults itself |
| Report store (`cpp/serializer.cpp`, `kt/AgentNDK.kt` flush and post) | report files, the path they go to | write a report, flush, post, delete, expire | crash between steps, name collisions, a listener that fails |
| ANR monitor (`kt/ANRMonitor.kt`) | sample count, runner, monitor thread and queue | start, stop, watch loop, report with retries | main thread, monitor thread and queued retries racing with stop |
| Agent lifecycle (`cpp/agent-ndk.cpp`, `kt/AgentNDK.kt`) | the singleton, which handlers are on | build, getInstance, start, stop, nativeSetContext | composes the handlers; threads that crash between two of them |
| Native context (`cpp/jni/native-context.cpp`) | the context structure | set, release | read by signal handlers while it is written |
| JNI delegate (`cpp/jni/jni.cpp`, `jni-delegate.cpp`) | the delegate's global reference, its method ids, `initialized` | load, bind, release, delegate call on a worker | what is said to be bound and what is |
| Unwinder (`cpp/unwinder.cpp`) | frames collected | record_frame, unwind | frame limit, crash frame, repeated frames |
| Backtrace, emitter, procfs (`cpp/backtrace.cpp`, `emitter.cpp`, `procfs.cpp`) | the report buffer | collect threads, format | threads that come and go, truncation |
| Report parsing (`kt/Native*.kt`) | none | parse JSON into frames and threads | absent fields |

They interact through calls (`nativeStart` initialises the handlers in turn),
through the process (the kernel's signal table, SIGQUIT, the terminate handler)
and through files: every handler ends in `serializer::from_*`, and the files it
writes are read by `flushPendingReports`.

What makes each component correct, and where it is stated, is listed module by
module below; the hazards of the code, each at its line with the properties that
cover it, are in `PROJECT.json` ("hazards").

## Plan

The most important behaviour first; what is done is marked.

1. `SignalHandler` - the crash path, the core of the agent. *Done, with proofs.*
2. `AnrHandler` - the watchdog and its semaphore protocol. *Done, with proofs of
   its safety.*
3. `ReportMailbox`, `ReportStore` - reports from the write to the listener, as an
   implementation of an abstract mailbox. *Done, with proofs.*
4. `ANRMonitor` - the Kotlin monitor of the main thread. *Done, with proofs of
   its safety.*
5. `Backtrace` - one report from the unwinder's callback to the caller's buffer,
   against a reference definition of the frames a report should have.  *Done,
   with proofs.*
6. `TerminateHandler` - initialize, shutdown and the handlers, over the C++
   runtime's. *Done.*
7. `NativeContext` - the context written while handlers read it, with loading,
   binding and releasing the delegate. *Done; the delegate's worker, which
   nothing calls, is left out.*
8. `CrashGuard` - what a session of the signal handler promises the rest.  *Done:
   `SignalHandler` is checked and proved to implement it.*
9. `AgentNDK`, `AgentLifecycle` - the singleton, and the agent as a whole,
   composed of 6, 7 and 8.  *Done, with proofs.*
10. Left: an abstract ANR handler like `CrashGuard` for `AgentLifecycle` to build
   on.

Every module takes its threads and bounds as CONSTANTS with named assumptions,
has one action per step of the code that other actors can observe, and uses no
recursive operator, so that each can be proved about.  Actions named in a
comment as a *Deviation* are not part of any specification: each is a bug the
code could have had, used to see that a property would notice it.

## SignalHandler

Three kinds of thread run the code: *callers* (initialize and shutdown, from
`nativeStart` and `nativeStop`), *installers* (the detached thread that each
initialize creates) and *faulters* (application threads that raise an observed
signal).  `pc[t]` is where thread `t` is.  The model is as fine as the code's
atomicity: `initialized` and `intercepting` are `volatile sig_atomic_t`, so `++`
and `--` are a load (into `reg[t]`) and a store; the loops over
`observedSignals` restore or install one signal per step; the mutex is an
explicit lock that a thread holding it cannot take again.  `disposition` is the
kernel's table, `saved` the `sa_previous` of each observed signal.

What is abstracted: the per-signal `intercepting` counter (only logged); the
report's content (`reports` counts the reports written); `sigaction` is atomic;
`pthread_mutex_lock` does not fail (it cannot, for a default mutex);
`observed_signal_get_or_null` does not return null, since the interceptor is
installed for observed signals only; faults inside the interceptor itself.  A
handler of the application may end the process, return, or do nothing; a signal
at SIG_DFL kills; a `raise` inside a handler is delivered when the handler
returns, because the kernel blocks the signal meanwhile.

`Settled` is an assumption on the environment: initialize and shutdown do not
overlap and the application acts only when no installer is pending.  `Failures`
names the calls that may fail.  Both are constants so that the same module
answers questions with and without them.

| Run | What it shows |
| --- | --- |
| `sh_session` | One start, one stop by either of two threads, two crashing threads, two signals, up to three deliveries: all safety properties, that the session implements `CrashGuard` (`GuardSpec`), and with fairness that every interceptor and every shutdown returns or the process ends. |
| `sh_lifecycle` | Two threads start and stop the agent without any order, and everything that can fail may: what still holds (types, mutual exclusion, no double free). |
| `sh_overtaken` | `Settled` is false: a stop that comes before the installer has run finds nothing to remove, and the installer then installs (finding; `RemovedAfterShutdown`). |

`CrashGuard` is the handler as the rest of the agent sees it: off, arming, armed,
removed.  Once armed it stays until a report is written or a stop is called, and
the process does not die under it.  `GuardState` maps the installer's program
point and the signal table to it; it is armed while *every* observed signal leads
to the interceptor, and removed from the first one restored on.

`sh_session` has one start, calls that do not overlap and no failing `sigaltstack`.
`sh_overtaken` drops the second; what the others exclude was met with TLC by
changing the named constants of `sh_session`, each a counterexample of the named
property:

- `Settled = FALSE` with a crash: in the middle of an installation the
  interceptor uninstalls, the installer goes on, and the previous handler runs
  with the interceptor in place (`NoRecursion`, line 81);
- `MaxStarts = 2`: the signal stack of the first start leaks (`StacksFreed`,
  line 186);
- `MaxStarts = 3`: with a stop and a crash in between, `initialized` falls to 0
  with the interceptor installed, and the next installer saves it as the previous
  handler, so that a crash chains to the agent (`ChainsToOriginal`, line 84);
  after start, start, stop, start the observed signals are without their handler,
  as `initialized` is 1 when the last installer looks
  (`InstalledAfterInitialize`, line 100);
- `Failures = {"sigaltstack"}`: initialize returns at line 156 with the mutex
  locked, and the next caller waits for ever (`ShutdownReturns`).

Bounds: two signals suffice because signals interact only through the order of
the array (a first and a last one); two crashing threads because the
interceptor admits one and turns the others away; three deliveries so that a
thread comes back after the first report; two starts and one stop let starts and
a stop overlap in every order.
`faults`, `starts` and `stops` count against `MaxFaults`, `MaxStarts`,
`MaxStops`.

Fairness (`FairSpec`): weak fairness of each thread's steps - the kernel runs
every thread that can run.  Nothing is assumed of starts, stops and crashes.

Deadlock is checked in `sh_session`.  It is not in
`sh_lifecycle`: there an initialize whose `sigaltstack` failed returns with the
mutex locked, and every later caller stops for ever.

### Proofs (`SignalHandlerProofs`)

For every number of threads, signals, starts, stops and faults:

- `TypeInvariant`, `TypeCorrect`: types, and that the installer an initialize is
  about to create is a fresh one.
- `MutualExclusion`: `ChainExclusive`, from the inductive invariant `MutexInv`
  (whoever is at a critical step holds the mutex) - the property itself does not
  say who keeps the others out.  No assumption on the environment.
- `StackNotDangling`: `NoDanglingStack`, by induction, without assumptions.
- Under `OneSession` (one start, `Settled`, and no failure of
  `pthread_setname_np`, `sigaction` or `collect_backtrace`; `sigaltstack` and
  `pthread_create` may fail): `OriginalChained`, `RecursionPrevented`
  and `RemovedByShutdown`.  They rest on `SessionInv`, which has
  four parts: `PhaseInv` (who can be where while the installer is at each
  step), `InstallInv` (the table while it is filled: signals below the
  installer's index are the agent's and their previous disposition is saved),
  `RestoreInv` (the table while any number of threads empty it: each entry is
  the agent's or the original, and the entries below a thread's index are
  original) and `OutcomeInv` (nobody uninstalls before a report is written or a
  stop is called).  `RestoreInv` is the heart: threads that uninstall together
  run without mutual exclusion, and the argument is that restoring is
  idempotent and nobody installs any more.

- `SessionIsGuard`: under `OneSession`, `Spec => GuardSpec`.  `GuardInv` says what
  the refinement mapping yields at each point of the installer; with it, and with
  `SessionInv` for why an entry is only restored after a report or a stop and why
  a thread dies only by a signal that is not the agent's, each action is shown to
  be one step of `CrashGuard` or none (`GuardStep`).

- `InstalledByInitialize`: `InstalledAfterInitialize`, under `OneSession` and with
  `pthread_create` not failing (initialize ignores its result and returns true,
  line 167).  `ArmedInv` adds to `SessionInv` that only a stop or a signal that
  was intercepted leads to the uninstalling steps.
- `StacksFreedByShutdown`: `StacksFreed`, for one start (`MaxStarts = 1`, and no
  more: calls may overlap and anything may fail).  `StackInv`: the one allocated
  stack is the one `_stack` points to, and while a call is between allocating or
  freeing it and its unlock, `MutexInv` keeps the other callers out.

The counterexamples above show that the assumptions are needed.  Liveness
(`InterceptorReturns`, `ShutdownReturns`) is model-checked only.

## AnrHandler

Android asks ART to dump traces by sending SIGQUIT to the process.  The agent
intercepts it, writes a report and has a watchdog thread send SIGQUIT on to ART's
"Signal Catcher" thread.  The actors are the *caller* (initialize and shutdown),
the *watchdogs* (one per initialize) and the runs of the *interceptor*, each on a
thread the kernel picks among those that do not block SIGQUIT; that thread does
nothing else meanwhile (`Free`).  Every access of a shared flag, of the semaphore
or of the report buffer is a step of its own.

Where the behaviour is not the code's to decide:

- `sem_init` on a semaphore a thread waits on is undefined; `SemInit` leaves each
  such watchdog either waiting or `"stranded"`, which no post wakes.
- SIGQUIT handled on the watchdog's own thread makes `sem_wait` fail with EINTR;
  the code takes any return of `sem_wait` for a post.
- `sem_close` does nothing to an unnamed semaphore in Android's C library, and
  `block_signal` inside a handler ends with it.

Constants for the environment: `Ordered` (starts and stops take turns),
`ArtVisible` (ART's thread is found), `DogHosts` and `Others` (who may run the interceptor),
`Failures` (calls that may fail).  Finding ART's thread in /proc is abstracted to
whether it is found, a report to the buffer it is made in.

| Run | What it shows |
| --- | --- |
| `anr_session` | Two starts and two stops in turn, two SIGQUITs on the caller's, the watchdog's or another thread, possibly at once, with every call that can fail failing and watchdogs that run early: no alert for nothing, no report in freed memory (on the caller's and the watchdog's thread), a clean stop, a watchdog that ends only when it may (`WatchdogEnds`); and, while `clean`, every ring answered that can be and every shutdown ending. |
| `anr_restart` | After a restart ANRs are intercepted and never forwarded to ART, because the global `pid` is reset and never set again (finding; `RestartRings`). |

The history variable `clean` says that no call has failed and no watchdog ran
before its initialize was through.  The second is an ordinary schedule, not a
failure: the thread is created at line 194, the semaphore initialised at 201 and
the flag set at 215.  Only the two liveness properties assume `clean`,
because that schedule breaks both: after a restart the watchdog may read the flag
while it is still cleared and exit, and initialize returns true without one; and
a watchdog that waits on the semaphore before it is initialised may never be
woken, so that the stop joins it for ever.  Of failures, that of `sem_init` makes
the watchdog poll, and a trigger set between two rounds is then reset unseen (line 103): `RingAnswered` does not hold there.  It also
needs `pid` and `tid` to be set, which they are in the first session only; that
is what `anr_restart` is about.

`WatchdogEnds` is what is left for every schedule: a watchdog ends in the stop
that joins it or, when there was a stop before, ahead of its own initialize.
In the first session it therefore never ends by itself, whatever fails.

A stop does not give SIGQUIT back, against the comment at line 171 ("Return anr
detection to previous state"): initialize does not save its disposition, and the
interceptor stays installed (`installed` is never reset).  `StoppedClean` is about
the watchdog and the buffer only.

`BufferAlive` leaves out
the threads in `Others`: a run of the interceptor there can use the buffer after
shutdown freed it.  Bounds: two ANRs, so that runs of the interceptor overlap
each other and a stop; two sessions are the fewest at which stale state matters.
Fairness: each thread's steps, weakly; nothing makes calls or ANRs happen.
Deadlock is checked in `anr_session`, where a state that is not clean may be one
of rest: a watchdog may be stranded there, or the caller wait for it.

### Proofs (`AnrHandlerProofs`)

For any number of starts, stops, signals and threads:

- `TypeInvariant`, `TypeCorrect`: `TypeOK`, without assumptions, from `TypeInv`
  (an initialize under way is the one counted last).
- Under `Ordered`, whatever fails: `SessionInvariant`, and from it
  `BufferNotFreed` (`BufferAlive`), `StopsClean` (`StoppedClean`) and
  `WatchdogsEndInTurn` (`WatchdogEnds`).  `CallerInv` says what the caller's place
  tells of the thread handle and of the buffer, `ThreadInv` that one watchdog
  runs at most, the one the next stop joins, and that a thread inside the
  interceptor is not past it (so the join outlasts a report made on the
  watchdog), `AwakeInv` that the flag the watchdogs loop on is set until the first
  stop, which is what `WatchdogEnds` does not say and rests on.
- Under `Ordered`: `AlertsPaidFor` (`NoSpuriousAlert`).  The property counts alerts
  against interceptors that rang; what makes it inductive is an account of the
  alerts still to come: `Charge` (a watchdog bound to alert without another look)
  and `Posts` (what the semaphore still holds for it) are covered by `Paid`, to
  which an interceptor adds when it posts if the watchdog waits, when it triggers
  if it polls, and twice on the watchdog's own thread.  A stop's post is in no
  account since `enabled` is false before it; and `FirstInv` limits the account
  to the first session, because `pid` is lost with it and nothing is sent after.

`Ordered` is needed: of two initializes in a row the second overwrites the first
one's thread handle and buffer, which are then neither joined nor freed.  `RingAnswered` and `StopReturns` are
liveness and model-checked only.

## ReportStore

A *report* is one run of `to_storage`; `NameOf` gives the file name it gets from
its kind and the millisecond.  Storage is what each name holds: nothing, a
`Partial` file, or a report.  `Open` creates or truncates, `Write` fills; between
them the process may be killed or the file deleted (`linked` says whether the
open stream's file is still in the directory).  A *flusher* runs
`flushPendingReports` under `AgentNDK.lock`: it lists the directory, posts each
file, deletes it when the listener consumed it, and otherwise registers it with
`deleteOnExit` when it has expired.  `Kill` ends the process as it is, `Exit`
runs the deletions first; both forget everything but the files.

`ReportMailbox` is what the application is promised: a report put in the box
leaves it only when it was accepted or when it expired and was tried.  `Stored`,
the whole reports in the directory, implement the box (`MailboxSpec`, a
refinement, checked and proved).  A report whose file is posted while the handler
is still writing it is the one exception (`torn`).  Expiry is abstracted to
`Age`: writing and posting a report take less than the expiration period.

| Run | What it shows |
| --- | --- |
| `store_session` | Two reports, one of which the listener never accepts, two flushers, two ends of the process, failures of open, read and delete: the mailbox refinement, no double post but for a kept file, and that one bad report does not keep the other back. |
| `store_unposted` | An expired report the listener was never given is deleted, against README.md:113 (finding). |

Bounds: two reports and two flushers let flushes contend and a bad report come
before a good one; two ends let a report survive one and be met again.
Fairness: a flush that began goes on, the application flushes again and again,
and a listener that accepts a report at all does not refuse it for ever (strong
fairness of `Consume`); kills are bounded by `MaxEnds`.

Proved in `ReportStoreProofs`, for any number of reports, names, flushers and
ends and for every set of failures: `TypeInvariant` without assumptions;
`StoreInvariant`, `PostedOnce` and `StorageIsMailbox` under `DistinctNames`.
The inductive invariant has one part per thing that must be remembered:
`FileOfReport` (what the file of a report can hold at each stage of its writing),
`OldExists`, `FlusherKnows` (a file about to be deleted was accepted; an old file
a flusher turns to was tried - an old file does not change under it, a young one
stays young), `DoomedTried` (deleteOnExit) and `AcceptedGone` (an accepted report
is about to be deleted by the lock's holder, or was kept).  The refinement has a
lemma for each way a step can look from the mailbox: not at all (`Unseen`), a
post (`PostTries`), a removal (`Removes`).  `DistinctNames` is needed: with two
reports of one name the second truncates the first.  `ReportDelivered` is
model-checked only.

## ANRMonitor

A task on the executor's thread (`pc`) loops: post the runner to the main looper,
wait for it, and ask Android about a main thread that did not run it.  The other
actors are the caller of `startMonitor` and `stopMonitor`, the main thread
(`main`: idle, busy, or in `WaitableRunner.run`), Android (`notResponding`) and
`monitorThread`, which sends the report with retries (`attempt`, `retries`).  The
runner's lock is held across steps only while a sample is looked at (`Locked`);
`future`, `task` and `interrupted` follow `FutureTask` and the thread pool:
cancelling makes the future done at once, so `future.get()` never waits, and the
pool clears the interrupt flag between tasks.

Time is abstracted to order; a wait may end at any moment.  One fact about time
is kept: a report's retries (10 times 500 ms) are over before the next wait (6 s)
times out.  Start and stop are called by one thread at a time.

| Run | What it shows |
| --- | --- |
| `monitor_session` | Two starts and two stops in any order, a main thread that hangs and recovers at will, posts that may fail: types with at most one runner queued, no round begun by a cancelled worker, no false sample, a hang for good reported while `isRunning()`, each report sent unless the monitor stops, each stop effective. |
| `monitor_restart` | The second start fails on a `HandlerThread` that was already started (finding). |

Not held: ANR samples are not counted consecutively, as the comment at line 214
has it.  A good sample between two bad ones does not set the count back; only a
report does.

`HangReported` holds although a runner that was taken late may leave `signaled`
set for the next sample: a hang that lasts is caught one sample later.  The
look at the sample itself calls the activity manager with the runner's lock held,
which the code's own comment (line 77) warns of: the main thread waits for it.
`ANR_SAMPLE_CNT` is the code's 2; `Retries` is 2 for 10, since the retries
differ only in being left or not.  Fairness: the worker and `monitorThread` run;
the main thread need not.

Proved in `ANRMonitorProofs` for all bounds: `TypeInvariant`, `SamplesSound`
(`NoFalseAlarm`, from the invariant that a runner that has not signalled during a
wait has not run) and `InterruptKept` (`CancelledStops`, from `CancelInv`: the one
task that waits or runs is the one a stop will cancel, and a worker inside a task
that no longer runs has its interrupt flag set).  `HangReported`, `DetectedSent`
and `StopEnds` are liveness and model-checked only.

## Backtrace

One run of `collect_backtrace`.  The unwinder's callback records frames: an
address equal to `crash_ip`, the one the signal interrupted, starts the array
again (what came before are the frames of the signal handler), any other is
adjusted on aarch64 (`Adjust`), cleared of the Thumb bit (`Thumb`), and dropped
when it is null or repeats the last one.  Then the threads are listed from
/proc/self/task while they start and exit (`ThreadStarts`, `ThreadExits`), each
with the state its stat file gives if it can still be read, and the report is
emitted and copied into the buffer.  `Passed` tells the callers apart: a signal
handler passes `siginfo` and context, `dumpStack` zeroed ones, the terminate
handler none, and the read of `siginfo->si_signo` then faults (`pc = "fault"`).

What is abstracted: a report to its parts, the stack each thread prints, and its
length, a fixed one per thread and per frame; `skipped_frames`, which is only
logged; symbols.  The emitter's lists end at their first null item
(`EmitItems`), as its varargs do.  What `readdir` returns is external: every
thread that lives throughout, each at most once, the others perhaps; thread ids
are not used twice during one report.

| Run | What it shows |
| --- | --- |
| `bt_report` | For every stack and every order of threads starting and exiting: the limits hold, the frames are those of the reference (`FramesFaithful`), the crashed thread is listed once with the stack, and a report that will be stored is whole: the buffer did not cut it, and no part was lost behind a null item. |

`FramesFaithful` does not follow the callback: it asks for a map from the
recorded frames to the walked ones, from the last frame at the address of the
crash on, in order, with nothing missing but null and repeated frames and what
came when the array was full.

Bounds: three addresses (null, one at 8 and 12, which is what a call at 8 returns
to) and five frames against an array of three, so that the array fills before and
after the crash frame; three threads against a list of two; a buffer of 8 that
the longest reports exceed.  The other threads are symmetric.  Deadlock is not
checked, because one call is modelled, and it returns or faults.

Not held: with `MaxThreads` threads or more before it, the crashed thread may be
missing, and the report still counts as complete (`StackReported` leaves this
out).  `dumpStack` has `crash_ip` 0, so that a null frame starts its array again;
`FramesFaithful` takes that address for the crash.

Proved in `BacktraceProofs`, for every limit, stack and set of threads:
`TypeInvariant`, `WalkFaithful`, `CrashedReported` and `ReportWhole`, from
`BacktraceAssumption` alone.  The inductive invariants say what the properties
leave implicit: `TypeInv` that a thread whose stat is being read has room in the
list; `FramesInv` that the frames
are faithful after every callback, for which `Faithful` names the map that a
callback extends by one frame or leaves as it is; `ListInv` that the current
thread is due to be returned, being read or in the list, and never two of these;
`WholeInv` that whoever reaches the emitter passed a context.

## The agent as a whole: TerminateHandler, NativeContext, AgentNDK, AgentLifecycle

`TerminateHandler` is the pair of handlers that the C++ runtime keeps
(`std::terminate`'s and, since the library is built as C++14,
`std::unexpected`'s), the pair that the module saved, and its mutex; initialize
and shutdown are three steps each.  Both of the agent's handlers pass a null
`siginfo` to `collect_backtrace`, which reads it (`cpp/backtrace.cpp:154`;
`Backtrace` has the same fault as `pc = "fault"`).  So they end in a signal
(`Outcome`), and what follows in them is never reached.

`NativeContext` has the fields of the structure, copied one by one by whichever
threads set the context, the report path in two halves so that a reader can meet
it half written; a null field is a fault of the copying thread.  With it are the
delegate and the `env_` wrappers.  `found` is the set of names the JVM resolves,
fixed for a process.  `bind_delegate` answers a missing class or object with
`JNI_ERR`, which is -1 and becomes true as a `bool`; `OnUnload` releases only
when it got no environment to release with.

`AgentNDK` is the Kotlin singleton: the unlocked store of `build`, the two reads
of `getInstance` and the default it makes in between.

`AgentLifecycle` instantiates these three and `CrashGuard` over its own variables
and adds the order of `start`, `nativeStart`, `stop` and `nativeStop`.  A crash
goes through the guard: intercepted, reported (`filed` records of what, into
which path, with which ids), uninstalled, then the process dies or, if a handler
of the application saves it, goes on.  The ANR handler is `off`, `on`, or on with
a watchdog that no post reaches (`stranded`, as in `AnrHandler`); `sigquit` says
that SIGQUIT leads to `anr_interceptor`, which no stop undoes; `Ring` and
`FileAnr` are an ANR that is intercepted and its report.  The monitor is on or
off.  `last` is the call of start or stop that returned last.

A start may fail half way and `nativeStart` goes on (agent-ndk.cpp:65-83).
`Failures` names the calls that may fail: `sigaltstack` leaves the signal handler
off and its mutex locked (`signals = "locked"`), `pthread_create` leaves it, or
the ANR handler, off, `sigaction` leaves SIGQUIT alone.  Failures of the installer
thread itself are `SignalHandler`'s.  A stop can block in two places, both in the
model: at the mutex that was left locked (`signalsOff`), and in the join of a
stranded watchdog (`joining`), which only a SIGQUIT on that watchdog's thread
ends.  `Stuck` tells them apart from a deadlock.

Assumptions on the environment: one session (the signal handler is initialised
once; stops may come before it and after it); starts and stops do not overlap; as
in `sh_session`, a signal is taken and a stop called only while no installer is
pending; a `ManagedContext` does not change once it is used; the library is
unloaded only when nothing refers to it - no handler, no thread, not SIGQUIT -
and is not loaded again (a new mapping would be a new process to this model).

| Run | What it shows |
| --- | --- |
| `agent_session` | Two threads build the agent, ask for it, start it, stop it (twice at most, before the start too), set its context, crash and throw, and ART asks for a dump; the library may fail to load, a context may lack its directory, the delegate a method or its class, and each call of the start that can fail may. Reports of crashes and ANRs go to the directory the application named (`ReportHome`), a stop gives the signal and exception handlers back (`StopRestores`), there is one default instance (`OneDefault`). |
| `agent_exception` | An exception that reaches the agent's handler is reported as a crash of that handler, not as an exception (finding; `ExceptionReported`). |

Bounds: two threads, so that each race has both its sides, and interchangeable
(`MCSymmetry`); of each call one, but two calls of `getInstance`, which race for
the default, and two stops, of which the first may come before the start and the
second finds nothing saved; one crash and one ANR, the handlers' own concurrency
being `SignalHandler`'s and `AnrHandler`'s.  Three contexts: two that disagree on
`anrMonitor` and one without a directory.  The delegate is whole, lacks a method
or is missing.  No fairness is
assumed, as no liveness is claimed: that interceptors return, and when shutdowns
do, is checked in the handlers' own modules.

Not held, and left out of the properties:

- after a second stop, or one before the start, the exception handlers are the
  runtime's and not the application's, since nothing is saved then
  (`terminate-handler.cpp:119-120`); `StopRestores` promises the application's
  after a start and one stop;
- when `signal_handler_initialize` fails, and between the two shutdowns of
  `nativeStop`, the agent's exception handlers are set without a signal handler:
  an exception then faults in them and nothing is reported;
- an agent that is built without ids, as in the README's example, faults when it
  starts: `ManagedContext` leaves them null and `strncpy` copies from null
  (`native-context.cpp:65`; `ContextFault`);
- `bind_delegate` answers true when the delegate's class or constructor is
  missing, since `JNI_ERR` is -1 (`jni-delegate.cpp:30`; `BindDelegate`);
- a stop leaves the native ANR handler on if a context without `anrMonitor` was
  set after the start (`agent-ndk.cpp:97`; `StopAnr`), and SIGQUIT with the
  interceptor in any case;
- when the application sets contexts with different directories, a report may be
  filed under a path made of both (`ReportHome` assumes one directory);
- a stop through another instance may leave the monitor on; a start without the
  library does;
- `build` and `getInstance` race: a default instance made meanwhile replaces the
  one just built (`AgentNDK.kt:80` and `244`);
- the application's terminate handler is never chained to;
- each start binds the delegate again and leaves the reference to the last one.

### Proofs (`AgentLifecycleProofs`, `AgentSessionProofs`)

For any number of threads, contexts, class paths and calls, from
`LifecycleAssumption`.  `Moves` says what a step of the agent looks like from
each component: a step of that component or none.  With it each component is
argued about alone:

- `TypeCorrect`: `TypeOK`, component by component; it includes that whoever is
  inside holds the exception handler's mutex, or `getInstance`'s monitor.
- `DefaultOnce`: `OneDefault`, from `DefaultInv`: a default that was made is
  still followed by some instance, and a thread about to make one is the first.

`AgentSessionProofs` is about what takes all the components together.
`SessionInvariant`: one thread at a time starts or stops the agent, nothing is on
before the start has come past the signal handler, and past `bind` the thread has
no context left to copy.  From it:

- `ReportsGoHome`: `ReportHome`.  `HomeInv(d)`, for the application's one directory
  d, says what the context holds once the starting thread has come to each field
  of `set_native_context`, that nobody undoes it, and that it is whole once the
  start is past binding the delegate, hence before either handler can report.  What could
  undo it is the context of a default instance, which has another directory:
  `CopyInv` says that only a thread at `bind` copies one, and
  never past the session id, which `ManagedContext()` leaves null
  (`ManagedContext.kt:16`; part of `LifecycleAssumption`).  So whatever it left
  in the path is overwritten before the handlers are on.
- `StopGivesBack`: `StopRestores`, for any number of stops, whatever fails.
  `StopInv` says how far a stop has brought the guard: it is not armed again after
  one.  `HandlerInv` is the table of the runtime's and the saved handlers at each
  step of start and stop; that what is saved is never the agent's is the part the
  property does not mention and everything rests on, because a shutdown puts back
  what is saved.  Until the start sets them the handlers are not the agent's
  (`Fresh`), then they are with the application's saved (`Set`), and after a stop
  they are not (`Restored`); when the stop is the only one it found `Set`
  (`Paired`).

## What is only model-checked, and what is not modelled

Every invariant and action property of the passing runs is also a theorem.  The
liveness properties are model-checked only (liveness under fairness is out of the
prover's reach): `InterceptorReturns`, `ShutdownReturns`, `RingAnswered`,
`StopReturns`, `ReportDelivered`, `HangReported`, `DetectedSent` and `StopEnds`.

The findings, each a run whose property TLC violates, and each quoted in
`PROJECT.json`: `sh_overtaken`, `anr_restart`, `store_unposted`,
`monitor_restart` and `agent_exception`.  What else the code does not do is
listed with each module.

Not modelled:
`threaded_delegate_call` and its worker (marked WIP, and called by nothing); the
wording of a report (so neither quotes in symbol names, which end a JSON string
early, nor items that `_EMIT_F` cuts at 2047 characters) and its parsing into
exceptions, the other reads of /proc, root detection, the sample application and
the build files, which are sequential translations or input.
