# A verification development for CYCoroutine

CYCoroutine is a C++20 library of coroutines, results, executors and timers. This directory
holds TLA+ modules that model its concurrent protocols, TLC configurations that check them on
small instances, and TLAPS proofs about them. Paths are relative to the root of the repository
(`src/...`); every definition that models code is listed with its lines in `PROJECT.json`, "map".

## 1. The system

| Part | State | Operations | Talks to |
|---|---|---|---|
| Result state (`CYResultState`, `CYConsumerContext`, `CYResult`, `CYResultPromise`) | an atomic state of five values, the outcome, the consumer's context | build an outcome, complete; poll, wait, wait with a deadline, get, await, resolve, drop | a producer thread and a consumer that share no lock |
| WhenAny / WhenALL (`CYWhenResult.hpp`, `CYWhenAnyContext`) | one atomic pointer per call of WhenAny | register with each result, be resumed by the first, rewind the others; await one after the other | the result states and their producers |
| Shared results | an atomic list of awaiters, a semaphore, a status | share, await, wait, wait with a deadline | a result state, whose consumer it is |
| Lazy results, promises, generators | the coroutine frame | start, resume, finish | results, executors |
| Executor base, tasks | a move-only callable; the coroutine inside it | post, submit, in bulk; move, run, destroy | all executors, results |
| Worker-thread executor | a private and a public queue, a binary semaphore, three abort flags | enqueue (local, foreign), drain, shut down | one thread of its own |
| Thread-pool executor | the same for each worker, a set of idle flags, a cursor | enqueue a task or a span, donate, end and restart threads, shut down | its threads, one another |
| Thread executor | a list of threads, the last that retired | enqueue, retire and join the one before, shut down | one thread per task |
| Manual executor | a queue, a condition variable, two abort flags | enqueue, loop, wait for tasks, clear, shut down | the threads of its callers |
| Inline executor | a flag | enqueue is run, shut down | the caller |
| Asynchronous lock | a flag and an intrusive list of awaiters under a mutex | lock, try to lock, unlock | executors, through `ResumeOn` |
| Asynchronous condition | an intrusive list of awaiters under a mutex | await, notify one, notify all | the asynchronous lock, executors |
| Timer queue, timers, delay objects | a queue of requests, a thread that comes and goes, timers by deadline | add, fire, cancel, shut down | executors |
| Engine | lazily made executors behind process-wide once flags | make, free | all executors, the timer queue |
| Threads, facade | a named `std::thread` | run, join | |

How they interact. `Submit` makes a task and a result; the executor runs the task on one of its
threads, and the task, as the *producer*, completes the result. The *consumer* is any other
thread or coroutine; a coroutine that awaits is resumed on the producer's thread. A scheduled
coroutine, `ResumeOn` and a delay object post a `CYAwaitViaFunctor`, whose destructor resumes the
coroutine with an interruption when the task is dropped before it was run. The asynchronous lock
and the condition use `ResumeOn` to move a coroutine that had to wait to its executor. The engine
shuts the timer queue down before the executors that the timers fire into. There are no tests in
the repository, only four examples; all of the protocols are exercised by luck.

What is hard: the state of a result is changed by two threads with single atomic operations and
no lock; contexts are written before the operation that publishes them; both parties decide by
what they find who deletes; deadlines race with completions; executors wake their threads with a
semaphore that saturates, released outside the lock and only by the enqueue that finds an empty
queue; worker threads and the timer queue's thread end after an idle time while work arrives;
workers hand tasks to one another; shutdown may meet any of this, in the middle of a span or of
a donation; `UnLock` and notifications resume other coroutines on the caller's stack; a coroutine
may be finished and freed on another thread before the call that posted it has returned.
`PROJECT.json`, "hazards", lists the places, each with the properties that watch it or a note why
none does.

What makes each part correct:

- *Result:* an outcome is delivered once and to the consumer; nobody who waits is left behind;
  nobody is resumed twice; the storage is freed once, when both have left; no data race on the
  context; the asserts hold in every order of calls.
- *WhenAny, WhenALL:* resumed once, with a result that has finished and the other results as
  before; resumed when all have finished.
- *Executors:* an accepted task is executed, or destroyed after a shutdown was requested: one of
  the two, once, and eventually; after `ShutDown` nothing is left and nothing runs; `ShutDown`
  returns; no worker sleeps on work. (The manual executor promises the first part only.)
- *Submit:* a coroutine is resumed once, run or interrupted, and its owner's result says which.
- *Lock, condition:* exclusive; nobody is forgotten in a list; no notification is lost between
  the predicate and the suspension.
- *Timers:* an added timer is in exactly one place until it fires or is cancelled; a delay
  coroutine goes on; nothing fires after the shutdown.

## 2. The plan

Modules in order of importance; all but the last item are done.

1. `ResultContract`, `ResultState`, `ResultStateProofs`: the rendezvous that everything else uses.
2. `WhenAny`: composes several result states with one awaiter; WhenALL on what is left.
3. `ExecutorContract`, `WorkerThreadExecutor`: what an executor promises, and the smallest executor.
4. `ThreadPoolExecutor`: the same contract for the pool, spans included.
5. `AsyncLock`, `AsyncLockProofs`.
6. `SharedResult`, `SharedResultProofs`: the list of awaiters, both ways of waiting, the
   destructor's rewinding.
7. `AsyncCondition`: on top of the lock.
8. `TimerQueue`: requests, the thread that comes and goes, firing, cancelling, delay objects,
   shutdown.
9. `ManualExecutor`: the contract's steps.
10. `ThreadExecutor`, `Submit`: the contract again, and tasks, coroutines and results on top of it.
11. `ExecutorProofs`, `SubmitProofs`, `TimerQueueProofs`, `WhenAnyProofs`, the list in
    `SharedResultProofs` and the condition in `AsyncLockProofs`.
12. `ThreadPoolExecutorProofs`: the queues, no lost wake-up, the donations, the contract's steps.
13. The manual executor's half of `ExecutorProofs`.
14. Not done: the approximate size of `CYIdleWorkerSet` beside its flags; two pools that share a
    thread.

Abstract specifications: `ResultContract` (refined by `ResultState`), `ExecutorContract` (refined
by four executors, with its liveness by the worker-thread executor, the thread executor and, while
no idle time passes, the pool).

## 3. The modules

Throughout, one step is one operation on shared memory: an atomic operation, a critical section
of a mutex, a semaphore operation, a notification, an unprotected access to memory that the other
party may touch. Steps on a thread's own memory are merged with the step before them. Memory
orders are those of sequential consistency; the relaxed operations are on flags whose order the
code does not rely on, except where a lock or the semaphore orders them. Operators whose names end
in `_Something` ("a faulty variant") are plausible bugs; no specification uses them, they show that
the properties can fail.

### ResultState (refines ResultContract)

| Model | Code |
|---|---|
| `state`, `producer`, `context` | `m_eResultState`, `m_objProducer`, `m_objConsumer` |
| `signalled`, `epoch` | the flag of WaitFor's semaphore, the epoch of `CYAtomicBase` |
| `BuildResult`, `CompleteProducer`, `NotifyOne`, `ProducerDeletes`, `ResumeConsumer`, `Release` | `SetResult`/`SetException`/`FromCallable`, `CompleteProducer` by what its exchange returns |
| `StartCall`, `Load`, `SetContext`, `RegisterConsumer` | the common head of `Wait`, `WaitFor`, `await` |
| `WaitLoop`, `WaitImpl`, `CvWake` | the loop of `Wait()` around `CYAtomicBase::wait` |
| `Acquire`, `TimeOut`, `RewindWaitFor`, `ClearContext` | the rest of `WaitFor` |
| `TakeResult`, `DropLoad`, `DropExchange` | `Get`/`await_resume` with the joined deleter; `CompleteConsumer` |

A consumer repeats calls in any order until it takes or drops the result. The value is a member
of `Outcomes`, exceptions among them. The module's `CYAtomic` and `CYBinarySemaphore` are the
library's own fallbacks, which also stand for the standard ones: those wake no earlier.

### WhenAny

`Results` finish on threads of their own (`CompleteProducer` .. `TryResumeProcessing`, with the
two compare-exchanges of `TryResume` apart from its load). The coroutine runs `await_suspend`
(`AnyResultFinished` .. `FinishProcessing`) and `await_resume` (`ReturnOrAdvance` ..
`ClearContext`), then calls again on the results that are left (`AwaitTheRest`), each time with a
new context, while producers may still hold an old one. In the end, or at once, it may await them
all (`WhenALL`, `AwaitLoad`, `SetAwaitHandle`, `Await`), which uses the ordinary registration of a
coroutine on the rewound states.

### SharedResult

The consumer of a result state is here a `CYSharedResultState` with any number of `Users`. The
maker runs `Share` (`ShareLoad` .. `RegisterShared`); the producer's `CompleteProducer`,
`CopyWeak` and `LockWeak` lead to `OnResultFinished`, which the maker runs instead when it comes
second (`StoreStatus` .. `ReturnFromFinished`, one for each of the two `Finishers`). Users wait
(`WaitStatus`, `CvWake`), wait with a deadline (`Poll`, `Acquire`, `Expire`), await
(`LoadAwaiters`, `PushAwaiter`: the compare-exchange may fail for no reason) and drop their copies
(`Drop`); whoever drops the last strong pointer, the producer included, starts the destructor
(`RewindLoad` .. `DropExchange`). `awaiters` is the lock-free list, head first; that a node's
`next` is the head its owner read is what makes the exchange's comparison the right one. `arrived`
is a history variable: the suspended users in the order of their exchanges.

The semaphore is the library's own `CYCountingSemaphore`, which it uses on Apple and Unix systems.
It counts the released permits up in a critical section (`ReleasePermits`) and then calls
`notify_one` once for each (`SignalPermit`, `EndSignals`); who finds no permit waits on its
condition variable (`Sleep`) and looks again when it is notified. `OnResultFinished` releases
`max() / 2` permits, which makes some 2^62 turns of that loop, and comes to the awaiters only after
it. The model does not assume that the loop ends: a process that turns for years has not resumed
anyone. If it ends, it is past all sleepers by then. The standard semaphore, elsewhere, is the case
in which nobody sleeps and the loop ends at once, so that its behaviours are among these.

### WorkerThreadExecutor (refines ExecutorContract)

`EnqueueForeign`/`RefuseForeign` (one critical section, then `Release` outside the lock),
`DrainQueue` (`WaitForTask` and the swap), `Acquire`, `PopTask`, `EnqueueLocal` and `FinishTask`
(the loop of `DrainQueueImpl` and the tasks' own enqueues), `ShutDown` .. `ClearQueues` (each of
the steps of `ShutDown`). A task is a number; a span is up to `MaxBatch` of them.

### ThreadPoolExecutor (refines ExecutorContract)

The worker's steps are those of `WaitForTask` (`DrainQueue`, `MarkIdle`, `Acquire`, `Recheck`,
`TimeOut`, `EndThread`), of `BalanceWork` (`StartBalance`, one `Donate` and `ReleaseOther` per
idle worker, `FinishBalance`; `DonationEnd` is the arithmetic of the shares), of `DrainQueueImpl`
(`PopTask`, `FinishTask`) and of a task that enqueues (`EnqueueLocal`, `EnqueueFromTask`,
`EnqueueOther`). A thread outside the pool enqueues a task or a span: `Shares` are the parts into
which the call splits it (`OneByOne` if there are fewer tasks than workers, `Spread` otherwise),
`FindWorker` the worker for each, `EnqueueForeign` and `Release` its critical section and the
semaphore, `EnqueueNext` the next part; a worker that was shut down ends the call in the middle of
the span. A task moved out of the private queue leaves `Moved` behind until the donor erases the
prefix, as in the code. A search of the idle set (`SetIdle`, `SetActive`, `TryAcquireFlag`)
returns any marked workers, or misses them: it stands for the flags and the approximate size
together. `ShutDown` goes through the workers in order. `ThreadPoolProgress` and
`ThreadPoolStranded` are further instances of the same specification.

### ManualExecutor (steps of ExecutorContract)

`Users` enqueue (`Enqueue`, `NotifyAll`), loop (`Call`, `RanAll`, `PopTask`, `FinishTask`,
`LeaveLoop`), wait for a number of tasks (`StopWaiting`, `Sleep`, `TimeOut`, `DeadlinePassed`),
clear (`Clear`, `DestroyTasks`) and shut down (`ShutDown`, `SetAbort`, `NotifyAbort`). The condition
variable has any number of sleepers, each with its own `Predicate`; a notification wakes them all
and they look again. A running task may make the calls that do not wait. `ShutDown` of this
executor does not wait for running tasks, so the contract's "closed" is the later moment at which
all of them are done (`Rid`), and `Clear` counts as a request to destroy.

### ThreadExecutor and Submit (refine ExecutorContract)

`ThreadExecutor` has the lists of threads and what the thread of a task does around the task:
`Accept`/`Refuse`, `StartTask`, `FinishTask`, `RetireWorker` (it takes the previous retired thread
and leaves itself), `NotifyOne`, `JoinPrevious`; `ShutDown`, `AwaitWorkers`, `JoinLast`. It has no
specification of its own; `Submit` says who calls it. There a *job* is a callable that `Post`,
`Submit` or their bulk forms (`Prepare`, `Enqueue`, `DropResults`, `EndCall`) put into a `CYTask`,
inside a suspended coroutine if there is a result. `task[j]` are the places whose `CYTask` is not
empty (`MoveTask`, `ExecuteTask`, `ClearTasks`), `frame[j]` is the coroutine or callable,
`result[j]` what the result was completed with, `consumer[j]` who has it. Results are dropped at
any time; a frame is freed by whichever of the coroutine and the consumer comes second, and may be
gone before `Submit` returns. Running jobs make calls too. The detail of the rendezvous inside the
result is that of `ResultState`, which `Submit` takes as one step.

### AsyncLock

Coroutines `Lock`, `TryLock` and `UnLock`. `UnLock` resumes the next awaiter on its own stack:
`inUnLock[c]` is the coroutine that runs inside c's call, and c goes on (`Return`) when that one
suspends or leaves. `ResumeOn` has the executor post, run the continuation at once, or refuse it;
a refused coroutine gives the lock up (`GiveUp`) as the handler in `LockImpl` does. The module has
no run of its own: `AsyncCondition` extends it, keeps all of its steps, and checks its properties.

### AsyncCondition

Coroutines that own the lock await the condition while a flag is not set (`Await`: the mutex and
`UnLock`, which may run another coroutine on this stack; `PushBack`: the list and the end of the
critical section); others set the flag and owe a `NotifyALL` (`SetReady`, `announcer`), or notify
one at any time (`NotifyOne`). The notifying coroutine resumes the awaiters one after the other on
its stack (`ResumeAwaiter`), each goes to its executor (`ResumeOnExecutor`, `ContinueOnExecutor`)
and takes the lock again (`LockAgain`), or gets the exception of a closed executor (`Throw`).
Assumption about the users (`MayCall`): a coroutine that runs on the stack of an awaiter's
`UnLock` does not call the condition, whose mutex its own thread holds; in the code that would be
undefined behaviour, and nothing there prevents it.

### TimerQueue

Callers make timers of the three kinds (`AddTimer` with `EnsureWorkerThread`, `NotifyAdded`,
`JoinOld`; `RefuseTimer` after a shutdown) and cancel them (`Cancel`, `RemoveInternalTimer`). The
threads of the queue are numbered by `Generations`: `Sleep`, `EndIdle`, `EndAborted`,
`TakeRequests`, `FireTimer`, `ForgetTimer`, `EndProcess`, `EndThread` are the parts of `WorkLoop`
and `ProcessTimers`. `ShutDown` is `RequestShutDown` .. `Join`; then the engine closes the executors
(`ShutDownExecutors`). `Held(t)` says who keeps the functor of a delay object alive, and
`DropUnheld`, a conjunct of every step, resumes its coroutine as interrupted when nobody does. The
clock goes from 0 to `MaxTime`; a period is `1` or more; the idle time passes whenever it likes.

What drops the last reference holds no lock, with one exception: `ShutDown` clears the requests in
its critical section (`AbortQueue`), so that the coroutines of delay objects go on there, on its
stack. Those in `Reentrant` use the queue when they are interrupted: they make a timer or another
delay object, or the unwind of their frame destroys a `CYTimer`, and so they lock `m_lock` a second
time on the same thread. Then ShutDown is `"stuck"`, with the requests that it has not come to
(`Relocking`, `ClearedUpTo`), and every step that takes the lock waits (`Unlocked`). A `std::mutex`
that is locked twice is undefined behaviour; the model takes the outcome of glibc, a wait without
end, and not an implementation that throws. Assumption about the users: no other callable uses the
queue when it is destroyed. One that owns a `CYTimer` would fare like a coroutine of `Reentrant`.

## 4. The runs

| Run | Instance | Shows |
|---|---|---|
| `ResultState` | two outcomes, any number of calls | one deletion, one resumption, the context and the asserts; the refinement; liveness |
| `WhenAny` | 3 results, 3 calls | one resumption with a finished result; results rewound; WhenALL on what is left |
| `WhenAnyLost` | 2 results, 1 call | finding 1 |
| `SharedResult` | 3 users, the library's semaphore | the list and its order, one finisher, rewinding, lifetime; whoever blocks goes on; awaiters are resumed unless the loop of notifications is in the way |
| `WorkerThreadExecutor` | 5 tasks, spans of 2, 2 producers, 2 callers of ShutDown | queues, wake-ups, order; the refinement, with progress and the completion of ShutDown |
| `ThreadPoolExecutor` | 3 tasks, 3 workers, 1 producer, idle time may pass | queues, wake-ups, donation, spans, shutdown, contract steps |
| `ThreadPoolProgress` | 3 tasks, 2 workers, no idle time passes | the refinement with its liveness: accepted tasks are executed or destroyed; ShutDown returns |
| `ThreadPoolStranded` | 2 tasks, 1 worker, idle time may pass | finding 2 |
| `AsyncCondition` | 3 coroutines, 2 calls each, all kinds of executors | exclusion, both lists, no stranded awaiter, no lost notification, everyone who waits gets on |
| `TimerQueue` | 2 timers, 1 of them reentrant, 1 caller of ShutDown, times up to 2 | no timer forgotten or held twice, interruptions, quiet after the shutdown; everyone goes on unless ShutDown waits for itself |
| `ManualExecutor` | 2 tasks, 3 threads, 5 calls | queue and wake-ups, contract steps, waiters go on |
| `Submit` | 3 jobs, 1 outside caller, 1 caller of ShutDown | coroutines, tasks and results belong together; the refinement; the chain of joins; every job ends |

Bounds, and why they are enough to see the interesting cases. `ResultState` has none: the epoch
moves at most once and the number of calls is unbounded, so its state space is complete for two
outcomes, and the proofs remove that bound. `WhenAny` needs three results so that one is chosen,
one finishes too late and one is left, and three calls so that a context two calls old can still be
held. `SharedResult` has no bound on calls; three users make a list in which an exchange fails
against another one and an order can be wrong, and one more waiter than a single permit serves;
`Permits` stands for 2^62 and its assumption says only that there are as many as users. The
worker-thread executor needs two tasks in the private queue, one in the public one and one on its
way, and one more to find an order wrong: five. The pool needs three workers for a donation with a
remainder to two others, tasks enough that the donor has two left, and as many tasks as workers for
a span that is spread. Larger pools were run once, without a configuration here: four tasks on two
workers, where a span has shares of two, hold the same properties. Three coroutines make the
shortest queue in which the woken coroutine can lose against a newcomer while another still waits,
and two calls let a coroutine await the condition again or lock after a notification. Two timers
are enough for one that makes a thread while the other's request is inherited, and for a thread
that ends between the two; a third generation would repeat the handover of the second. One timer is
reentrant and one is not, so that ShutDown is also stuck with a request left over and after one
that it has dropped. The manual executor needs one thread that runs a task, one that waits for a
number of tasks and one that clears or shuts down. Three jobs make a chain of two joins, a bulk
call, and a call from a running job. `MaxCalls`, `Rounds`, `N`, `MaxBatch` and `MaxTime` bound the
callers and the clock, never the code's own steps.

Stuttering at the end (`Terminated`, `Quiet`) marks the states in which the system may stop;
deadlock is checked in those modules everywhere else. `AsyncCondition`, `TimerQueue`,
`ManualExecutor` and `Submit` do not check it: their callers may stop at any time, and their
liveness properties say who must not be stuck.

## 5. Fairness

Threads that are inside a call go on: weak fairness of the worker's, the producer's, the closer's
steps. Nothing obliges a caller to call, a deadline to pass, or a coroutine to enqueue.

- `ResultState`: the producer eventually builds an outcome, because a task is run or destroyed
  and a promise that is destroyed builds an exception (`BreakTaskIfNeeded`); `TimeOut` and a new
  call are not fair.
- `WhenAny`: every result is eventually produced.
- `SharedResult`: the same for its producer. `PushAwaiter` is strongly fair: a weak
  compare-exchange does not fail for ever for no reason. `Expire` is not fair, so that a waiter
  with a deadline goes on because of the result and not of the clock; `CvWake` is, because the
  wait looks at its predicate every 100 ms. The loop of notifications goes on, but nothing says that
  it ends (`EndSignals` is enabled only together with another turn).
- `WorkerThreadExecutor`, `ThreadPoolExecutor`, `ManualExecutor`, `Submit`: a task that runs
  returns. In `ManualExecutor` a deadline passes, as a clock does not stop.
- `AsyncCondition`: a posted continuation is run or refused by its executor, an owner unlocks,
  and who has set the flag notifies. Waiters may be overtaken; calls are bounded, so not for ever.
- `TimerQueue`: the clock goes on (to `MaxTime`), and the executor runs what it has accepted.
  Nobody has to cancel or to shut down.

## 6. What is proved

The proofs are checked by TLAPS and hold for every value of the constants.

`ResultStateProofs`. The safety properties are not inductive: that the consumer finds
PRODUCER_DONE whenever its exchange fails, say, depends on what the producer can have done. The
inductive invariant `IInv` says, for the time before and after the exchange of the producer, which
values the state may have at each of the consumer's steps (`StateBeforePublication`,
`StateAfterPublication`), what the producer's remaining steps imply (`ProducerTail`: if it is
about to resume, the context is the one that was registered), and what a registered consumer has
written (`ConsumerRegistration`). Each step is shown to preserve it (`ProducerIInv`,
`ConsumerIInv`), and `TypeCorrect`, `DeletedOnce`, `ResumeSafety`, `ContextSafety` and
`ResultSafety` (the consumer gets what was built, `ReturnsWhatWasBuilt`) follow. `Implements` shows
the initial states and every step to be initial states and steps of `ResultContract`. Assumption:
`Idle` is not an outcome.

`AsyncLockProofs`. The four invariants of the lock are inductive together (`IInv`): exclusion needs
to know that a coroutine in the list is suspended, and the list that a coroutine is in it once. The
lemma `RetryFirstKeepsList` is about the sequence (the tail of a list without repetitions is the
list without its head), `TryToLockIInv`, `HandOnIInv` and `MoveIInv` are about the steps that
take the lock, hand it on, or only move a coroutine. The theorems hold for any set of coroutines,
number of calls and kinds of executors. The second part is about the condition on top of that lock
(`CondIInv`): where a coroutine inside Await stands in the lock (`PlaceInLock`); that it waits in
one list, once, the condition's or that of one notifier (`ListsHoldWaiting`); and that nobody waits
once the flag is set and the notification given (`NobodyLate`: Await evaluates the predicate under
the lock, and the mutex covers what follows). The lock's three theorems are proved again for a lock
whose owners give it up inside Await (`ExclusionWithCondition`, `AwaitersWithCondition`), and
`NotificationsKept` is that no notification is lost between the predicate and the suspension.

`SharedResultProofs`. The state word is again the heart: `StateWord` says which value it has at
each step of Share and of the destructor, before and after the producer's exchange; `OneFinisher`
who can be inside `OnResultFinished`; `MakerAlone` that nobody else has a copy, and nobody is in
the list, before Share returns; `NothingEarly` that the status, the epoch, the mark and the list
being resumed give nothing away before the publication; `DestructorLast` that the destructor runs
exactly when nobody holds the shared state. Together (with the few types they need, `Typed`) they
are kept by the producer's, the finisher's, Share's, the users' and the destructor's steps, one
lemma for each group, and imply `OneSideActs` and `DeletedExactlyOnce` for any number of users.
`ListIInv` adds the list and the counters: the users in the order of their exchanges (`arrived`)
are what is being resumed followed by the reversed list, and there are as many as are suspended
(`ListInv`, hence `ListHoldsSuspended`); the epoch cannot fall below the number of users that may
still count it down (`CounterInv`, hence the type invariant). The theorems hold
whether or not the loop of notifications ends. Assumption: `SharedAssumption`.

`ExecutorProofs`, the worker-thread executor. To `QueuesHoldQueued` and `NoLostWakeup`, the two
halves of `NoTaskLost`, the invariant adds that tasks are offered in order and at most one runs
(`FatesInOrder`), that the private queue is empty whenever the worker is about to swap
(`PrivateEmpty`), that foreign tasks are sorted through both queues (`ForeignSorted`), and that one
caller of ShutDown goes on (`ShutDownByOne`). `TasksKept` and `ForeignTasksInOrder` follow;
`KeepsContract` maps the initial states and every step to `ExecutorContract`. Any number of tasks,
any length of a span (`WorkerAssumption`: at least one of each).

`ExecutorProofs`, the manual executor, which the module takes as the instance `Manual` because the
two executors name their state alike. `ManualIInv` says where an accepted task is before it starts
(`TasksInPlace`: in the list once, or with the one call of Clear or ShutDown that has taken it),
who runs one that has started (`RunsInPlace`), what a thread may hold where it is
(`ThreadsInOrder`: tasks to destroy only until it has destroyed them, and only after a request),
that one caller of ShutDown goes on from the atomic flag to the other (`ShutDownOnce`), and that a
thread sleeps on what it waits for only if somebody is about to notify (`SleepersNotified`).
`ManualTasksKept` follows from these. `ManualKeepsContract` needs `ShutDownOnce` above all: the
second flag is set in the critical section that empties the list, and since every enqueue looks at
that flag under the same mutex, the list stays empty, so that the executor, once it is rid of its
tasks, stays rid of them. For any number of tasks, threads and calls (`ManualAssumption`: at least
one task).

`SubmitProofs`. The thread executor's own invariant (`ThreadInv`): the thread of a task tells the
fate of the task (`ThreadOfTask`), and the threads that retired form a chain in which each joins
the one before it (`RetiredInOrder`: the ended ones are at the end of the chain, and
`m_lstLastRetired` is its front), so that who joins the front has outlived them all. On top of it,
no two calls of Submit share a job (`BatchesApart`), and the fate of a job tells which `CYTask` has
its coroutine, what its frame is and what its result holds (`JobFollowsFate`, `CallKnowsItsJobs`).
`OneTaskPerCoroutine`, `TruthOfResults`, `QuietWhenClosed` and `KeepsContract` follow, for any
number of jobs, of calls and of callers of ShutDown (`ThreadAssumption`: at least one job).

`WhenAnyProofs`. The loop of a call has registered the results before `i` and not yet those after
(`LoopOfCall`); only awaited results know the context of the current call (`ContextsOfCall`);
`m_status` of a context is DoneProcessing exactly while the coroutine is suspended in that call
(`StatusOfCalls`), which is what keeps a producer with the context of an earlier call from resuming
it; and a producer holds a context only after its own exchange (`ProducerTail`). The four theorems
are the four invariants of the run, for any number of results and of calls (`WhenAnyAssumption`: at
least one of each). What `RegisteredWhileSuspended` says is subject to divergence 1 below.

`TimerQueueProofs`. A thread of the queue is numbered by the timer that made it
(`GenerationsInOrder`); one of them is the queue's, unless it is idle or aborted, and only that one
holds timers (`OneThread`); a timer is requested once or is in the set, never both (`RequestsOnce`,
`PendingIsKept`); somebody holds the functor of a delay object until it has gone on
(`DelaysAreHeld`); one call of ShutDown goes on (`ShutDownInOrder`); and a sleeping thread with
work has somebody who will notify it, unless that call waits for itself (`Announced`). That nothing
is requested after the shutdown needs the lock to be free, as a call that is stuck leaves requests
(`CloserGoesOn`, `PartOfRequests`). `NothingForgotten`, `QueueAsserts`, `DelaysGoOn` and
`QuietWhenClosed` are the invariants of the run, for any timers, reentrant or not, due times,
periods and callers. Assumption: `TimerAssumption` (somebody may call ShutDown, as the destructor
of the engine does; the clock and the periods are natural numbers, the latter not 0).

`ThreadPoolExecutorProofs`. The largest invariant, since the workers act on one another.
`CloserInOrder` reads the flags off the place where ShutDown is (before it nobody is aborted; the
workers it has done have no thread and no task), `OffIsIdle` that a worker is idle exactly without
a thread, `SendersInOrder` that whoever enqueues has something to hand over and somebody to signal.
`QueuesApart`, `RunningApart` and `CarriedNew` say where a task is, by its fate: in one place of
one queue, with one worker, or in the hands of the call that offers it; a donation moves a range of
tasks, so that `DonationsInOrder` is needed to know that the range is there and nothing in it has
moved before (`Moved` is exactly the prefix that was given away). Its bound, that a donor keeps a
share, holds only until the shutdown; from then on what matters is that the worker which makes the
donation fail is aborted. `Wakeups` and `MarkedIdle` belong together: a worker sleeps on tasks only
if a signal is under way, and one without tasks is in the idle set unless the one that took its
mark is about to push something. The lemmas under it are about the arithmetic of the shares
(`DonationEnds`: they follow one another from none to all, and none is empty if there are enough
tasks), the queues (`Appended`, `PartOf`, `MovedOut`, `Popped`) and the ring of idle workers
(`Ring`: each chosen worker is listed once). `NextIInv` has one lemma per action.
`TasksAreInOnePlace`, `SleepersAreWoken`, `AssertionsHold` and `PoolKeepsContract` follow for any
number of workers, producers and tasks, whether or not idle time passes (`PoolAssumption`: at least
one worker and one task, and no producer is a worker).

Model-checked only: all liveness, that of the contracts included (the provers have no fairness and
no ENABLED). A refinement is proved step by step; that a whole behaviour satisfies the contract, its
fairness included, is checked by the runs.

## 7. Where the code and its own words differ

1. `CYResultStateBase::WhenAny` returns the state from before its exchange; a result that
   finishes in between is overlooked (`src/Src/Results/Impl/CYResultState.cpp:81`, run
   `WhenAnyLost`). All that the passing properties of WhenAny say is about results that were
   registered.
2. A worker whose idle time passes ends its thread without looking at its queue again; a task
   accepted in that window is stranded (`src/Src/Executors/CYThreadPoolExecutor.cpp:361`, run
   `ThreadPoolStranded`). `ThreadPoolProgress` shows that this is the only way to lose one's turn in
   its instance.

Six more are stated in the modules and checked by no configuration. TLC refutes the first two as
properties and the next three as invariants of the runs' specifications.

3. `SignalsEnd` (SharedResult): on Apple and Unix systems the release of `max() / 2` permits
   notifies once for each of them (`src/Inc/CYCoroutine/Results/Impl/CYCountingSemaphore.hpp:152`;
   the comment at line 149 has "Using notify_one repeatedly is fine") before the awaiters of the
   shared result are resumed (`src/Inc/CYCoroutine/Results/Impl/CYSharedResultState.hpp:155`). The
   comment at line 150, "theoretically buggish, practically there's no way", is about the number of
   waiters, not about the time. In effect the awaiters are not resumed, and `Share` does not return
   when the result has finished before. Threads that block do go on (`WaitersGoOn`), and nothing
   but this loop keeps an awaiter waiting (`AwaitersGoOn`); the run checks these two together as
   `EveryoneGoesOn`.
4. `ShutDownReturns` (TimerQueue): `CYTimerQueue::ShutDown` destroys the requests with the lock
   held (`src/Src/Timers/CYTimerQueue.cpp:278`). The comment at line 330 relies on
   "~CYAwaitViaFunctor will resume the coroutine and throw an exception"; a coroutine that uses the
   queue then, or whose unwind destroys a `CYTimer` (`RemoveInternalTimer`, line 189), locks it
   again on the same thread, and ShutDown, which the destructor calls at line 174, does not return.
   Nothing but such a call keeps anyone waiting (`EveryoneGoesOn`).
5. `ContextOutlivesResume` (ResultState): a consumer whose `WaitFor` expired can delete the state
   before the producer reads its context (`src/Inc/CYCoroutine/Results/Impl/CYResultState.hpp:203`);
   `src/Src/Results/Impl/CYConsumerContext.cpp:263` asserts what it finds there. In the model the
   producer then reads anything; the proofs cover that choice. The same holds for what `NotifyOne`
   does after the exchange for a consumer that was in Wait
   (`src/Inc/CYCoroutine/Results/Impl/CYResultState.hpp:213`): it moves the epoch and notifies the
   condition variable of a state that such a consumer may have deleted, on having seen
   PRODUCER_DONE. The model keeps `epoch` readable; no property speaks of it after the deletion.
6. `KnownContext` (SharedResult): the destructor of a shared result can delete the state between
   the producer's exchange and its look at the context
   (`src/Inc/CYCoroutine/Results/Impl/CYSharedResultState.hpp:129`): the weak pointer that should
   protect the shared state lies in the memory that is deleted. The producer then finds anything, a
   status that is none of the five included; all other properties of SharedResult hold whatever it
   finds.
7. `SwapsEmptyQueue` (ThreadPoolExecutor): a worker that sees `m_bAtomicAbort` marks itself idle
   with tasks in its private queue; an enqueue before `m_bAbort` is set starts another thread on it
   (`src/Src/Executors/CYThreadPoolExecutor.cpp:394`), against the assert at line 420.
8. A donation to a worker that was shut down throws, and `m_lstIdleWorker` is not cleared
   (`src/Src/Executors/CYThreadPoolExecutor.cpp:305`); a thread that a late task starts on the same
   worker counts with the old list, against the asserts at lines 253 to 303. The donations of
   `AssertsHold` are therefore those before the shutdown; that no task is lost holds regardless.

One more is outside of the models: an executor that its user shuts down, while the timer queue
still has timers for it, makes `Post` throw in `CYTimerStateBase::Fire`
(`src/Src/Timers/CYTimer.cpp:31`), out of the work loop, which ends the process.
`QuietAfterShutDown` covers only the order in which the engine shuts down its own.

## 8. What is not modelled

`PROJECT.json`, "components", has the reason for each part. In short: generators, the facade and
lazy results have no shared state; of the engine, only the order of its destructor is modelled
(that `FreeInstance` does not renew the executors' once flags is listed as a hazard); CYCommon,
from which the intrusive list and the base exception come, is a submodule that the repository does
not contain, and is modelled by how it is used. Failures to create a thread or to allocate,
executors and timer queues that are shut down from their own threads, callables that use the timer
queue when they are destroyed, and weaker memory orders than sequential consistency are left out.
Return values of the manual executor's calls are abstracted: `WaitForTaskFor` compares the count
with 1 (`src/Src/Executors/CYManualExecutor.cpp:255`), so that with two tasks it reports that there
is none.
