----------------------------- MODULE TimerQueue -----------------------------
(***************************************************************************)
(* CYTimerQueue, its timers and its delay objects, the executor to which   *)
(* they post, and the engine's destructor, which shuts the queue down and  *)
(* then the executors.                                                     *)
(*                                                                         *)
(* The queue's thread ends after an idle time and is made again by the     *)
(* next timer: its generations are numbered.  Every timer belongs to one   *)
(* caller, which makes it and may cancel it.  A step is one critical       *)
(* section of m_lock, one notification of m_condition, one store of        *)
(* m_bCancelled, one timer that is fired, or one posted task that is run.  *)
(***************************************************************************)
EXTENDS Integers, Sequences, FiniteSets

CONSTANTS
  Timers,        \* the timers that are ever made
  Reentrant,     \* delay objects whose coroutine uses the queue when interrupted
  Closers,       \* threads that call ShutDown, ~CYCoroutineEngine among them
  DueTimes,      \* the due times that are passed
  Frequencies,   \* what m_nFrequency may be, as passed or as set later
  MaxTime        \* bound: the clock stops there

ASSUME TimerAssumption ==
  /\ IsFiniteSet(Timers)
  /\ Reentrant \subseteq Timers
  /\ Closers # {}
  /\ DueTimes \subseteq Nat
  /\ Frequencies \subseteq Nat \ {0}
  /\ MaxTime \in Nat

Generations == 1 .. Cardinality(Timers)
Kinds == {"oneShot", "periodic", "delay"}

VARIABLES
  requests,      \* m_lstRequestQueue
  abort,         \* m_bAbort
  atomicAbort,   \* m_bAtomicAbort
  idle,          \* m_bIdle
  thread,        \* the generation in m_objWorkerThread, 0 if not joinable
  wpc,           \* where the thread of each generation is
  timers,        \* the timers in CYTimerQueueInternal of each generation
  seen,          \* the time that ProcessTimers read
  clock,         \* the clock
  kind,          \* what each timer is
  deadline,      \* m_tpDeadLine
  cancelled,     \* m_bCancelled
  upc,           \* where the caller of each timer is
  joins,         \* the thread that it has taken over and has to join
  spc,           \* where each caller of ShutDown is
  open,          \* the executor accepts tasks
  posted,        \* how many tasks of each delay object the executor holds
  fired,         \* those that fire once and have been fired (a history)
  outcome        \* how the coroutine of each delay object went on

queue == <<requests, abort, atomicAbort, idle, thread>>
worker == <<wpc, timers, seen>>
objects == <<kind, deadline, cancelled>>
callers == <<upc, joins, spc>>
executor == <<open, posted, fired>>
vars == <<queue, worker, clock, objects, callers, executor, outcome>>

Request == [timer : Timers, what : {"add", "remove"}]

TypeOK ==
  /\ requests \in Seq(Request)
  /\ abort \in BOOLEAN /\ atomicAbort \in BOOLEAN /\ idle \in BOOLEAN /\ open \in BOOLEAN
  /\ thread \in Generations \cup {0}
  /\ wpc \in [Generations -> {"none", "look", "wait", "fire", "exit", "ended"}]
  /\ timers \in [Generations -> SUBSET Timers]
  /\ seen \in Nat /\ clock \in 0 .. MaxTime
  /\ kind \in [Timers -> Kinds]
  /\ deadline \in [Timers -> Nat]
  /\ cancelled \in [Timers -> BOOLEAN]
  /\ upc \in [Timers -> {"new", "notify", "join", "made", "push", "done"}]
  /\ joins \in [Timers -> Generations \cup {0}]
  /\ spc \in [Closers -> {"idle", "lock", "notify", "join", "stuck", "done", "tooLate"}]
  /\ posted \in [Timers -> Nat] /\ fired \in SUBSET Timers
  /\ outcome \in [Timers -> {"none", "resumed", "interrupted"}]

Init ==
  /\ requests = <<>>
  /\ abort = FALSE /\ atomicAbort = FALSE /\ idle = TRUE
  /\ thread = 0
  /\ wpc = [g \in Generations |-> "none"]
  /\ timers = [g \in Generations |-> {}]
  /\ seen = 0 /\ clock = 0
  /\ kind = [t \in Timers |-> "oneShot"]
  /\ deadline = [t \in Timers |-> 0]
  /\ cancelled = [t \in Timers |-> FALSE]
  /\ upc = [t \in Timers |-> "new"]
  /\ joins = [t \in Timers |-> 0]
  /\ spc = [s \in Closers |-> "idle"]
  /\ open = TRUE
  /\ posted = [t \in Timers |-> 0] /\ fired = {}
  /\ outcome = [t \in Timers |-> "none"]

IsOneShot(t) == kind[t] # "periodic"
Adds(t) == {k \in DOMAIN requests : requests[k] = [timer |-> t, what |-> "add"]}

(* Who keeps the state of a delay object alive: the call that makes it, a  *)
(* request, the thread of the queue, or a posted task.  Nobody keeps a     *)
(* CYTimer for it.                                                         *)
Held(t) ==
  \/ upc[t] \in {"notify", "join"}
  \/ \E k \in DOMAIN requests : requests[k].timer = t
  \/ \E g \in Generations : t \in timers[g]
  \/ posted[t] > 0

(* ~CYAwaitViaFunctor: the last reference that goes resumes the coroutine  *)
(* that has not gone on, with an interruption.                             *)
DropUnheld ==
  outcome' = [t \in Timers |->
    IF kind'[t] = "delay" /\ upc'[t] # "new" /\ outcome[t] = "none" /\ ~ Held(t)'
    THEN "interrupted" ELSE outcome[t]]

(* No thread has m_lock for ever: none waits for itself.  A step of the    *)
(* others that takes the lock needs this; ~abort implies it.               *)
Unlocked == \A s \in Closers : spc[s] # "stuck"

(* notify_one: only the thread of the queue waits on m_condition.          *)
Notified == [g \in Generations |-> IF wpc[g] = "wait" THEN "look" ELSE wpc[g]]

-----------------------------------------------------------------------------
(* The callers: MakeTimer, MakeOneShotTimer, MakeDelayObject, Cancel.      *)

(* MakeTimerImpl builds the state, and with it the deadline.  The time     *)
(* until it has the lock is part of the due time.                          *)
Construct(t) ==
  /\ upc[t] = "new"
  /\ \E k \in Kinds : kind' = [kind EXCEPT ![t] = k]
  /\ \E d \in DueTimes : deadline' = [deadline EXCEPT ![t] = clock + d]

(* AddTimer on a queue that has been shut down throws: the state goes with *)
(* the call.                                                               *)
RefuseTimer(t) ==
  /\ Construct(t)
  /\ abort /\ Unlocked
  /\ upc' = [upc EXCEPT ![t] = "done"]
  /\ UNCHANGED <<queue, worker, clock, cancelled, joins, spc, executor>>
  /\ DropUnheld

(* EnsureWorkerThread: an idle queue gets a new thread, and the caller     *)
(* takes the old one over.                                                 *)
EnsureWorkerThread(t) ==
  IF idle
  THEN LET new == 1 + Cardinality({g \in Generations : wpc[g] # "none"})
       IN /\ wpc' = [wpc EXCEPT ![new] = "look"]
          /\ thread' = new
          /\ joins' = [joins EXCEPT ![t] = thread]
          /\ idle' = FALSE
  ELSE UNCHANGED <<wpc, thread, joins, idle>>

(* A faulty variant: an ended thread that is still joinable is taken for   *)
(* one that runs, and the request is left to it.                           *)
AddTimer_TrustsThread(t) ==
  /\ Construct(t)
  /\ ~abort
  /\ IF thread = 0 THEN EnsureWorkerThread(t) ELSE UNCHANGED <<wpc, thread, joins, idle>>
  /\ requests' = Append(requests, [timer |-> t, what |-> "add"])
  /\ upc' = [upc EXCEPT ![t] = "notify"]
  /\ UNCHANGED <<abort, atomicAbort, timers, seen, clock, cancelled, spc, executor, outcome>>

(* AddTimer and AddInternalTimer, up to the end of the critical section.   *)
AddTimer(t) ==
  /\ Construct(t)
  /\ ~abort
  /\ EnsureWorkerThread(t)
  /\ requests' = Append(requests, [timer |-> t, what |-> "add"])
  /\ upc' = [upc EXCEPT ![t] = "notify"]
  /\ UNCHANGED <<abort, atomicAbort, timers, seen, clock, cancelled, spc, executor, outcome>>

(* The notification of AddInternalTimer; a new timer returns from it.      *)
NotifyAdded(t) ==
  /\ upc[t] = "notify"
  /\ wpc' = Notified
  /\ upc' = [upc EXCEPT ![t] = IF joins[t] # 0 THEN "join" ELSE "made"]
  /\ UNCHANGED <<queue, timers, seen, clock, objects, joins, spc, executor>>
  /\ DropUnheld

(* The old thread is joined outside the lock.                              *)
JoinOld(t) ==
  /\ upc[t] = "join" /\ wpc[joins[t]] = "ended"
  /\ upc' = [upc EXCEPT ![t] = "made"]
  /\ joins' = [joins EXCEPT ![t] = 0]
  /\ UNCHANGED <<queue, worker, clock, objects, spc, executor>>
  /\ DropUnheld

(* CYTimer::Cancel, called by the user, by ~CYTimer or by an assignment:   *)
(* the flag, then the request with its notification.                       *)
Cancel(t) ==
  /\ upc[t] = "made"
  /\ kind[t] # "delay"
  /\ cancelled' = [cancelled EXCEPT ![t] = TRUE]
  /\ upc' = [upc EXCEPT ![t] = "push"]
  /\ UNCHANGED <<queue, worker, clock, kind, deadline, joins, spc, executor, outcome>>

RemoveInternalTimer(t) ==
  /\ upc[t] = "push" /\ Unlocked
  /\ requests' = Append(requests, [timer |-> t, what |-> "remove"])
  /\ wpc' = Notified
  /\ upc' = [upc EXCEPT ![t] = "done"]
  /\ UNCHANGED <<abort, atomicAbort, idle, thread, timers, seen, clock, objects, joins, spc,
                 executor, outcome>>

-----------------------------------------------------------------------------
(* The thread of the queue: WorkLoop and ProcessTimers.                    *)

(* The timers that the requests, applied in their order, leave in the set  *)
(* of a thread: the last request about a timer decides.                    *)
ProcessRequestQueue(set) ==
  {t \in Timers :
     \/ t \in set /\ \A k \in DOMAIN requests : requests[k].timer # t
     \/ \E k \in Adds(t) : \A j \in DOMAIN requests : requests[j].timer = t => j <= k}

(* The wait has come to its end: the idle time of a thread without timers  *)
(* may pass at any moment, the first deadline of the others is on the      *)
(* clock.                                                                  *)
TimedOut(g) ==
  /\ wpc[g] = "wait"
  /\ timers[g] = {} \/ \E t \in timers[g] : deadline[t] <= clock

Predicate == requests # <<>> \/ abort

Sleep(g) ==
  /\ wpc[g] = "look"
  /\ ~Predicate
  /\ wpc' = [wpc EXCEPT ![g] = "wait"]
  /\ UNCHANGED <<queue, timers, seen, clock, objects, callers, executor, outcome>>

(* A faulty variant: the thread goes without looking at the requests.      *)
EndIdle_Blindly(g) ==
  /\ TimedOut(g)
  /\ timers[g] = {}
  /\ ~abort
  /\ idle' = TRUE
  /\ wpc' = [wpc EXCEPT ![g] = "exit"]
  /\ UNCHANGED <<requests, abort, atomicAbort, thread, timers, seen, clock, objects,
                 callers, executor, outcome>>

(* A thread without timers and without requests goes.                      *)
EndIdle(g) ==
  /\ TimedOut(g)
  /\ timers[g] = {}
  /\ ~Predicate
  /\ idle' = TRUE
  /\ wpc' = [wpc EXCEPT ![g] = "exit"]
  /\ UNCHANGED <<requests, abort, atomicAbort, thread, timers, seen, clock, objects,
                 callers, executor, outcome>>

EndAborted(g) ==
  /\ wpc[g] = "look" \/ TimedOut(g)
  /\ abort /\ Unlocked
  /\ wpc' = [wpc EXCEPT ![g] = "exit"]
  /\ UNCHANGED <<queue, timers, seen, clock, objects, callers, executor, outcome>>

(* A faulty variant: the requests replace the timers that the thread has   *)
(* already, instead of being added to them.                                *)
TakeRequests_Replaces(g) ==
  /\ ~abort
  /\ \/ wpc[g] = "look" /\ requests # <<>>
     \/ TimedOut(g) /\ (timers[g] # {} \/ requests # <<>>)
  /\ timers' = [timers EXCEPT ![g] = ProcessRequestQueue({})]
  /\ requests' = <<>>
  /\ seen' = clock
  /\ wpc' = [wpc EXCEPT ![g] = "fire"]
  /\ UNCHANGED <<abort, atomicAbort, idle, thread, clock, objects, callers, executor>>
  /\ DropUnheld

(* The requests are taken out under the lock and applied, and the clock is *)
(* read once.                                                              *)
TakeRequests(g) ==
  /\ ~abort
  /\ \/ wpc[g] = "look" /\ requests # <<>>
     \/ TimedOut(g) /\ (timers[g] # {} \/ requests # <<>>)
  /\ timers' = [timers EXCEPT ![g] = ProcessRequestQueue(timers[g])]
  /\ requests' = <<>>
  /\ seen' = clock
  /\ wpc' = [wpc EXCEPT ![g] = "fire"]
  /\ UNCHANGED <<abort, atomicAbort, idle, thread, clock, objects, callers, executor>>
  /\ DropUnheld

(* The timers of g with the closest deadline, if that has come.            *)
Expired(g) ==
  {t \in timers[g] : deadline[t] <= seen /\ \A u \in timers[g] : deadline[t] <= deadline[u]}

(* CYTimerStateBase::Fire posts a task that keeps the state alive.  What   *)
(* the callable of a user's timer does has no effect here, nor when its    *)
(* task runs; only the tasks of delay objects are followed.                *)
Post(t) ==
  /\ posted' = IF kind[t] = "delay" THEN [posted EXCEPT ![t] = @ + 1] ELSE posted
  /\ fired' = IF IsOneShot(t) THEN fired \cup {t} ELSE fired

(* A faulty variant: a timer is put back whatever its kind.                *)
FireTimer_PutsBack(g) ==
  /\ wpc[g] = "fire"
  /\ \E t \in Expired(g) :
       /\ ~cancelled[t]
       /\ Post(t)
       /\ \E f \in Frequencies : deadline' = [deadline EXCEPT ![t] = clock + f]
  /\ UNCHANGED <<queue, worker, clock, kind, cancelled, callers, open>>
  /\ DropUnheld

(* An expired timer is taken out and fired: it posts its task, and gets    *)
(* its next deadline.  One that fires once is not put back, and its next   *)
(* deadline is never read.                                                 *)
FireTimer(g) ==
  /\ wpc[g] = "fire"
  /\ \E t \in Expired(g) :
       /\ ~cancelled[t]
       /\ Post(t)
       /\ \E f \in Frequencies :
            deadline' = [deadline EXCEPT ![t] = IF IsOneShot(t) THEN 0 ELSE clock + f]
       /\ timers' = IF IsOneShot(t) THEN [timers EXCEPT ![g] = @ \ {t}] ELSE timers
  /\ UNCHANGED <<queue, wpc, seen, clock, kind, cancelled, callers, open>>
  /\ DropUnheld

(* An expired timer that has been cancelled is taken out.                  *)
ForgetTimer(g) ==
  /\ wpc[g] = "fire"
  /\ \E t \in Expired(g) :
       /\ cancelled[t]
       /\ timers' = [timers EXCEPT ![g] = @ \ {t}]
       /\ deadline' = [deadline EXCEPT ![t] = 0]
  /\ UNCHANGED <<queue, wpc, seen, clock, kind, cancelled, callers, executor, outcome>>

EndProcess(g) ==
  /\ wpc[g] = "fire"
  /\ Expired(g) = {}
  /\ wpc' = [wpc EXCEPT ![g] = "look"]
  /\ seen' = 0
  /\ UNCHANGED <<queue, timers, clock, objects, callers, executor, outcome>>

(* The thread ends; the timers that it has go with it.                     *)
EndThread(g) ==
  /\ wpc[g] = "exit"
  /\ wpc' = [wpc EXCEPT ![g] = "ended"]
  /\ timers' = [timers EXCEPT ![g] = {}]
  /\ UNCHANGED <<queue, seen, clock, objects, callers, executor>>
  /\ DropUnheld

-----------------------------------------------------------------------------
(* ShutDown.                                                               *)

RequestShutDown(s) ==
  /\ spc[s] = "idle"
  /\ spc' = [spc EXCEPT ![s] = IF atomicAbort THEN "tooLate" ELSE "lock"]
  /\ atomicAbort' = TRUE
  /\ UNCHANGED <<requests, abort, idle, thread, worker, clock, objects, upc, joins, executor,
                 outcome>>

(* The requests with the last reference to a delay object whose coroutine  *)
(* uses the queue when it is interrupted: it makes a timer, or the unwind  *)
(* of its frame destroys a CYTimer.  Assumed: no other callable uses the   *)
(* queue when it is destroyed.                                             *)
Relocking ==
  {k \in DOMAIN requests :
     LET t == requests[k].timer
     IN t \in Reentrant /\ kind[t] = "delay" /\ upc[t] \notin {"notify", "join"}}

(* What is left when the coroutine of a request locks m_lock again, on the *)
(* stack of ShutDown, which has it.  A std::vector may destroy its         *)
(* elements from the front or from the back.                               *)
ClearedUpTo(k) ==
  \/ (\A j \in Relocking : k <= j) /\ requests' = SubSeq(requests, k + 1, Len(requests))
  \/ (\A j \in Relocking : j <= k) /\ requests' = SubSeq(requests, 1, k - 1)

(* The critical section: without a thread there is nothing to shut down.   *)
(* The requests are cleared in it, and with them go the last references.   *)
(* Locking a std::mutex twice is undefined: here the thread waits for      *)
(* itself, as it does in glibc.                                            *)
AbortQueue(s) ==
  /\ spc[s] = "lock" /\ Unlocked
  /\ abort' = TRUE
  /\ \/ thread = 0 /\ spc' = [spc EXCEPT ![s] = "done"] /\ requests' = requests
     \/ /\ thread # 0 /\ Relocking = {}
        /\ spc' = [spc EXCEPT ![s] = "notify"] /\ requests' = <<>>
     \/ /\ thread # 0 /\ \E k \in Relocking : ClearedUpTo(k)
        /\ spc' = [spc EXCEPT ![s] = "stuck"]
  /\ UNCHANGED <<atomicAbort, idle, thread, worker, clock, objects, upc, joins, executor>>
  /\ DropUnheld

NotifyShutDown(s) ==
  /\ spc[s] = "notify"
  /\ wpc' = Notified
  /\ spc' = [spc EXCEPT ![s] = "join"]
  /\ UNCHANGED <<queue, timers, seen, clock, objects, upc, joins, executor, outcome>>

(* A faulty variant: the thread is not waited for.                         *)
Join_Skips(s) ==
  /\ spc[s] = "join"
  /\ thread' = 0
  /\ spc' = [spc EXCEPT ![s] = "done"]
  /\ UNCHANGED <<requests, abort, atomicAbort, idle, worker, clock, objects, upc, joins,
                 executor, outcome>>

Join(s) ==
  /\ spc[s] = "join"
  /\ wpc[thread] = "ended"
  /\ thread' = 0
  /\ spc' = [spc EXCEPT ![s] = "done"]
  /\ UNCHANGED <<requests, abort, atomicAbort, idle, worker, clock, objects, upc, joins,
                 executor, outcome>>

-----------------------------------------------------------------------------
(* The executor, the engine and the clock.                                 *)

(* The task of a delay object runs: CYTimerState::Execute, which calls     *)
(* CYAwaitViaFunctor; nobody can cancel it.                                *)
Execute(t) ==
  /\ posted[t] > 0
  /\ posted' = [posted EXCEPT ![t] = @ - 1]
  /\ ~cancelled[t]
  /\ outcome' = [outcome EXCEPT ![t] = "resumed"]
  /\ UNCHANGED <<queue, worker, clock, objects, callers, open, fired>>

(* ~CYCoroutineEngine: the executors are shut down, with the tasks that    *)
(* they hold, after the queue's ShutDown has returned.  Assumed: nobody    *)
(* else is inside a call of ShutDown then.                                 *)
ShutDownExecutors ==
  /\ open
  /\ \A s \in Closers : spc[s] \in {"done", "tooLate"}
  /\ open' = FALSE
  /\ posted' = [t \in Timers |-> 0]
  /\ UNCHANGED <<queue, worker, clock, objects, callers, fired>>
  /\ DropUnheld

Tick ==
  /\ clock < MaxTime
  /\ clock' = clock + 1
  /\ UNCHANGED <<queue, worker, objects, callers, executor, outcome>>

-----------------------------------------------------------------------------
CallerStep(t) ==
  NotifyAdded(t) \/ JoinOld(t) \/ RemoveInternalTimer(t)

ThreadStep(g) ==
  \/ Sleep(g) \/ EndIdle(g) \/ EndAborted(g) \/ TakeRequests(g)
  \/ FireTimer(g) \/ ForgetTimer(g) \/ EndProcess(g) \/ EndThread(g)

CloserStep(s) == AbortQueue(s) \/ NotifyShutDown(s) \/ Join(s)

Next ==
  \/ \E t \in Timers :
       RefuseTimer(t) \/ AddTimer(t) \/ CallerStep(t) \/ Cancel(t) \/ Execute(t)
  \/ \E g \in Generations : ThreadStep(g)
  \/ \E s \in Closers : RequestShutDown(s) \/ CloserStep(s)
  \/ ShutDownExecutors
  \/ Tick

(* Threads run, the clock goes on, and the executor runs what it accepts.  *)
(* Nobody has to make a timer, to cancel one or to call ShutDown.          *)
Fairness ==
  /\ \A t \in Timers : WF_vars(CallerStep(t)) /\ WF_vars(Execute(t))
  /\ \A g \in Generations : WF_vars(ThreadStep(g))
  /\ \A s \in Closers : WF_vars(CloserStep(s))
  /\ WF_vars(Tick)

Spec == Init /\ [][Next]_vars /\ Fairness

-----------------------------------------------------------------------------
(* The properties.                                                         *)

InLoop(g) == wpc[g] \in {"look", "wait", "fire"}
Added(t) == upc[t] # "new"

(* A timer that has to fire: added, not cancelled, on a queue that has not *)
(* been shut down, and for those that fire once not yet fired.             *)
Pending(t) == Added(t) /\ ~cancelled[t] /\ ~abort /\ (IsOneShot(t) => t \notin fired)

(* No timer is forgotten while the thread comes and goes, and none is held *)
(* twice: a pending timer is in exactly one place, a request or the set of *)
(* the one thread that runs; there is such a thread if the queue is not    *)
(* idle, and requests to add always have one; and it does not sleep on a   *)
(* request that nobody is about to announce, but in a queue whose lock is  *)
(* gone (CYTimerQueue::EnsureWorkerThread against the idle end of          *)
(* WorkLoop).                                                              *)
NoTimerForgotten ==
  /\ \A t \in Timers : Pending(t) =>
       Cardinality(Adds(t)) + Cardinality({g \in Generations : InLoop(g) /\ t \in timers[g]}) = 1
  /\ ~abort => \/ idle /\ \A g \in Generations : ~InLoop(g)
               \/ ~idle /\ InLoop(thread) /\ \A g \in Generations : InLoop(g) => g = thread
  /\ idle /\ ~abort => \A t \in Timers : Adds(t) = {}
  /\ \A g \in Generations : wpc[g] = "wait" /\ Predicate =>
       \/ \E t \in Timers : upc[t] = "notify"
       \/ \E s \in Closers : spc[s] \in {"notify", "stuck"}

(* Types and asserts: a timer is added to a set that does not have it, one *)
(* that a request removes is one that fires once or is cancelled, and the  *)
(* functor of a delay object is called once (AddTimerInternal,             *)
(* RemoveTimerInternal, CYAwaitViaFunctor::operator()).                    *)
AssertsHold ==
  /\ TypeOK
  /\ \A k \in DOMAIN requests :
       LET t == requests[k].timer
       IN IF requests[k].what = "add"
          THEN \A g \in Generations : t \notin timers[g]
          ELSE IsOneShot(t) \/ cancelled[t]
  /\ \A t \in Timers : kind[t] = "delay" =>
       posted[t] + (IF outcome[t] = "none" THEN 0 ELSE 1) <= 1

(* The coroutine of a delay object is interrupted only if the queue was    *)
(* shut down: however its timer wanders from the call to the requests, to  *)
(* the thread and to the executor, no reference is dropped on the way.     *)
InterruptedOnlyByShutDown ==
  \A t \in Timers : outcome[t] = "interrupted" => abort

(* After ShutDown has joined, no thread of the queue runs, nothing is      *)
(* pending in it, and so nothing is fired into executors that the engine   *)
(* shuts down next (CYTimerQueue::ShutDown, ~CYCoroutineEngine).           *)
QuietAfterShutDown ==
  \A s \in Closers : spc[s] = "done" =>
    /\ \A g \in Generations : wpc[g] \in {"none", "ended"} \/ (wpc[g] = "exit" /\ g # thread)
    /\ \A t \in Timers : Adds(t) = {}
    /\ \A t \in Timers : kind[t] = "delay" /\ posted[t] = 0 =>
         upc[t] \in {"new", "notify", "join"} \/ outcome[t] # "none"

(* A timer whose deadline has come is fired, unless it is cancelled or the *)
(* queue is shut down: the thread wakes up for it whatever requests it     *)
(* gets in the meantime.  (The clock stops, so that no timer is due again  *)
(* and again.)  And every call returns: making a timer does not wait for   *)
(* ever for the thread that it replaces, nor ShutDown for the thread that  *)
(* it stops; and a delay object whose deadline comes goes on, one way or   *)
(* the other.  Each of them waits only once.  Not so when ShutDown waits   *)
(* for itself, which ShutDownReturns is about and no run checks.           *)
EveryoneGoesOn ==
  []<>(\/ ~Unlocked
       \/ /\ \A t \in Timers : ~(Pending(t) /\ deadline[t] <= clock)
          /\ \A t \in Timers : upc[t] \notin {"notify", "join", "push"}
          /\ \A t \in Timers :
               kind[t] = "delay" /\ Added(t) /\ (abort \/ deadline[t] <= clock)
                 => outcome[t] # "none"
          /\ \A s \in Closers : spc[s] \in {"idle", "done", "tooLate"})

(* ShutDown returns, as the destructor presumes that asserts after it that *)
(* there is no thread any more (~CYTimerQueue).  TLC refutes it: a         *)
(* coroutine that is interrupted inside of its critical section may use    *)
(* the queue (section 7 of README.md).                                     *)
ShutDownReturns ==
  \A s \in Closers : spc[s] = "lock" ~> spc[s] = "done"

=============================================================================
