---------------------------- MODULE ManualExecutor ----------------------------
(***************************************************************************)
(* CYManualExecutor: a queue of tasks that has no thread of its own.  The  *)
(* threads that call Loop, LoopFor and their like run the tasks; others    *)
(* wait until the queue holds a number of them.  All of them, Enqueue,     *)
(* Clear and ShutDown may be called by any thread at any time; a task that *)
(* is running may call the ones that do not wait.                          *)
(*                                                                         *)
(* A step is one critical section of m_lock, one operation on the atomic   *)
(* flag, one notify_all, or the run or the destruction of tasks, which the *)
(* code does outside the lock.  Tasks are numbered in the order in which   *)
(* they are offered.  A deadline passes whenever it likes.                 *)
(***************************************************************************)
EXTENDS Integers, Sequences, FiniteSets

CONSTANTS
  N,         \* the tasks are 1 .. N
  Users,     \* the threads that use the executor
  MaxCalls   \* bound on the calls that they make

Tasks == 1 .. N
None == 0

ASSUME ManualAssumption == N \in Nat \ {0} /\ MaxCalls \in Nat

VARIABLES
  queue,        \* m_lstTasks
  abort,        \* m_bAbort
  atomicAbort,  \* m_bAtomicAbort
  pc,           \* where each thread is
  call,         \* the call that it is in
  count,        \* the tasks that it may still run, or for which it waits
  running,      \* the task that it runs
  taken,        \* the tasks that it has taken out to destroy them
  calls,        \* how many calls have been made
  offered,      \* how many tasks have been offered
  fate,         \* what has become of each task
  cleared       \* a call of Clear has taken tasks

shared == <<queue, abort, atomicAbort>>
thread == <<pc, call, count, running, taken, calls>>
tasks  == <<offered, fate>>
vars == <<shared, thread, tasks, cleared>>

PCs == {"idle", "notify", "loop", "sleep", "late", "run", "destroy", "abort",
        "notifyAbort"}
(* The calls that wait, and the ones among them that have a deadline.      *)
Looping == {"Loop", "LoopFor"}
Timed == {"LoopFor", "WaitForTasksFor"}
Calls == Looping \cup Timed \cup {"WaitForTasks", "Other"}

In(q) == {q[k] : k \in DOMAIN q}

TypeOK ==
  /\ queue \in Seq(Tasks)
  /\ abort \in BOOLEAN /\ atomicAbort \in BOOLEAN /\ cleared \in BOOLEAN
  /\ pc \in [Users -> PCs]
  /\ call \in [Users -> Calls]
  /\ count \in [Users -> Nat]
  /\ running \in [Users -> Tasks \cup {None}]
  /\ taken \in [Users -> SUBSET Tasks]
  /\ calls \in 0 .. MaxCalls
  /\ offered \in 0 .. N
  /\ fate \in [Tasks -> {"new", "queued", "running", "executed", "destroyed", "refused"}]

Init ==
  /\ queue = <<>>
  /\ abort = FALSE
  /\ atomicAbort = FALSE
  /\ pc = [u \in Users |-> "idle"]
  /\ call = [u \in Users |-> "Other"]
  /\ count = [u \in Users |-> 0]
  /\ running = [u \in Users |-> None]
  /\ taken = [u \in Users |-> {}]
  /\ calls = 0
  /\ offered = 0
  /\ fate = [t \in Tasks |-> "new"]
  /\ cleared = FALSE

(* A thread that is in no call, or whose task makes one.                   *)
Free(u) == pc[u] \in {"idle", "run"} /\ calls < MaxCalls

Becomes(batch, result) ==
  fate' = [t \in Tasks |-> IF t \in batch THEN result ELSE fate[t]]

Counted == calls' = calls + 1

(* A call of Loop or of WaitForTasks returns, or throws.                   *)
Return(u) ==
  /\ pc' = [pc EXCEPT ![u] = "idle"]
  /\ call' = [call EXCEPT ![u] = "Other"]
  /\ count' = [count EXCEPT ![u] = 0]

(* A call that does not wait returns to the task that made it, or to the   *)
(* thread.                                                                 *)
Back(u) == IF running[u] = None THEN "idle" ELSE "run"

-----------------------------------------------------------------------------
(* Enqueue of a task or of a span of tasks.                                *)

Enqueue(u) ==
  /\ Free(u)
  /\ \E n \in 1 .. N - offered :
       LET batch == offered + 1 .. offered + n IN
       /\ offered' = offered + n
       /\ IF abort
          THEN /\ Becomes(batch, "refused")
               /\ UNCHANGED <<queue, pc>>
          ELSE /\ Becomes(batch, "queued")
               /\ queue' = queue \o [k \in 1 .. n |-> offered + k]
               /\ pc' = [pc EXCEPT ![u] = "notify"]
  /\ Counted
  /\ UNCHANGED <<abort, atomicAbort, call, count, running, taken, cleared>>

(* m_condition.notify_all: whoever sleeps will look at its predicate.      *)
Woken(at) == [v \in Users |-> IF at[v] = "sleep" THEN "loop" ELSE at[v]]

(* A faulty variant: Enqueue wakes one of the threads that wait.           *)
NotifyAll_One(u) ==
  /\ pc[u] = "notify"
  /\ LET asleep == {v \in Users : pc[v] = "sleep"} IN
     IF asleep = {}
     THEN pc' = [pc EXCEPT ![u] = Back(u)]
     ELSE \E v \in asleep : pc' = [pc EXCEPT ![u] = Back(u), ![v] = "loop"]
  /\ UNCHANGED <<shared, call, count, running, taken, calls, tasks, cleared>>

NotifyAll(u) ==
  /\ pc[u] = "notify"
  /\ pc' = [Woken(pc) EXCEPT ![u] = Back(u)]
  /\ UNCHANGED <<shared, call, count, running, taken, calls, tasks, cleared>>

-----------------------------------------------------------------------------
(* LoopImpl, LoopUntilImpl and WaitForTasksImpl.                           *)

Call(u) ==
  /\ pc[u] = "idle" /\ calls < MaxCalls
  /\ \E c \in Calls \ {"Other"}, n \in 1 .. N :
       /\ call' = [call EXCEPT ![u] = c]
       /\ count' = [count EXCEPT ![u] = n]
  /\ pc' = [pc EXCEPT ![u] = "loop"]
  /\ Counted
  /\ UNCHANGED <<shared, running, taken, tasks, cleared>>

(* The predicate of a thread that waits.                                   *)
Predicate(u) ==
  \/ abort
  \/ Len(queue) >= (IF call[u] \in Looping THEN 1 ELSE count[u])

(* The number of tasks that the call was for has been run, and it does not *)
(* look at the queue any more: it returns, or throws after a shutdown.     *)
RanAll(u) ==
  /\ pc[u] = "loop" /\ call[u] \in Looping /\ count[u] = 0
  /\ Return(u)
  /\ UNCHANGED <<shared, running, taken, calls, tasks, cleared>>

(* Under m_lock, a looping thread finds a task and takes it out ...        *)
PopTask(u) ==
  /\ pc[u] \in {"loop", "late"} /\ call[u] \in Looping /\ count[u] > 0
  /\ ~abort /\ queue # <<>>
  /\ queue' = Tail(queue)
  /\ running' = [running EXCEPT ![u] = Head(queue)]
  /\ Becomes({Head(queue)}, "running")
  /\ pc' = [pc EXCEPT ![u] = "run"]
  /\ UNCHANGED <<abort, atomicAbort, call, count, taken, calls, offered, cleared>>

(* ... or that the executor is shut down, that there is none and the call  *)
(* does not wait, or that there is still none after the deadline.          *)
LeaveLoop(u) ==
  /\ pc[u] \in {"loop", "late"} /\ call[u] \in Looping /\ count[u] > 0
  /\ abort \/ (queue = <<>> /\ (call[u] = "Loop" \/ pc[u] = "late"))
  /\ Return(u)
  /\ UNCHANGED <<shared, running, taken, calls, tasks, cleared>>

(* WaitForTasks returns, or throws after a shutdown.                       *)
StopWaiting(u) ==
  /\ pc[u] \in {"loop", "late"} /\ call[u] \notin Looping
  /\ Predicate(u) \/ pc[u] = "late"
  /\ Return(u)
  /\ UNCHANGED <<shared, running, taken, calls, tasks, cleared>>

(* A thread whose predicate does not hold gives the lock up and sleeps, in *)
(* one step.                                                               *)
Sleep(u) ==
  /\ pc[u] = "loop" /\ call[u] # "Loop"
  /\ call[u] \in Looping => count[u] > 0
  /\ ~Predicate(u)
  /\ pc' = [pc EXCEPT ![u] = "sleep"]
  /\ UNCHANGED <<shared, call, count, running, taken, calls, tasks, cleared>>

(* The deadline passes: the predicate is evaluated once more.              *)
TimeOut(u) ==
  /\ pc[u] = "sleep" /\ call[u] \in Timed
  /\ pc' = [pc EXCEPT ![u] = "late"]
  /\ UNCHANGED <<shared, call, count, running, taken, calls, tasks, cleared>>

(* LoopUntilImpl finds that the deadline has passed before it looks again. *)
DeadlinePassed(u) ==
  /\ pc[u] = "loop" /\ call[u] = "LoopFor"
  /\ Return(u)
  /\ UNCHANGED <<shared, running, taken, calls, tasks, cleared>>

FinishTask(u) ==
  /\ pc[u] = "run"
  /\ Becomes({running[u]}, "executed")
  /\ running' = [running EXCEPT ![u] = None]
  /\ count' = [count EXCEPT ![u] = @ - 1]
  /\ pc' = [pc EXCEPT ![u] = "loop"]
  /\ UNCHANGED <<shared, call, taken, calls, offered, cleared>>

-----------------------------------------------------------------------------
(* Clear and ShutDown.                                                     *)

(* Clear throws after a shutdown; else it takes all the tasks.             *)
Clear(u) ==
  /\ Free(u) /\ ~abort
  /\ taken' = [taken EXCEPT ![u] = In(queue)]
  /\ queue' = <<>>
  /\ cleared' = (cleared \/ queue # <<>>)
  /\ pc' = [pc EXCEPT ![u] = "destroy"]
  /\ Counted
  /\ UNCHANGED <<abort, atomicAbort, call, count, running, tasks>>

(* The tasks are destroyed when the list goes out of scope.                *)
DestroyTasks(u) ==
  /\ pc[u] = "destroy"
  /\ Becomes(taken[u], "destroyed")
  /\ taken' = [taken EXCEPT ![u] = {}]
  /\ pc' = [pc EXCEPT ![u] = Back(u)]
  /\ UNCHANGED <<shared, call, count, running, calls, offered, cleared>>

(* Only the first call goes on.                                            *)
ShutDown(u) ==
  /\ Free(u)
  /\ atomicAbort' = TRUE
  /\ pc' = [pc EXCEPT ![u] = IF atomicAbort THEN @ ELSE "abort"]
  /\ Counted
  /\ UNCHANGED <<queue, abort, call, count, running, taken, tasks, cleared>>

(* A faulty variant: the flag that the critical sections read is not set.  *)
SetAbort_AtomicOnly(u) ==
  /\ pc[u] = "abort"
  /\ taken' = [taken EXCEPT ![u] = In(queue)]
  /\ queue' = <<>>
  /\ pc' = [pc EXCEPT ![u] = "notifyAbort"]
  /\ UNCHANGED <<abort, atomicAbort, call, count, running, calls, tasks, cleared>>

SetAbort(u) ==
  /\ pc[u] = "abort"
  /\ abort' = TRUE
  /\ taken' = [taken EXCEPT ![u] = In(queue)]
  /\ queue' = <<>>
  /\ pc' = [pc EXCEPT ![u] = "notifyAbort"]
  /\ UNCHANGED <<atomicAbort, call, count, running, calls, tasks, cleared>>

(* A faulty variant: ShutDown does not notify.                             *)
NotifyAbort_Skips(u) ==
  /\ pc[u] = "notifyAbort"
  /\ pc' = [pc EXCEPT ![u] = "destroy"]
  /\ UNCHANGED <<shared, call, count, running, taken, calls, tasks, cleared>>

NotifyAbort(u) ==
  /\ pc[u] = "notifyAbort"
  /\ pc' = [Woken(pc) EXCEPT ![u] = "destroy"]
  /\ UNCHANGED <<shared, call, count, running, taken, calls, tasks, cleared>>

-----------------------------------------------------------------------------
(* What a thread does once it is in a call.                                *)
Proceed(u) ==
  \/ NotifyAll(u) \/ RanAll(u) \/ PopTask(u) \/ LeaveLoop(u) \/ StopWaiting(u)
  \/ Sleep(u) \/ TimeOut(u) \/ FinishTask(u)
  \/ DestroyTasks(u) \/ SetAbort(u) \/ NotifyAbort(u)

Next ==
  \E u \in Users :
    \/ Enqueue(u) \/ Call(u) \/ Clear(u) \/ ShutDown(u)
    \/ DeadlinePassed(u) \/ Proceed(u)

(* A thread that can run does, a task returns, and a deadline passes.      *)
Spec == Init /\ [][Next]_vars /\ \A u \in Users : WF_vars(Proceed(u))

-----------------------------------------------------------------------------
(* Properties.                                                             *)

(* A task that was accepted and has not been started is in one place: in   *)
(* m_lstTasks, once, or among the tasks that one call of Clear or ShutDown *)
(* has moved out; and a task that is running is run by one thread.         *)
(* LoopImpl, Clear and ShutDown all take tasks out and go on without the   *)
(* lock.  And the lock is released before notify_all is called, and        *)
(* threads wait for different things: one that sleeps although it should   *)
(* not has a notification coming.                                          *)
NoTaskLost ==
  /\ TypeOK
  /\ \A t \in Tasks :
       /\ Cardinality({k \in DOMAIN queue : queue[k] = t})
            + Cardinality({u \in Users : t \in taken[u]})
          = (IF fate[t] = "queued" THEN 1 ELSE 0)
       /\ Cardinality({u \in Users : running[u] = t})
          = (IF fate[t] = "running" THEN 1 ELSE 0)
  /\ \A u \in Users :
       pc[u] = "sleep" /\ Predicate(u)
         => \E v \in Users : pc[v] \in {"notify", "notifyAbort"}

(* Seen from outside, the executor is one that destroys tasks on request:  *)
(* it is rid of them when ShutDown has returned and the threads that were  *)
(* running or clearing tasks, for which ShutDown does not wait, are done.  *)
Rid ==
  /\ atomicAbort
  /\ \A u \in Users : /\ running[u] = None /\ taken[u] = {}
                      /\ pc[u] \notin {"abort", "notifyAbort", "destroy"}

Contract == INSTANCE ExecutorContract WITH
  requested <- atomicAbort \/ cleared, closed <- Rid

(* Every step is one that ExecutorContract allows: a task that Enqueue     *)
(* accepts is run or destroyed, one of the two and once, is destroyed only *)
(* by Clear or ShutDown, and none is accepted after the shutdown.          *)
KeepsContract ==
  Contract!EInit /\ [][Contract!ENext]_(Contract!evars)

(* Again and again no thread sleeps that ought to go on: the ones that     *)
(* wait for tasks that are there, and after a shutdown all of them.        *)
WaitersGoOn ==
  []<>(\A u \in Users : /\ pc[u] = "sleep" => ~Predicate(u)
                        /\ abort => pc[u] = "idle")
=============================================================================
