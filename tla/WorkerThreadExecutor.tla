------------------------ MODULE WorkerThreadExecutor ------------------------
(***************************************************************************)
(* CYWorkerThreadExecutor: one worker thread, a private queue that only it *)
(* touches, a public queue behind m_lock, and a binary semaphore on which  *)
(* the worker sleeps.                                                      *)
(*                                                                         *)
(* A step is one critical section of m_lock, one operation on the          *)
(* semaphore or on an atomic flag, or a step of the worker on its private  *)
(* queue.  Tasks are numbered in the order in which they are offered to    *)
(* the executor.                                                           *)
(***************************************************************************)
EXTENDS Integers, Sequences

CONSTANTS
  N,          \* the tasks are 1 .. N
  MaxBatch,   \* bound: the length of a span passed to Enqueue
  Producers,  \* foreign threads that enqueue
  Closers     \* threads that call ShutDown

ASSUME WorkerAssumption == N \in Nat \ {0} /\ MaxBatch \in Nat \ {0}

Tasks == 1 .. N

VARIABLES
  publicQueue,   \* m_lstPublicTaskQueue
  privateQueue,  \* m_lstPrivTaskQueue
  publicAbort,   \* m_bPublicAbort
  privateAbort,  \* m_bPrivateAbort
  atomicAbort,   \* m_bAtomicAbort
  signalled,     \* the flag of m_semaphore
  wpc,           \* where the worker thread is; "none" before it is created
  current,       \* the task that it runs, 0 for none
  ppc,           \* where each producer is
  spc,           \* where each caller of ShutDown is
  offered,       \* how many tasks have been offered
  local,         \* the tasks that came from the worker itself
  fate           \* what has become of each task

vars == <<publicQueue, privateQueue, publicAbort, privateAbort, atomicAbort,
          signalled, wpc, current, ppc, spc, offered, local, fate>>
aborts == <<publicAbort, privateAbort, atomicAbort>>
others == <<ppc, spc>>
tasks  == <<offered, local, fate>>

WorkerPCs == {"none", "drain", "acquire", "pop", "run", "exited"}
CloserPCs == {"idle", "public", "private", "release", "join", "clear", "closed",
              "tooLate"}

(* The tasks of a queue.                                                   *)
In(queue) == {queue[k] : k \in DOMAIN queue}

TypeOK ==
  /\ publicQueue \in Seq(Tasks)
  /\ privateQueue \in Seq(Tasks)
  /\ publicAbort \in BOOLEAN /\ privateAbort \in BOOLEAN /\ atomicAbort \in BOOLEAN
  /\ signalled \in BOOLEAN
  /\ wpc \in WorkerPCs
  /\ current \in Tasks \cup {0} /\ (current # 0 <=> wpc = "run")
  /\ ppc \in [Producers -> {"idle", "release"}]
  /\ spc \in [Closers -> CloserPCs]
  /\ offered \in 0 .. N
  /\ local \in SUBSET Tasks
  /\ fate \in [Tasks -> {"new", "queued", "running", "executed", "destroyed", "refused"}]

Init ==
  /\ publicQueue = <<>>
  /\ privateQueue = <<>>
  /\ publicAbort = FALSE
  /\ privateAbort = FALSE
  /\ atomicAbort = FALSE
  /\ signalled = FALSE
  /\ wpc = "none"
  /\ current = 0
  /\ ppc = [p \in Producers |-> "idle"]
  /\ spc = [s \in Closers |-> "idle"]
  /\ offered = 0
  /\ local = {}
  /\ fate = [t \in Tasks |-> "new"]

(* The next k tasks, in order.                                             *)
Batch(k) == [j \in 1 .. k |-> offered + j]
Sizes == {k \in 1 .. MaxBatch : offered + k <= N}

(* They are offered, with this result.                                     *)
Offer(k, result) ==
  /\ offered' = offered + k
  /\ fate' = [t \in Tasks |-> IF t \in offered + 1 .. offered + k THEN result ELSE fate[t]]

-----------------------------------------------------------------------------
(* EnqueueForeign, of a task or of a span.                                 *)

(* A faulty variant: the semaphore is released by the first task that is   *)
(* left in the queue instead of the first that comes.                      *)
EnqueueForeign_InvertsTest(p) ==
  /\ ppc[p] = "idle"
  /\ ~publicAbort
  /\ \E k \in Sizes :
       /\ publicQueue' = publicQueue \o Batch(k)
       /\ Offer(k, "queued")
  /\ wpc' = IF wpc = "none" THEN "drain" ELSE wpc
  /\ ppc' = [ppc EXCEPT ![p] = IF wpc # "none" /\ publicQueue # <<>> THEN "release" ELSE "idle"]
  /\ UNCHANGED <<privateQueue, aborts, signalled, current, spc, local>>

(* A faulty variant: m_bPublicAbort is not looked at.                      *)
EnqueueForeign_IgnoresAbort(p) ==
  /\ ppc[p] = "idle"
  /\ \E k \in Sizes :
       /\ publicQueue' = publicQueue \o Batch(k)
       /\ Offer(k, "queued")
  /\ wpc' = IF wpc = "none" THEN "drain" ELSE wpc
  /\ ppc' = [ppc EXCEPT ![p] = IF wpc # "none" /\ publicQueue = <<>> THEN "release" ELSE "idle"]
  /\ UNCHANGED <<privateQueue, aborts, signalled, current, spc, local>>

(* The first task starts the thread, which needs no signal; later ones     *)
(* release the semaphore if the queue was empty, after the lock.           *)
EnqueueForeign(p) ==
  /\ ppc[p] = "idle"
  /\ ~publicAbort
  /\ \E k \in Sizes :
       /\ publicQueue' = publicQueue \o Batch(k)
       /\ Offer(k, "queued")
  /\ wpc' = IF wpc = "none" THEN "drain" ELSE wpc
  /\ ppc' = [ppc EXCEPT ![p] = IF wpc # "none" /\ publicQueue = <<>> THEN "release" ELSE "idle"]
  /\ UNCHANGED <<privateQueue, aborts, signalled, current, spc, local>>

(* ThrowRuntimeShutdownException; the tasks are destroyed by the caller.   *)
RefuseForeign(p) ==
  /\ ppc[p] = "idle"
  /\ publicAbort
  /\ \E k \in Sizes : Offer(k, "refused")
  /\ UNCHANGED <<publicQueue, privateQueue, aborts, signalled, wpc, current, local, others>>

(* m_semaphore.release(), which saturates.                                 *)
Release(p) ==
  /\ ppc[p] = "release"
  /\ signalled' = TRUE
  /\ ppc' = [ppc EXCEPT ![p] = "idle"]
  /\ UNCHANGED <<publicQueue, privateQueue, aborts, wpc, current, spc, tasks>>

-----------------------------------------------------------------------------
(* The worker thread.                                                      *)

(* DrainQueue, the part under the lock: WaitForTask returns when there is  *)
(* a task or an abort, and otherwise sleeps; an abort ends the loop; the   *)
(* queues are swapped.                                                     *)
DrainQueue ==
  /\ wpc = "drain"
  /\ \/ /\ publicAbort
        /\ wpc' = "exited"
        /\ UNCHANGED <<publicQueue, privateQueue>>
     \/ /\ ~publicAbort /\ publicQueue # <<>>
        /\ publicQueue' = privateQueue /\ privateQueue' = publicQueue
        /\ wpc' = "pop"
     \/ /\ ~publicAbort /\ publicQueue = <<>>
        /\ wpc' = "acquire"
        /\ UNCHANGED <<publicQueue, privateQueue>>
  /\ UNCHANGED <<aborts, signalled, current, others, tasks>>

(* m_semaphore.acquire() in WaitForTask, then back under the lock.         *)
Acquire ==
  /\ wpc = "acquire"
  /\ signalled
  /\ signalled' = FALSE
  /\ wpc' = "drain"
  /\ UNCHANGED <<publicQueue, privateQueue, aborts, current, others, tasks>>

(* A faulty variant: the newest task first.                                *)
PopTask_Back ==
  /\ wpc = "pop"
  /\ \/ /\ privateQueue = <<>>
        /\ wpc' = "drain"
        /\ UNCHANGED <<privateQueue, current, fate>>
     \/ /\ privateQueue # <<>>
        /\ privateQueue' = SubSeq(privateQueue, 1, Len(privateQueue) - 1)
        /\ LET t == privateQueue[Len(privateQueue)]
           IN  IF privateAbort
                 THEN /\ wpc' = "exited"
                      /\ fate' = [fate EXCEPT ![t] = "destroyed"]
                      /\ UNCHANGED current
                 ELSE /\ wpc' = "run"
                      /\ fate' = [fate EXCEPT ![t] = "running"]
                      /\ current' = t
  /\ UNCHANGED <<publicQueue, aborts, signalled, others, offered, local>>

(* DrainQueueImpl: a task is taken out, and destroyed if the abort is seen *)
(* only then; otherwise it runs.                                           *)
PopTask ==
  /\ wpc = "pop"
  /\ \/ /\ privateQueue = <<>>
        /\ wpc' = "drain"
        /\ UNCHANGED <<privateQueue, current, fate>>
     \/ /\ privateQueue # <<>>
        /\ privateQueue' = Tail(privateQueue)
        /\ \/ /\ privateAbort
              /\ wpc' = "exited"
              /\ fate' = [fate EXCEPT ![Head(privateQueue)] = "destroyed"]
              /\ UNCHANGED current
           \/ /\ ~privateAbort
              /\ wpc' = "run"
              /\ fate' = [fate EXCEPT ![Head(privateQueue)] = "running"]
              /\ current' = Head(privateQueue)
  /\ UNCHANGED <<publicQueue, aborts, signalled, others, offered, local>>

(* EnqueueLocal: the running task enqueues, or is refused.                 *)
EnqueueLocal ==
  /\ wpc = "run"
  /\ \E k \in Sizes :
       \/ /\ privateAbort
          /\ Offer(k, "refused")
          /\ UNCHANGED <<privateQueue, local>>
       \/ /\ ~privateAbort
          /\ Offer(k, "queued")
          /\ privateQueue' = privateQueue \o Batch(k)
          /\ local' = local \cup In(Batch(k))
  /\ UNCHANGED <<publicQueue, aborts, signalled, wpc, current, others>>

(* The task returns, and the loop of DrainQueueImpl goes on.               *)
FinishTask ==
  /\ wpc = "run"
  /\ fate' = [fate EXCEPT ![current] = "executed"]
  /\ current' = 0
  /\ wpc' = "pop"
  /\ UNCHANGED <<publicQueue, privateQueue, aborts, signalled, others, offered, local>>

WorkerStep == DrainQueue \/ Acquire \/ PopTask \/ FinishTask

-----------------------------------------------------------------------------
(* ShutDown, by a thread other than the worker.                            *)

(* The exchange; only the first caller goes on, later ones return at once. *)
ShutDown(s) ==
  /\ spc[s] = "idle"
  /\ atomicAbort' = TRUE
  /\ spc' = [spc EXCEPT ![s] = IF atomicAbort THEN "tooLate" ELSE "public"]
  /\ UNCHANGED <<publicQueue, privateQueue, publicAbort, privateAbort, signalled, wpc,
                 current, ppc, tasks>>

SetPublicAbort(s) ==
  /\ spc[s] = "public"
  /\ publicAbort' = TRUE
  /\ spc' = [spc EXCEPT ![s] = "private"]
  /\ UNCHANGED <<publicQueue, privateQueue, privateAbort, atomicAbort, signalled, wpc,
                 current, ppc, tasks>>

SetPrivateAbort(s) ==
  /\ spc[s] = "private"
  /\ privateAbort' = TRUE
  /\ spc' = [spc EXCEPT ![s] = "release"]
  /\ UNCHANGED <<publicQueue, privateQueue, publicAbort, atomicAbort, signalled, wpc,
                 current, ppc, tasks>>

ReleaseForAbort(s) ==
  /\ spc[s] = "release"
  /\ signalled' = TRUE
  /\ spc' = [spc EXCEPT ![s] = "join"]
  /\ UNCHANGED <<publicQueue, privateQueue, aborts, wpc, current, ppc, tasks>>

(* m_thread.Join(), if a thread was created.                               *)
Join(s) ==
  /\ spc[s] = "join"
  /\ wpc \in {"none", "exited"}
  /\ spc' = [spc EXCEPT ![s] = "clear"]
  /\ UNCHANGED <<publicQueue, privateQueue, aborts, signalled, wpc, current, ppc, tasks>>

(* Both queues are moved out under the lock and cleared.                   *)
ClearQueues(s) ==
  /\ spc[s] = "clear"
  /\ fate' = [t \in Tasks |-> IF t \in In(publicQueue) \cup In(privateQueue)
                              THEN "destroyed" ELSE fate[t]]
  /\ publicQueue' = <<>>
  /\ privateQueue' = <<>>
  /\ spc' = [spc EXCEPT ![s] = "closed"]
  /\ UNCHANGED <<aborts, signalled, wpc, current, ppc, offered, local>>

CloserStep(s) ==
  \/ SetPublicAbort(s) \/ SetPrivateAbort(s) \/ ReleaseForAbort(s) \/ Join(s)
  \/ ClearQueues(s)

-----------------------------------------------------------------------------
(* The worker sleeps or has exited and nobody has anything left to do.     *)
Quiet ==
  /\ \A s \in Closers : spc[s] \in {"closed", "tooLate"}
  /\ \A p \in Producers : ppc[p] = "idle"
  /\ offered = N
  /\ UNCHANGED vars

Next ==
  \/ \E p \in Producers : EnqueueForeign(p) \/ RefuseForeign(p) \/ Release(p)
  \/ WorkerStep \/ EnqueueLocal
  \/ \E s \in Closers : ShutDown(s) \/ CloserStep(s)
  \/ Quiet

(* Running threads go on and a task that runs returns.  Nobody has to      *)
(* enqueue or to call ShutDown.                                            *)
Fairness ==
  /\ WF_vars(WorkerStep)
  /\ \A p \in Producers : WF_vars(Release(p))
  /\ \A s \in Closers : WF_vars(CloserStep(s))

Spec == Init /\ [][Next]_vars /\ Fairness

-----------------------------------------------------------------------------
(* Properties.                                                             *)

Queued == {t \in Tasks : fate[t] = "queued"}
Closed == \E s \in Closers : spc[s] = "closed"

(* Between the swap, the batches of foreign threads, the worker's own      *)
(* enqueues and the clearing of the queues no task is lost or doubled: the *)
(* two queues hold exactly the tasks whose fate is open, each once.  And   *)
(* the worker never sleeps on work or on an abort without a signal: the    *)
(* semaphore is released, or the thread that has to release it is about    *)
(* to, although only the enqueue that finds the queue empty releases it,   *)
(* outside the lock, and although releases do not add up.                  *)
NoTaskLost ==
  /\ TypeOK
  /\ In(publicQueue) \cup In(privateQueue) = Queued
  /\ In(publicQueue) \cap In(privateQueue) = {}
  /\ \A q \in {publicQueue, privateQueue} :
       \A j, k \in DOMAIN q : j # k => q[j] # q[k]
  /\ wpc = "acquire" /\ (publicQueue # <<>> \/ publicAbort) =>
       \/ signalled
       \/ \E p \in Producers : ppc[p] = "release"
       \/ \E s \in Closers : spc[s] \in {"private", "release"}

(* Of the tasks that foreign threads enqueued, the worker starts the       *)
(* oldest first, whatever it enqueues itself in between.                   *)
ForeignInOrder ==
  [][\A t \in Tasks \ local :
       fate[t] = "queued" /\ fate'[t] = "running"
         => \A u \in Queued \ local : t <= u]_vars

(* The executor keeps the promises of ExecutorContract, its liveness       *)
(* included.                                                               *)
Contract == INSTANCE ExecutorContract WITH requested <- atomicAbort, closed <- Closed

ImplementsContract == Contract!ESpec
=============================================================================
